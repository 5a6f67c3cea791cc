------------------------- MODULE AdminConsole_proofs -------------------------
(***************************************************************************)
(* Proofs about the reports and the web admin.  The calendar: the code that   *)
(* names the cycle of a date, the code that bounds the cycle of a month and   *)
(* the reminders' own computation agree, for every calendar and instant.      *)
(* The sums: the months of the heatmap, the days of a user and the summaries   *)
(* of a day count every item once.                                            *)
(* The tab: what is selected is shown, and what was typed for one row is      *)
(* never saved into another, for any number of pages, calls and late answers;  *)
(* every page keeps the types of what it lists and of the form it shows.      *)
(***************************************************************************)
EXTENDS AdminConsole, FiniteSetTheorems, TLAPS

\* A date is the day its instant falls into.
LEMMA DateBounds ==
  ASSUME NEW t \in Int, NEW z \in Int
  PROVE  /\ DateIn(t, z) \in Int
         /\ 24 * DateIn(t, z) <= t + z
         /\ t + z < 24 * DateIn(t, z) + 24
BY DEF DateIn, DayLength

\* A date is a date of its month.
LEMMA MonthOfDay ==
  ASSUME NEW d \in Days
  PROVE  /\ MonthOf[d] \in Months
         /\ MonthStart[MonthOf[d]] <= d
         /\ d < MonthStart[MonthOf[d] + 1]
<1>1. \E k \in Months : MonthStart[k] <= d /\ d < MonthStart[k + 1]
  BY CalendarAssumption
<1> QED BY <1>1 DEF MonthOf

(* An instant lies in the window of a month exactly when the month is the one its
   local date is reported under: the windows of stats.service.ts (one query per
   month) and its keys (one query over a year) sort every message alike. *)
THEOREM WindowOfKey ==
  ASSUME NEW t \in Int, NEW k \in (FirstMonth + 1)..LastMonth, DateIn(t, Offset) \in Days
  PROVE  InWindow(t, monthWindowFromParts(k)) <=> monthKeyFromDate(t) = k
<1> DEFINE d == DateIn(t, Offset)
           m == MonthOf[d]
<1>1. /\ d \in Int /\ 24 * d <= t + 7 /\ t + 7 < 24 * d + 24
  BY DateBounds DEF Offset
<1>2. /\ m \in Months /\ MonthStart[m] <= d /\ d < MonthStart[m + 1]
  BY MonthOfDay
<1>3. monthKeyFromDate(t) = IF d - MonthStart[m] + 1 >= 20 THEN m + 1 ELSE m
  BY DEF monthKeyFromDate, DayOfMonth, StartDay
<1> HIDE DEF d, m
<1>4. /\ k \in Int /\ m \in Int /\ FirstMonth \in Int /\ LastMonth \in Int
      /\ k - 1 \in FirstMonth..(LastMonth + 1) /\ k \in FirstMonth..(LastMonth + 1)
      /\ m \in FirstMonth..(LastMonth + 1) /\ m + 1 \in FirstMonth..(LastMonth + 1)
  BY <1>2, CalendarAssumption DEF Months
<1>5. \A j \in FirstMonth..(LastMonth + 1) : MonthStart[j] \in Int
  BY CalendarAssumption
<1>6. InWindow(t, monthWindowFromParts(k)) <=> MonthStart[k - 1] + 19 <= d /\ d < MonthStart[k] + 19
  <2>1. InWindow(t, monthWindowFromParts(k)) <=>
          24 * (MonthStart[k - 1] + 20 - 1) - 7 <= t /\ t <= 24 * (MonthStart[k] + 20 - 1) - 7 - 1
    BY DEF InWindow, monthWindowFromParts, DateUTC, DayLength, StartDay, Offset
  <2> QED BY <2>1, <1>1, <1>4, <1>5
<1>7. CASE k < m
  <2>1. k + 1 = m \/ k + 1 < m
    BY <1>4, <1>7
  <2>2. MonthStart[k] + 28 <= MonthStart[m]
    BY <1>4, <1>7, CalendarAssumption
  <2> QED BY <1>1, <1>2, <1>3, <1>4, <1>5, <1>6, <1>7, <2>2
<1>8. CASE k = m
  <2>1. MonthStart[k - 1] + 28 <= MonthStart[k]
    BY <1>4, CalendarAssumption
  <2> QED BY <1>1, <1>2, <1>3, <1>4, <1>5, <1>6, <1>8, <2>1
<1>9. CASE k = m + 1
  <2>1. MonthStart[m] + 28 <= MonthStart[k]
    BY <1>4, <1>9, CalendarAssumption
  <2>2. k - 1 = m
    BY <1>4, <1>9
  <2> QED BY <1>1, <1>2, <1>3, <1>4, <1>5, <1>6, <1>9, <2>1, <2>2
<1>10. CASE k > m + 1
  <2>1. MonthStart[m + 1] <= MonthStart[k - 1]
    <3>1. k - 1 = m + 1 \/ MonthStart[m + 1] + 28 <= MonthStart[k - 1]
      BY <1>4, <1>10, CalendarAssumption
    <3> QED BY <1>4, <1>5, <3>1
  <2> QED BY <1>1, <1>2, <1>3, <1>4, <1>5, <1>6, <1>10, <2>1
<1> QED BY <1>4, <1>7, <1>8, <1>9, <1>10

(* The window from which the reminders tell who has sent nothing is the window of
   the current month of the statistics, at whatever instant it is computed. *)
THEOREM RemindersUseTheCycle ==
  ASSUME NEW t \in Int, DateIn(t, Offset) \in Days
  PROVE  currentReportingWindow(t) = monthWindowFromParts(monthKeyFromDate(t))
<1> DEFINE d == DateIn(t, Offset)
           m == MonthOf[d]
<1>1. m \in Int
  BY MonthOfDay, CalendarAssumption DEF Months
<1> HIDE DEF d, m
<1>2. CASE DayOfMonth(d) >= StartDay
  BY <1>1, <1>2 DEF currentReportingWindow, monthWindowFromParts, monthKeyFromDate, d, m
<1>3. CASE ~(DayOfMonth(d) >= StartDay)
  BY <1>1, <1>3 DEF currentReportingWindow, monthWindowFromParts, monthKeyFromDate, d, m
<1> QED BY <1>2, <1>3

\* The time stays one of the instants.
LEMMA Clock == Spec => [](now \in Instants)
<1>1. Init => now \in Instants
  BY DEF Init, ReportingInit
<1>2. now \in Instants /\ [Next]_vars => (now \in Instants)'
  <2> SUFFICES ASSUME now \in Instants, [Next]_vars, now' # now
               PROVE  now' \in Instants
    OBVIOUS
  <2>1. Tick
    BY Zenon DEF Next, vars, TablesStep, Record, Settle, Serve, SwitchedElsewhere, Tab, reportVars
  <2> QED BY <2>1 DEF Tick
<1> QED BY <1>1, <1>2, PTL DEF Spec

(* Whoever is reminded of missing media has none on the page of the current month
   and is on the list of users without an image. *)
THEOREM ReminderMeetsReport == Spec => []RemindedAreListed
<1>1. now \in Instants => RemindedAreListed
  <2> SUFFICES ASSUME now \in Instants PROVE RemindedAreListed
    OBVIOUS
  <2> DEFINE window == currentReportingWindow(now)
             Mine(u) == Of(u, Uploaded(window))
  <2>1. window = monthWindowFromParts(monthKeyFromDate(now))
    BY RemindersUseTheCycle, TablesAssumption
  <2>2. \A u \in Users : IsFiniteSet(Mine(u))
    <3>1. \A u \in Users : Mine(u) \subseteq Items
      BY DEF Of, Uploaded, Recorded
    <3> QED BY <3>1, FS_Subset, TablesAssumption
  <2>3. \A u \in Users : Cardinality(Mine(u)) = 0 <=> Mine(u) = {}
    BY <2>2, FS_EmptySet
  <2>4. \A u \in Users : Mine(u) = {} => Cardinality(OfType("photo", Mine(u))) = 0
    BY FS_EmptySet DEF OfType
  <2>5. loadActiveUsers \subseteq Users
    BY DEF loadActiveUsers
  <2>6. resolveTargetIds("no_media_current_period", now) = {u \in loadActiveUsers : Mine(u) = {}}
    BY DEF resolveTargetIds
  <2> HIDE DEF window
  <2>7. /\ DOMAIN monthUsers(monthKeyFromDate(now)) = loadActiveUsers
        /\ \A u \in loadActiveUsers :
             monthUsers(monthKeyFromDate(now))[u].total = Cardinality(Mine(u))
    BY <2>1, <2>5 DEF monthUsers, loadUploadedMediaBuckets
  <2>8. currentMonthMissingImageUsers(now) =
          {u \in loadActiveUsers : Cardinality(OfType("photo", Mine(u))) = 0}
    BY <2>1, <2>5 DEF currentMonthMissingImageUsers, loadUploadedMediaBuckets
  <2> HIDE DEF Mine
  <2> QED BY <2>3, <2>4, <2>5, <2>6, <2>7, <2>8 DEF RemindedAreListed
<1> QED BY <1>1, Clock, PTL

\* A set of natural numbers has a least.
LEMMA Least == ASSUME NEW S \in SUBSET Nat, S # {} PROVE \E i \in S : \A j \in S : i <= j
<1>1. PICK i \in S : \A j \in S : ~ (<<j, i>> \in OpToRel(<, Nat))
  BY NatLessThanWellFounded, WFMin
<1>2. \A j \in S : ~(j < i)
  BY <1>1 DEF OpToRel
<1> QED BY <1>2

\* A run of a date has that date and its hour in the schedule's zone.
LEMMA RunOfDate ==
  ASSUME NEW d \in Int, NEW h \in 0..(DayLength - 1), NEW z \in Int
  PROVE  DateIn(DayLength * d + h - z, z) = d /\ HourIn(DayLength * d + h - z, z) = h
BY DEF DateIn, HourIn, DayLength

\* Where the offset is fixed, 24 hours later is the next date.
LEMMA DaysFollow ==
  ASSUME NEW t \in Int, NEW z \in Int, NEW i \in Int
  PROVE  DateIn(t + DayLength * i, z) = DateIn(t, z) + i
<1> DEFINE d == DateIn(t, z)
<1>1. d \in Int /\ 24 * d <= t + z /\ t + z < 24 * d + 24
  BY DateBounds
<1>2. /\ DateIn(t + 24 * i, z) \in Int
      /\ 24 * DateIn(t + 24 * i, z) <= t + 24 * i + z
      /\ t + 24 * i + z < 24 * DateIn(t + 24 * i, z) + 24
  BY DateBounds
<1> HIDE DEF d
<1>3. DateIn(t + 24 * i, z) = d + i
  BY <1>1, <1>2
<1> QED BY <1>3 DEF d, DayLength

LEMMA CandidatesAreDays ==
  ASSUME NEW t \in Int, NEW s \in Schedules, NEW n \in Nat
  PROVE  Candidates(s, t, n) = DateIn(t, s.zone)..(DateIn(t, s.zone) + n - 1)
<1> DEFINE date == DateIn(t, s.zone)
<1>1. s.zone \in Int
  BY SchedulesAssumption
<1>2. date \in Int
  BY <1>1, DateBounds
<1>3. \A i \in 0..(n - 1) : DateIn(t + DayLength * i, s.zone) = date + i
  BY <1>1, DaysFollow
<1> HIDE DEF date
<1>4. Candidates(s, t, n) = {date + i : i \in 0..(n - 1)}
  BY <1>3 DEF Candidates
<1>5. ASSUME NEW d \in date..(date + n - 1) PROVE d \in {date + i : i \in 0..(n - 1)}
  <2>1. d - date \in 0..(n - 1) /\ d = date + (d - date)
    BY <1>2
  <2> QED BY <2>1
<1>6. ASSUME NEW i \in 0..(n - 1) PROVE date + i \in date..(date + n - 1)
  BY <1>2
<1> QED BY <1>4, <1>5, <1>6 DEF date

(* The run a schedule is shown with is its next: nextRunLabel, which goes on by 24
   hours, and isScheduleDue, which looks at the hour, agree at every instant and in
   every zone of a fixed offset. *)
THEOREM NextRunShown == Spec => []NextRunIsNext
<1>1. ASSUME now \in Instants, NEW s \in Schedules
      PROVE  LET At(d) == DayLength * d + s.hour - s.zone
                 next == Min(NextDates(s, now, Horizon))
             IN  /\ At(next) > now /\ isScheduleDue(s, At(next))
                 /\ \A d \in DateIn(now, s.zone)..(next - 1) : At(d) > now => ~isScheduleDue(s, At(d))
  <2> DEFINE At(d) == DayLength * d + s.hour - s.zone
             dates == NextDates(s, now, Horizon)
             next == Min(dates)
             date == DateIn(now, s.zone)
             hour == HourIn(now, s.zone)
  <2>1. now \in Int /\ s.zone \in Int /\ s.hour \in 0..23 /\ Horizon \in Nat /\ dates # {}
    BY <1>1, TablesAssumption, SchedulesAssumption DEF DayLength
  <2>2. date \in Int /\ hour \in 0..23 /\ now + s.zone = 24 * date + hour
    BY <2>1 DEF DateIn, HourIn, DayLength
  <2>3. \A d : d \in dates <=> /\ d \in date..(date + Horizon - 1) /\ DayOfMonth(d) \in s.days
                             /\ ~(d = date /\ s.hour <= hour)
    BY <2>1, CandidatesAreDays DEF NextDates
  <2>4. next \in dates /\ \A d \in dates : next <= d
    <3> DEFINE after == {d - date : d \in dates}
    <3>1. after \subseteq Nat /\ after # {}
      BY <2>1, <2>2, <2>3
    <3>2. PICK n \in after : \A m \in after : n <= m
      BY <3>1, Least
    <3>3. PICK d \in dates : n = d - date
      OBVIOUS
    <3>4. \A e \in dates : n <= e - date
      BY <3>2
    <3>5. \A e \in dates : e \in Int
      BY <2>1, <2>2, <2>3
    <3> HIDE DEF dates, date, after
    <3>6. \A e \in dates : d <= e
      BY <2>2, <3>3, <3>4, <3>5
    <3> QED BY <3>6 DEF Min
  <2>5. \A d \in Int : isScheduleDue(s, At(d)) <=> DayOfMonth(d) \in s.days
    <3>1. s.hour \in 0..(DayLength - 1)
      BY SchedulesAssumption
    <3> QED BY <2>1, <3>1, RunOfDate DEF isScheduleDue
  <2>6. \A d \in Int : At(d) = 24 * d + s.hour - s.zone
    BY DEF DayLength
  <2> HIDE DEF At, dates, next, date, hour
  <2>7. next \in Int /\ next >= date /\ next <= date + Horizon - 1
    BY <2>1, <2>2, <2>3, <2>4
  <2>8. At(next) > now
    <3>1. At(next) = 24 * next + s.hour - s.zone
      BY <2>6, <2>7
    <3>2. next = date => hour < s.hour
      <4>1. ~(next = date /\ s.hour <= hour)
        BY <2>3, <2>4
      <4> QED BY <2>1, <2>2, <4>1
    <3>3. next = date \/ next >= date + 1
      BY <2>2, <2>7
    <3> QED BY <2>1, <2>2, <2>7, <3>1, <3>2, <3>3
  <2>9. isScheduleDue(s, At(next))
    BY <2>3, <2>4, <2>5, <2>7
  <2>10. ASSUME NEW d \in date..(next - 1), At(d) > now, isScheduleDue(s, At(d)) PROVE FALSE
    <3>1. d \in Int /\ d \in date..(date + Horizon - 1) /\ d < next
      BY <2>1, <2>2, <2>7
    <3>2. d = date => ~(s.hour <= hour)
      BY <2>1, <2>2, <2>6, <2>10, <3>1
    <3>3. d \in dates
      BY <2>3, <2>5, <2>10, <3>1, <3>2
    <3> QED BY <2>4, <2>7, <3>1, <3>3
  <2> QED BY <2>8, <2>9, <2>10 DEF At, next, dates, date
<1>2. now \in Instants => NextRunIsNext
  BY <1>1 DEF NextRunIsNext
<1> QED BY <1>2, Clock, PTL

\* An instant lies on a date exactly when it lies between its first and last hour.
LEMMA DateHolds ==
  ASSUME NEW t \in Int, NEW z \in Int, NEW d \in Int
  PROVE  DateIn(t, z) = d <=> DayLength * d - z <= t /\ t <= DayLength * d + DayLength - 1 - z
<1>1. /\ DateIn(t, z) \in Int
      /\ 24 * DateIn(t, z) <= t + z /\ t + z < 24 * DateIn(t, z) + 24
  BY DateBounds
<1>2. DateIn(t, z) = d <=> 24 * d - z <= t /\ t <= 24 * d + 23 - z
  BY <1>1
<1>3. DayLength * d + DayLength - 1 - z = 24 * d + 23 - z /\ DayLength * d = 24 * d
  BY DEF DayLength
<1> QED BY <1>2, <1>3

(* An instant lies in the window of a month exactly when its local date is one of
   the days a user's page shows as that month's cycle: the window, which is cut in
   instants, begins and ends with a day. *)
THEOREM CycleIsItsDays ==
  ASSUME NEW t \in Int, NEW k \in (FirstMonth + 1)..LastMonth
  PROVE  LET window == monthWindowFromParts(k)
         IN  InWindow(t, window) <=>
               /\ formatAnalyticsDate(window.start) <= formatAnalyticsDate(t)
               /\ formatAnalyticsDate(t) <= formatAnalyticsDate(window.end)
<1> DEFINE a == MonthStart[k - 1] + 19
           b == MonthStart[k] + 19
           w == monthWindowFromParts(k)
<1>1. a \in Int /\ b \in Int
  BY CalendarAssumption
<1>2. w.start = 24 * a - 7 /\ w.end = 24 * b - 8
  <2>1. w.start = 24 * (MonthStart[k - 1] + 20 - 1) - 7 /\ w.end = 24 * (MonthStart[k] + 20 - 1) - 7 - 1
    BY DEF monthWindowFromParts, DateUTC, DayLength, StartDay, Offset
  <2>2. MonthStart[k - 1] \in Int /\ MonthStart[k] \in Int
    BY CalendarAssumption
  <2> QED BY <2>1, <2>2
<1>3. InWindow(t, w) <=> 24 * a - 7 <= t /\ t <= 24 * b - 8
  BY <1>2 DEF InWindow
<1> HIDE DEF a, b, w
<1>4. DateIn(w.start, 7) = a
  BY <1>1, <1>2, DateHolds DEF DayLength
<1>5. DateIn(w.end, 7) = b - 1
  BY <1>1, <1>2, DateHolds DEF DayLength
<1>6. /\ DateIn(t, 7) \in Int
      /\ 24 * DateIn(t, 7) <= t + 7 /\ t + 7 < 24 * DateIn(t, 7) + 24
  BY DEF DateIn, DayLength
<1>7. InWindow(t, w) <=> a <= DateIn(t, 7) /\ DateIn(t, 7) <= b - 1
  BY <1>1, <1>3, <1>6
<1> QED BY <1>4, <1>5, <1>7 DEF w, formatAnalyticsDate, Offset

\* The rows of media_item are rows.
MediaTyped == media \in [Items -> MediaRow \cup {NoRow}]

LEMMA MediaStays == Spec => []MediaTyped
<1>1. Init => MediaTyped
  BY DEF Init, ReportingInit, MediaTyped
<1>2. MediaTyped /\ [Next]_vars => MediaTyped'
  <2> SUFFICES ASSUME MediaTyped, [Next]_vars, media' # media
               PROVE  MediaTyped'
    BY DEF MediaTyped
  <2>1. PICK i \in Items : Record(i) \/ Settle(i)
    BY Zenon DEF Next, vars, TablesStep, Tick, Serve, SwitchedElsewhere, Tab, reportVars
  <2>2. CASE Record(i)
    <3>1. PICK r \in MediaRow : media' = [media EXCEPT ![i] = r]
      BY <2>2 DEF Record
    <3> QED BY <3>1 DEF MediaTyped
  <2>3. CASE Settle(i)
    <3>1. PICK s \in Statuses : media' = [media EXCEPT ![i].status = s]
      BY <2>3 DEF Settle
    <3>2. media[i] \in MediaRow
      BY <2>3 DEF Settle, MediaTyped
    <3>3. [media[i] EXCEPT !.status = s] \in MediaRow
      BY <3>2 DEF MediaRow
    <3> QED BY <3>1, <3>3 DEF MediaTyped
  <2> QED BY <2>1, <2>2, <2>3
<1> QED BY <1>1, <1>2, PTL DEF Spec

LEMMA DatesOfItems ==
  ASSUME MediaTyped, NEW i \in Recorded
  PROVE  /\ media[i].date \in Instants /\ media[i].date \in Int
         /\ DateIn(media[i].date, Offset) \in Days
BY TablesAssumption DEF MediaTyped, Recorded, MediaRow

\* The heatmap of a year counts for a month the uploaded items of that month's own
\* window, and their senders.
HeatmapCountsMonths ==
  \A y \in Years : \A k \in MonthsOf(y) :
    LET found == Uploaded(monthWindowFromParts(k))
    IN  monthlyHeatmap(y)[k] =
          [total_media |-> Cardinality(found),
           active_users |-> Cardinality({media[i].sender : i \in found} \ {NoSender})]

(* For every calendar, year and table the heatmap, which sorts one query over the
   year by the keys of the dates, counts for each month what the month's own query
   finds: no item is lost or counted twice where two cycles or two years meet. *)
THEOREM HeatmapMeetsMonths == Spec => []HeatmapCountsMonths
<1>1. MediaTyped => HeatmapCountsMonths
  <2> SUFFICES ASSUME MediaTyped, NEW y \in Years, NEW k \in MonthsOf(y)
               PROVE  LET found == Uploaded(monthWindowFromParts(k))
                      IN  monthlyHeatmap(y)[k] =
                            [total_media |-> Cardinality(found),
                             active_users |-> Cardinality({media[i].sender : i \in found} \ {NoSender})]
    BY DEF HeatmapCountsMonths
  <2> DEFINE span == [start |-> monthWindowFromParts(12 * y).start,
                      end |-> monthWindowFromParts(12 * y + 11).end]
             inMonth == {i \in Uploaded(span) : monthKeyFromDate(media[i].date) = k}
             found == Uploaded(monthWindowFromParts(k))
  <2>1. /\ y \in Int /\ FirstMonth \in Int /\ LastMonth \in Int /\ k \in Int
        /\ 12 * y <= k /\ k <= 12 * y + 11
        /\ FirstMonth + 1 <= 12 * y /\ 12 * y + 11 <= LastMonth
    <3>1. y \in Int /\ 12 * y \in MonthsOf(y) /\ 12 * y + 11 \in MonthsOf(y)
      BY YearsAssumption DEF MonthsOf
    <3>2. 12 * y \in (FirstMonth + 1)..LastMonth /\ 12 * y + 11 \in (FirstMonth + 1)..LastMonth
      BY <3>1, YearsAssumption
    <3>3. k \in Int /\ 12 * y <= k /\ k <= 12 * y + 11
      BY <3>1 DEF MonthsOf
    <3> QED BY <3>1, <3>2, <3>3, CalendarAssumption
  <2>2. /\ k \in (FirstMonth + 1)..LastMonth
        /\ k - 1 \in FirstMonth..(LastMonth + 1) /\ k \in FirstMonth..(LastMonth + 1)
        /\ 12 * y - 1 \in FirstMonth..(LastMonth + 1) /\ 12 * y + 11 \in FirstMonth..(LastMonth + 1)
    BY <2>1
  <2>3. /\ MonthStart[12 * y - 1] \in Int /\ MonthStart[k - 1] \in Int
        /\ MonthStart[k] \in Int /\ MonthStart[12 * y + 11] \in Int
        /\ MonthStart[12 * y - 1] <= MonthStart[k - 1]
        /\ MonthStart[k] <= MonthStart[12 * y + 11]
    <3>1. \A j \in FirstMonth..(LastMonth + 1) : MonthStart[j] \in Int
      BY CalendarAssumption
    <3>2. 12 * y - 1 = k - 1 \/ MonthStart[12 * y - 1] + 28 <= MonthStart[k - 1]
      BY <2>1, <2>2, CalendarAssumption
    <3>3. k = 12 * y + 11 \/ MonthStart[k] + 28 <= MonthStart[12 * y + 11]
      BY <2>1, <2>2, CalendarAssumption
    <3> QED BY <2>2, <3>1, <3>2, <3>3
  <2>4. \A t \in Int : InWindow(t, monthWindowFromParts(k)) => InWindow(t, span)
    <3>1. /\ span.start = 24 * (MonthStart[12 * y - 1] + 20 - 1) - 7
          /\ span.end = 24 * (MonthStart[12 * y + 11] + 20 - 1) - 7 - 1
          /\ monthWindowFromParts(k).start = 24 * (MonthStart[k - 1] + 20 - 1) - 7
          /\ monthWindowFromParts(k).end = 24 * (MonthStart[k] + 20 - 1) - 7 - 1
      BY DEF monthWindowFromParts, DateUTC, DayLength, StartDay, Offset
    <3> HIDE DEF span
    <3> QED BY <2>3, <3>1 DEF InWindow
  <2>5. \A i \in Recorded : /\ media[i].date \in Int
                            /\ InWindow(media[i].date, monthWindowFromParts(k))
                                 <=> monthKeyFromDate(media[i].date) = k
    BY <2>2, DatesOfItems, WindowOfKey
  <2> HIDE DEF span
  <2>6. inMonth = found
    BY <2>4, <2>5 DEF Uploaded
  <2>7. monthlyHeatmap(y)[k] =
          [total_media |-> Cardinality(inMonth),
           active_users |-> Cardinality({media[i].sender : i \in inMonth} \ {NoSender})]
    BY DEF monthlyHeatmap, span
  <2> QED BY <2>6, <2>7
<1> QED BY <1>1, MediaStays, PTL

\* What is taken is part of what there is, and all of it within the limit.
LEMMA Taken ==
  ASSUME NEW n, NEW S, NEW T \in TakeOf(n, S)
  PROVE  T \subseteq S /\ (Cardinality(S) <= n => T = S)
BY DEF TakeOf, kSubset

LEMMA FiniteFailures == IsFiniteSet(Failures)
<1>1. Failures \subseteq Items
  BY DEF Failures, Recorded
<1> QED BY <1>1, TablesAssumption, FS_Subset

\* What the page of a sender counts as failed for a date it shows are the failures of
\* that sender and date.
LEMMA FailedOfDay ==
  ASSUME NEW u \in Users, NEW d \in DOMAIN userUploadHistory(u)
  PROVE  userUploadHistory(u)[d].failed_count =
           Cardinality({i \in Failures : FailureKey(i) = [sender |-> u, date |-> d]})
<1> DEFINE day == {i \in Of(u, Recorded) : DateIn(media[i].date, Offset) = d}
           e == [sender |-> u, date |-> d]
<1>1. u # NoSender
  BY TablesAssumption
<1>2. \A i : FailureKey(i) = e <=> media[i].sender = u /\ DateIn(media[i].date, Offset) = d
  BY DEF FailureKey, formatAnalyticsDate
<1>3. {i \in day : media[i].status = "failed"} = {i \in Failures : FailureKey(i) = e}
  BY <1>1, <1>2 DEF Of, Failures
<1>4. d \in Newest(HistoryDays, DaysOf(u))
  BY DEF userUploadHistory
<1>5. userUploadHistory(u)[d].failed_count = Cardinality({i \in day : media[i].status = "failed"})
  BY <1>4 DEF userUploadHistory
<1> QED BY <1>3, <1>5

(* For every table and every limit of the queries: a line of the failed uploads counts
   no more than the user's page counts for its date, and the same if the dashboard
   reads every failed item; if no line is cut either, no failure of a shown day is
   without its line; and a backfill of a day reads the messages that day shows.  The
   database's grouping by added hours, the formatted date and the parsed date are one
   calendar. *)
THEOREM DaysAreOneCalendar ==
  Spec => [](FailureDays /\ \A u \in Users : BackfillDays(u, userUploadHistory(u)))
<1>1. MediaTyped => FailureDays
  <2> DEFINE allTaken == Cardinality(Failures) <= FailedTake
             allShown == Cardinality({FailureKey(i) : i \in Failures}) <= FailedLines
             Keyed(e) == {i \in Failures : FailureKey(i) = e}
  <2> SUFFICES ASSUME MediaTyped, NEW lines \in FailedUploads
               PROVE  /\ \A e \in DOMAIN lines :
                           e.date \in DOMAIN userUploadHistory(e.sender) =>
                             /\ lines[e] <= userUploadHistory(e.sender)[e.date].failed_count
                             /\ allTaken => lines[e] = userUploadHistory(e.sender)[e.date].failed_count
                      /\ allTaken /\ allShown =>
                           \A u \in Users : \A d \in DOMAIN userUploadHistory(u) :
                             userUploadHistory(u)[d].failed_count > 0 => [sender |-> u, date |-> d] \in DOMAIN lines
    BY DEF FailureDays
  <2>0. PICK taken \in TakeOf(FailedTake, Failures) :
          \E keys \in TakeOf(FailedLines, {FailureKey(i) : i \in taken}) :
            lines = [e \in keys |-> Cardinality({i \in taken : FailureKey(i) = e})]
    BY DEF FailedUploads
  <2>1. PICK keys \in TakeOf(FailedLines, {FailureKey(i) : i \in taken}) :
          lines = [e \in keys |-> Cardinality({i \in taken : FailureKey(i) = e})]
    BY <2>0
  <2>2. /\ taken \subseteq Failures /\ (allTaken => taken = Failures)
        /\ keys \subseteq {FailureKey(i) : i \in taken}
        /\ Cardinality({FailureKey(i) : i \in taken}) <= FailedLines => keys = {FailureKey(i) : i \in taken}
    BY Taken
  <2>3. ASSUME NEW e \in keys, e.date \in DOMAIN userUploadHistory(e.sender)
        PROVE  /\ lines[e] <= userUploadHistory(e.sender)[e.date].failed_count
               /\ allTaken => lines[e] = userUploadHistory(e.sender)[e.date].failed_count
    <3>1. PICK j \in Failures : e = FailureKey(j)
      BY <2>2
    <3>2. e.sender \in Users /\ e = [sender |-> e.sender, date |-> e.date]
      BY <3>1 DEF Failures, FailureKey, MediaTyped, MediaRow, Senders, Recorded
    <3>3. userUploadHistory(e.sender)[e.date].failed_count = Cardinality(Keyed(e))
      BY <2>3, <3>2, FailedOfDay
    <3>4. lines[e] = Cardinality({i \in taken : FailureKey(i) = e})
      BY <2>1
    <3>5. {i \in taken : FailureKey(i) = e} \subseteq Keyed(e) /\ IsFiniteSet(Keyed(e))
      BY <2>2, FiniteFailures, FS_Subset
    <3>6. Cardinality({i \in taken : FailureKey(i) = e}) <= Cardinality(Keyed(e))
      BY <3>5, FS_Subset
    <3>7. allTaken => {i \in taken : FailureKey(i) = e} = Keyed(e)
      BY <2>2
    <3> HIDE DEF Keyed, allTaken
    <3> QED BY <3>3, <3>4, <3>6, <3>7
  <2>4. ASSUME allTaken, allShown, NEW u \in Users, NEW d \in DOMAIN userUploadHistory(u),
               userUploadHistory(u)[d].failed_count > 0
        PROVE  [sender |-> u, date |-> d] \in keys
    <3> DEFINE e == [sender |-> u, date |-> d]
    <3>1. Cardinality(Keyed(e)) > 0
      BY <2>4, FailedOfDay
    <3>2. Keyed(e) # {}
      BY <3>1, FS_EmptySet
    <3>3. e \in {FailureKey(i) : i \in Failures}
      BY <3>2
    <3> QED BY <2>2, <2>4, <3>3
  <2>5. DOMAIN lines = keys
    BY <2>1
  <2> HIDE DEF allTaken, allShown
  <2> QED BY <2>3, <2>4, <2>5
<1>2. MediaTyped => \A u \in Users : BackfillDays(u, userUploadHistory(u))
  <2> SUFFICES ASSUME MediaTyped, NEW u \in Users, NEW d \in DOMAIN userUploadHistory(u)
               PROVE  userUploadHistory(u)[d].total_media =
                        Cardinality(Of(u, {i \in Recorded : InWindow(media[i].date, backfillWindow(d, d))}))
    BY DEF BackfillDays
  <2> DEFINE mine == Of(u, Recorded)
             day == {i \in mine : DateIn(media[i].date, Offset) = d}
             read == {i \in Recorded : InWindow(media[i].date, backfillWindow(d, d))}
  <2>1. d \in Newest(HistoryDays, DaysOf(u)) /\ d \in {DateIn(media[i].date, Offset) : i \in mine}
    BY DEF userUploadHistory, Newest, DaysOf
  <2>2. \A i \in Recorded : media[i].date \in Int /\ DateIn(media[i].date, Offset) \in Int
    BY DatesOfItems DEF DateIn, DayLength, Offset
  <2>3. d \in Int
    BY <2>1, <2>2 DEF Of
  <2>4. \A i \in Recorded : InWindow(media[i].date, backfillWindow(d, d))
                              <=> DateIn(media[i].date, Offset) = d
    BY <2>2, <2>3, DateHolds DEF InWindow, backfillWindow, Offset
  <2>5. day = Of(u, read)
    BY <2>4 DEF Of
  <2>6. userUploadHistory(u)[d].total_media = Cardinality(day)
    BY <2>1 DEF userUploadHistory
  <2> QED BY <2>5, <2>6
<1> QED BY <1>1, <1>2, MediaStays, PTL
----------------------------------------------------------------------------
(* The sums of the reports *)

\* Two sets without a common element count together what they count apart.
LEMMA DisjointUnion ==
  ASSUME NEW A, IsFiniteSet(A), NEW B, IsFiniteSet(B), A \cap B = {}
  PROVE  Cardinality(A \cup B) = Cardinality(A) + Cardinality(B)
<1>1. Cardinality(A) \in Nat /\ Cardinality(B) \in Nat
  BY FS_CardinalityType
<1>2. Cardinality(A \cup B) = Cardinality(A) + Cardinality(B) - Cardinality(A \cap B)
  BY FS_Union
<1>3. Cardinality(A \cap B) = 0
  BY FS_EmptySet
<1> QED BY <1>1, <1>2, <1>3

\* Taking one key away takes its items away.
LEMMA CountsAdd ==
  ASSUME NEW X, IsFiniteSet(X), NEW key, NEW s, NEW x \in s
  PROVE  Cardinality({i \in X : key[i] \in s}) =
           Cardinality({i \in X : key[i] = x}) + Cardinality({i \in X : key[i] \in s \ {x}})
<1> DEFINE A == {i \in X : key[i] = x}
           B == {i \in X : key[i] \in s \ {x}}
<1>1. IsFiniteSet(A) /\ IsFiniteSet(B) /\ A \cap B = {}
  BY FS_Subset
<1>2. {i \in X : key[i] \in s} = A \cup B
  OBVIOUS
<1> HIDE DEF A, B
<1>3. Cardinality(A \cup B) = Cardinality(A) + Cardinality(B)
  BY <1>1, DisjointUnion
<1> QED BY <1>2, <1>3 DEF A, B

\* The equation of the function by which MapThenSumSet sums v over S: one element is
\* added to the sum of the rest.
SumOver(v, S, f) ==
  [s \in SUBSET S |-> IF s = {} THEN 0 ELSE LET x == CHOOSE x \in s : TRUE IN v[x] + f[s \ {x}]]
\* The items of X whose key is in a subset of S.
CountOver(key, X, S) == [s \in SUBSET S |-> Cardinality({i \in X : key[i] \in s})]

\* A sum of counts, one per key, is the count of the items with those keys: the one
\* function that satisfies the equation.  By induction over the subsets of S, as a
\* smallest subset on which the two differ.
LEMMA SumOfCounts ==
  ASSUME NEW S, IsFiniteSet(S), NEW X, IsFiniteSet(X), NEW key, NEW v,
         \A x \in S : v[x] = Cardinality({i \in X : key[i] = x})
  PROVE  \A f : f = SumOver(v, S, f) <=> f = CountOver(key, X, S)
<1> DEFINE Sum(f) == SumOver(v, S, f)
           count == CountOver(key, X, S)
<1> USE DEF SumOver, CountOver
<1>1. \A s \in SUBSET S : s # {} => 
         LET x == CHOOSE x \in s : TRUE IN x \in s /\ count[s] = v[x] + count[s \ {x}]
  <2> SUFFICES ASSUME NEW s \in SUBSET S, s # {}
               PROVE LET x == CHOOSE x \in s : TRUE IN x \in s /\ count[s] = v[x] + count[s \ {x}]
    OBVIOUS
  <2> DEFINE x == CHOOSE x \in s : TRUE
  <2>1. x \in s
    OBVIOUS
  <2> HIDE DEF x
  <2>2. Cardinality({i \in X : key[i] \in s}) = v[x] + Cardinality({i \in X : key[i] \in s \ {x}})
    <3>1. x \in S
      BY <2>1
    <3>2. v[x] = Cardinality({i \in X : key[i] = x})
      BY <3>1
    <3> QED BY <2>1, <3>2, CountsAdd
  <2>3. s \ {x} \in SUBSET S
    OBVIOUS
  <2> QED BY <2>1, <2>2, <2>3 DEF x
<1>2. count = Sum(count)
  <2>1. count[{}] = 0
    <3>1. {i \in X : key[i] \in {}} = {}
      OBVIOUS
    <3> QED BY <3>1, FS_EmptySet
  <2> QED BY <1>1, <2>1
<1>3. ASSUME NEW f, f = Sum(f) PROVE f = count
  <2> DEFINE B == {s \in SUBSET S : f[s] # count[s]}
  <2>1. SUFFICES ASSUME B # {} PROVE FALSE
    BY <1>3
  <2>2. IsWellFoundedOn(StrictSubsetOrdering(S), SUBSET S)
    BY FS_StrictSubsetOrderingWellFounded, FS_FiniteSubsetsOfFinite
  <2>3. PICK s \in B : \A r \in B : ~ (<<r, s>> \in StrictSubsetOrdering(S))
    BY <2>1, <2>2, WFMin
  <2>4. s # {}
    BY <1>2, <1>3
  <2> DEFINE x == CHOOSE x \in s : TRUE
  <2>5. x \in s /\ count[s] = v[x] + count[s \ {x}]
    BY <1>1, <2>4
  <2>6. f[s] = v[x] + f[s \ {x}]
    BY <1>3, <2>4
  <2>7. s \ {x} \notin B
    BY <2>3, <2>5 DEF StrictSubsetOrdering
  <2> HIDE DEF x, count
  <2> QED BY <2>5, <2>6, <2>7
<1> QED BY <1>2, <1>3


\* The totals of the users of a month are the items of the month sent by them.
LEMMA UploadedOfMonth ==
  ASSUME NEW k
  PROVE  LET found == Uploaded(monthWindowFromParts(k))
         IN  MapThenSumSet(LAMBDA u : monthUsers(k)[u].total, loadActiveUsers) =
               Cardinality({i \in found : media[i].sender \in loadActiveUsers})
<1> DEFINE found == Uploaded(monthWindowFromParts(k))
           S == loadActiveUsers
           v == [u \in S |-> monthUsers(k)[u].total]
           key == [i \in Items |-> media[i].sender]
           Sum(f) == [s \in SUBSET S |-> IF s = {} THEN 0
                                         ELSE LET x == CHOOSE x \in s : TRUE
                                              IN  monthUsers(k)[x].total + f[s \ {x}]]
           sum == CHOOSE f : f = Sum(f)
<1>1. IsFiniteSet(S) /\ S \subseteq Users /\ IsFiniteSet(found) /\ found \subseteq Items
  <2>1. S \subseteq Users /\ found \subseteq Items
    BY DEF loadActiveUsers, Uploaded, Recorded
  <2> QED BY <2>1, TablesAssumption, FS_Subset
<1>2. \A u \in S : monthUsers(k)[u].total = Cardinality({i \in found : key[i] = u})
  <2>1. \A u \in S : monthUsers(k)[u].total = Cardinality(Of(u, found))
    BY <1>1 DEF monthUsers, loadUploadedMediaBuckets
  <2>2. \A u \in S : Of(u, found) = {i \in found : key[i] = u}
    BY <1>1 DEF Of
  <2> QED BY <2>1, <2>2
<1>3. MapThenSumSet(LAMBDA u : monthUsers(k)[u].total, loadActiveUsers) = sum[S]
  BY DEF MapThenSumSet, MapThenFoldSet
<1>4. {i \in found : key[i] \in S} = {i \in found : media[i].sender \in loadActiveUsers}
  BY <1>1
<1> HIDE DEF S, found, key
<1>5. \A f : Sum(f) = SumOver(v, S, f)
  BY DEF SumOver
<1>6. \A u \in S : v[u] = Cardinality({i \in found : key[i] = u})
  BY <1>2
<1> HIDE DEF v, Sum
<1>7. \A f : f = SumOver(v, S, f) <=> f = CountOver(key, found, S)
  BY <1>1, <1>6, SumOfCounts
<1>8. sum = CountOver(key, found, S)
  BY <1>5, <1>7
<1> HIDE DEF sum
<1>9. sum[S] = Cardinality({i \in found : key[i] \in S})
  BY <1>8 DEF CountOver
<1> QED BY <1>3, <1>4, <1>9, Zenon DEF found

(* What the heatmap shows for a month is the sum of what the users of the month have,
   with what others posted: no item is lost or counted twice between the query by
   keys, the query by windows and the grouping by senders. *)
THEOREM MonthsAreComplete == Spec => []MonthsAddUp
<1>1. HeatmapCountsMonths => MonthsAddUp
  <2> SUFFICES ASSUME HeatmapCountsMonths, NEW y \in Years, NEW k \in MonthsOf(y)
               PROVE  monthlyHeatmap(y)[k].total_media =
                        MapThenSumSet(LAMBDA u : monthUsers(k)[u].total, loadActiveUsers)
                          + Cardinality({i \in Uploaded(monthWindowFromParts(k)) :
                                           media[i].sender \notin loadActiveUsers})
    BY Zenon DEF MonthsAddUp
  <2> DEFINE found == Uploaded(monthWindowFromParts(k))
             theirs == {i \in found : media[i].sender \in loadActiveUsers}
             others == {i \in found : media[i].sender \notin loadActiveUsers}
             sum == MapThenSumSet(LAMBDA u : monthUsers(k)[u].total, loadActiveUsers)
  <2>1. monthlyHeatmap(y)[k].total_media = Cardinality(found)
    <3>1. monthlyHeatmap(y)[k] =
            [total_media |-> Cardinality(found),
             active_users |-> Cardinality({media[i].sender : i \in found} \ {NoSender})]
      BY Zenon DEF HeatmapCountsMonths
    <3> QED BY <3>1
  <2>2. sum = Cardinality(theirs)
    BY UploadedOfMonth, Zenon
  <2>3. IsFiniteSet(theirs) /\ IsFiniteSet(others) /\ theirs \cap others = {} /\ found = theirs \cup others
    <3>1. theirs \subseteq Items /\ others \subseteq Items
      BY DEF Uploaded, Recorded
    <3>2. IsFiniteSet(theirs) /\ IsFiniteSet(others)
      BY <3>1, TablesAssumption, FS_Subset
    <3> QED BY <3>2
  <2> HIDE DEF found, theirs, others, sum
  <2>4. Cardinality(found) = Cardinality(theirs) + Cardinality(others)
    BY <2>3, DisjointUnion
  <2>5. monthlyHeatmap(y)[k].total_media = sum + Cardinality(others)
    BY <2>1, <2>2, <2>4
  <2> QED BY <2>5, Zenon DEF sum, others, found
<1> QED BY <1>1, HeatmapMeetsMonths, PTL

\* A user has posted on finitely many days, and its page shows some of them.
LEMMA FiniteDays ==
  ASSUME NEW u
  PROVE  /\ IsFiniteSet(DaysOf(u)) /\ IsFiniteSet(DOMAIN userUploadHistory(u))
         /\ DOMAIN userUploadHistory(u) \subseteq DaysOf(u)
<1> DEFINE mine == Of(u, Recorded)
           days == {DateIn(media[i].date, Offset) : i \in mine}
           f == [i \in mine |-> DateIn(media[i].date, Offset)]
<1>1. IsFiniteSet(mine)
  <2>1. mine \subseteq Items
    BY DEF Of, Recorded
  <2> QED BY <2>1, TablesAssumption, FS_Subset
<1>2. f \in Surjection(mine, days)
  <2>1. f \in [mine -> days]
    OBVIOUS
  <2>2. \A d \in days : \E i \in mine : f[i] = d
    OBVIOUS
  <2> HIDE DEF f, days, mine
  <2> QED BY <2>1, <2>2 DEF Surjection
<1>3. DaysOf(u) = days /\ DOMAIN userUploadHistory(u) \subseteq days
  BY DEF userUploadHistory, Newest, DaysOf
<1> HIDE DEF f, days, mine
<1>4. IsFiniteSet(days)
  BY <1>1, <1>2, FS_Surjection
<1> QED BY <1>3, <1>4, FS_Subset

\* The uploads of some of a user's days are its uploaded items of those dates.
LEMMA UploadedOfDays ==
  ASSUME NEW u, NEW S \in SUBSET DOMAIN userUploadHistory(u)
  PROVE  MapThenSumSet(LAMBDA d : userUploadHistory(u)[d].uploaded_count, S) =
           Cardinality({i \in WithStatus("uploaded", Of(u, Recorded)) : DateIn(media[i].date, Offset) \in S})
<1> DEFINE found == WithStatus("uploaded", Of(u, Recorded))
           v == [d \in S |-> userUploadHistory(u)[d].uploaded_count]
           key == [i \in Items |-> DateIn(media[i].date, Offset)]
           Sum(f) == [s \in SUBSET S |-> IF s = {} THEN 0
                                         ELSE LET x == CHOOSE x \in s : TRUE
                                              IN  userUploadHistory(u)[x].uploaded_count + f[s \ {x}]]
           sum == CHOOSE f : f = Sum(f)
<1>1. IsFiniteSet(S) /\ IsFiniteSet(found) /\ found \subseteq Items
  <2>1. found \subseteq Items
    BY DEF WithStatus, Of, Recorded
  <2>2. IsFiniteSet(found)
    BY <2>1, TablesAssumption, FS_Subset
  <2>3. IsFiniteSet(S)
    BY FiniteDays, FS_Subset
  <2> QED BY <2>1, <2>2, <2>3
<1>2. \A d \in S : userUploadHistory(u)[d].uploaded_count = Cardinality({i \in found : key[i] = d})
  <2> SUFFICES ASSUME NEW d \in S
               PROVE  userUploadHistory(u)[d].uploaded_count = Cardinality({i \in found : key[i] = d})
    OBVIOUS
  <2> DEFINE on == {i \in Of(u, Recorded) : DateIn(media[i].date, Offset) = d}
  <2>1. d \in Newest(HistoryDays, DaysOf(u))
    BY DEF userUploadHistory
  <2>2. userUploadHistory(u)[d].uploaded_count = Cardinality({i \in on : media[i].status = "uploaded"})
    BY <2>1 DEF userUploadHistory
  <2>3. {i \in on : media[i].status = "uploaded"} = {i \in found : key[i] = d}
    BY DEF WithStatus, Of, Recorded
  <2> QED BY <2>2, <2>3
<1>3. MapThenSumSet(LAMBDA d : userUploadHistory(u)[d].uploaded_count, S) = sum[S]
  BY DEF MapThenSumSet, MapThenFoldSet
<1>4. {i \in found : key[i] \in S} = {i \in found : DateIn(media[i].date, Offset) \in S}
  BY <1>1
<1> HIDE DEF found, key
<1>5. \A f : Sum(f) = SumOver(v, S, f)
  BY DEF SumOver
<1>6. \A d \in S : v[d] = Cardinality({i \in found : key[i] = d})
  BY <1>2
<1> HIDE DEF v, Sum
<1>7. \A f : f = SumOver(v, S, f) <=> f = CountOver(key, found, S)
  BY <1>1, <1>6, SumOfCounts
<1>8. sum = CountOver(key, found, S)
  BY <1>5, <1>7
<1> HIDE DEF sum
<1>9. sum[S] = Cardinality({i \in found : key[i] \in S})
  BY <1>8 DEF CountOver
<1> QED BY <1>3, <1>4, <1>9, Zenon DEF found

\* A page that shows a day shows every later one.
LEMMA NewestAreAbove ==
  ASSUME NEW S, IsFiniteSet(S), S \subseteq Int, NEW n \in Nat, NEW d \in Newest(n, S), NEW e \in S, d <= e
  PROVE  e \in Newest(n, S)
<1> DEFINE A == {x \in S : x > e}
           B == {x \in S : x > d}
<1>1. d \in Int /\ e \in Int
  BY DEF Newest
<1>2. A \subseteq B /\ IsFiniteSet(B) /\ IsFiniteSet(A)
  <2>1. \A x \in S : x > e => x > d
    BY <1>1
  <2> QED BY <2>1, FS_Subset
<1>3. Cardinality(B) < n
  BY DEF Newest
<1> HIDE DEF A, B
<1>4. Cardinality(A) <= Cardinality(B) /\ Cardinality(A) \in Nat /\ Cardinality(B) \in Nat
  BY <1>2, FS_Subset, FS_CardinalityType
<1>5. Cardinality(A) < n
  BY <1>3, <1>4
<1> QED BY <1>5 DEF Newest, A

LEMMA DatesAreDays == ASSUME MediaTyped, NEW u PROVE DaysOf(u) \subseteq Int
<1>1. \A i \in Of(u, Recorded) : DateIn(media[i].date, Offset) \in Int
  <2> SUFFICES ASSUME NEW i \in Of(u, Recorded) PROVE DateIn(media[i].date, Offset) \in Int
    OBVIOUS
  <2>1. media[i].date \in Int
    BY DatesOfItems DEF Of
  <2> QED BY <2>1 DEF DateIn, DayLength, Offset
<1> QED BY <1>1 DEF DaysOf

LEMMA FirstIsDay ==
  ASSUME NEW k \in (FirstMonth + 1)..LastMonth
  PROVE  formatAnalyticsDate(monthWindowFromParts(k).start) \in Int
<1> DEFINE start == monthWindowFromParts(k).start
<1>1. k - 1 \in FirstMonth..(LastMonth + 1)
  BY CalendarAssumption
<1>2. MonthStart[k - 1] \in Int
  BY <1>1, CalendarAssumption
<1>3. start \in Int
  <2>1. start = 24 * (MonthStart[k - 1] + 20 - 1) - 7
    BY DEF monthWindowFromParts, DateUTC, DayLength, StartDay, Offset
  <2> HIDE DEF start
  <2> QED BY <1>2, <2>1
<1> HIDE DEF start
<1>4. DateIn(start, Offset) \in Int
  BY <1>3, DateBounds DEF Offset
<1> QED BY <1>4 DEF formatAnalyticsDate, start

\* The days shown as a cycle hold the user's uploaded items of the month, or, if the
\* page ends within the cycle, some of them.
LEMMA DaysOfCycle ==
  ASSUME MediaTyped, NEW u \in loadActiveUsers, NEW y \in Years, NEW k \in MonthsOf(y)
  PROVE  CycleDays(u, userUploadHistory(u), k)
<1> DEFINE window == monthWindowFromParts(k)
           first == formatAnalyticsDate(window.start)
           history == userUploadHistory(u)
           shown == {d \in DOMAIN history : first <= d /\ d <= formatAnalyticsDate(window.end)}
           found == WithStatus("uploaded", Of(u, Recorded))
           dated == {i \in found : DateIn(media[i].date, Offset) \in shown}
           total == Of(u, Uploaded(window))
           sum == MapThenSumSet(LAMBDA d : history[d].uploaded_count, shown)
           whole == DOMAIN history = DaysOf(u) \/ \E d \in DOMAIN history : d <= first
<1>1. k \in (FirstMonth + 1)..LastMonth
  BY YearsAssumption
<1>2. monthUsers(k)[u].total = Cardinality(total)
  BY DEF monthUsers, loadUploadedMediaBuckets, loadActiveUsers
<1>3. sum = Cardinality(dated)
  <2>1. shown \in SUBSET DOMAIN history
    OBVIOUS
  <2> HIDE DEF shown
  <2> QED BY <2>1, UploadedOfDays, Zenon DEF found, dated, sum, history
<1>4. ASSUME NEW i \in Of(u, Recorded)
      PROVE  /\ media[i].date \in Int /\ DateIn(media[i].date, Offset) \in DaysOf(u)
             /\ InWindow(media[i].date, window) <=>
                  /\ first <= DateIn(media[i].date, Offset)
                  /\ DateIn(media[i].date, Offset) <= formatAnalyticsDate(window.end)
  <2>1. i \in Recorded
    BY DEF Of
  <2>2. media[i].date \in Int
    BY <2>1, DatesOfItems
  <2>3. DateIn(media[i].date, Offset) \in DaysOf(u)
    BY DEF DaysOf
  <2> HIDE DEF history, shown, found, dated, total, sum, whole
  <2>4. InWindow(media[i].date, window) <=>
          /\ first <= DateIn(media[i].date, Offset)
          /\ DateIn(media[i].date, Offset) <= formatAnalyticsDate(window.end)
    BY <1>1, <2>2, CycleIsItsDays DEF formatAnalyticsDate
  <2> QED BY <2>2, <2>3, <2>4
<1>5. ASSUME whole, NEW i \in Of(u, Recorded), first <= DateIn(media[i].date, Offset)
      PROVE  DateIn(media[i].date, Offset) \in DOMAIN history
  <2>1. CASE DOMAIN history = DaysOf(u)
    BY <1>4, <2>1
  <2>2. CASE \E d \in DOMAIN history : d <= first
    <3>1. PICK d \in DOMAIN history : d <= first
      BY <2>2
    <3>2. DOMAIN history = Newest(HistoryDays, DaysOf(u)) /\ IsFiniteSet(DaysOf(u))
      BY FiniteDays DEF userUploadHistory
    <3>3. DaysOf(u) \subseteq Int
      BY DatesAreDays, Zenon
    <3>4. d \in DaysOf(u) /\ DateIn(media[i].date, Offset) \in DaysOf(u)
      BY <1>4, <3>1, FiniteDays
    <3>5. first \in Int
      BY <1>1, FirstIsDay, Zenon
    <3> DEFINE e == DateIn(media[i].date, Offset)
    <3>6. d <= e
      <4> HIDE DEF first, e
      <4>1. d \in Int /\ e \in Int /\ first <= e
        BY <1>5, <3>3, <3>4 DEF e
      <4> QED BY <3>1, <3>5, <4>1
    <3>7. HistoryDays \in Nat
      BY TablesAssumption
    <3> HIDE DEF e, first, history
    <3>8. e \in Newest(HistoryDays, DaysOf(u))
      BY <3>1, <3>2, <3>3, <3>4, <3>6, <3>7, NewestAreAbove DEF e
    <3> QED BY <3>2, <3>8 DEF e
  <2> QED BY <1>5, <2>1, <2>2
<1>6. dated \subseteq total /\ IsFiniteSet(total) /\ IsFiniteSet(dated)
  <2>1. dated \subseteq total
    <3> HIDE DEF first, window
    <3> QED BY <1>4 DEF WithStatus, Of, Uploaded
  <2>2. total \subseteq Items
    BY DEF Of, Uploaded, Recorded
  <2>3. IsFiniteSet(total)
    BY <2>2, TablesAssumption, FS_Subset
  <2> QED BY <2>1, <2>3, FS_Subset
<1>7. whole => dated = total
  <2> SUFFICES ASSUME whole, NEW i \in total PROVE i \in dated
    BY <1>6
  <2>1. i \in Of(u, Recorded) /\ i \in found /\ InWindow(media[i].date, window)
    BY DEF WithStatus, Of, Uploaded
  <2> HIDE DEF first, window, history, found, whole
  <2> QED BY <1>4, <1>5, <2>1
<1> HIDE DEF sum, dated, total, whole
<1>8. Cardinality(dated) <= Cardinality(total)
  BY <1>6, FS_Subset
<1>9. sum <= monthUsers(k)[u].total /\ (whole => sum = monthUsers(k)[u].total)
  BY <1>2, <1>3, <1>7, <1>8
<1> QED BY <1>9, Zenon DEF CycleDays, sum, whole, shown, first, window, history

\* What the bot counts for the users are the items of the day sent by them: uploaded,
LEMMA SuccessOfToday ==
  ASSUME NEW d
  PROVE  LET found == WithStatus("uploaded", PostedOn(d))
         IN  MapThenSumSet(LAMBDA u : today(d)[u].success, loadActiveUsers) =
               Cardinality({i \in found : media[i].sender \in loadActiveUsers})
<1> DEFINE found == WithStatus("uploaded", PostedOn(d))
           S == loadActiveUsers
           v == [u \in S |-> today(d)[u].success]
           key == [i \in Items |-> media[i].sender]
           Sum(f) == [s \in SUBSET S |-> IF s = {} THEN 0
                                         ELSE LET x == CHOOSE x \in s : TRUE
                                              IN  today(d)[x].success + f[s \ {x}]]
           sum == CHOOSE f : f = Sum(f)
<1>1. IsFiniteSet(S) /\ S \subseteq Users /\ IsFiniteSet(found) /\ found \subseteq Items
  <2>1. S \subseteq Users /\ found \subseteq Items
    BY DEF loadActiveUsers, WithStatus, PostedOn, Recorded
  <2> QED BY <2>1, TablesAssumption, FS_Subset
<1>2. \A u \in S : today(d)[u].success = Cardinality({i \in found : key[i] = u})
  <2>1. \A u \in S : today(d)[u].success = Cardinality(WithStatus("uploaded", Of(u, PostedOn(d))))
    BY DEF today
  <2>2. \A u \in S : WithStatus("uploaded", Of(u, PostedOn(d))) = {i \in found : key[i] = u}
    BY <1>1 DEF Of, WithStatus
  <2> QED BY <2>1, <2>2
<1>3. MapThenSumSet(LAMBDA u : today(d)[u].success, loadActiveUsers) = sum[S]
  BY DEF MapThenSumSet, MapThenFoldSet
<1>4. {i \in found : key[i] \in S} = {i \in found : media[i].sender \in loadActiveUsers}
  BY <1>1
<1> HIDE DEF S, found, key
<1>5. \A f : Sum(f) = SumOver(v, S, f)
  BY DEF SumOver
<1>6. \A u \in S : v[u] = Cardinality({i \in found : key[i] = u})
  BY <1>2
<1> HIDE DEF v, Sum
<1>7. \A f : f = SumOver(v, S, f) <=> f = CountOver(key, found, S)
  BY <1>1, <1>6, SumOfCounts
<1>8. sum = CountOver(key, found, S)
  BY <1>5, <1>7
<1> HIDE DEF sum
<1>9. sum[S] = Cardinality({i \in found : key[i] \in S})
  BY <1>8 DEF CountOver
<1> QED BY <1>3, <1>4, <1>9, Zenon DEF found

\* and failed.
LEMMA FailedOfToday ==
  ASSUME NEW d
  PROVE  LET found == WithStatus("failed", PostedOn(d))
         IN  MapThenSumSet(LAMBDA u : today(d)[u].failed, loadActiveUsers) =
               Cardinality({i \in found : media[i].sender \in loadActiveUsers})
<1> DEFINE found == WithStatus("failed", PostedOn(d))
           S == loadActiveUsers
           v == [u \in S |-> today(d)[u].failed]
           key == [i \in Items |-> media[i].sender]
           Sum(f) == [s \in SUBSET S |-> IF s = {} THEN 0
                                         ELSE LET x == CHOOSE x \in s : TRUE
                                              IN  today(d)[x].failed + f[s \ {x}]]
           sum == CHOOSE f : f = Sum(f)
<1>1. IsFiniteSet(S) /\ S \subseteq Users /\ IsFiniteSet(found) /\ found \subseteq Items
  <2>1. S \subseteq Users /\ found \subseteq Items
    BY DEF loadActiveUsers, WithStatus, PostedOn, Recorded
  <2> QED BY <2>1, TablesAssumption, FS_Subset
<1>2. \A u \in S : today(d)[u].failed = Cardinality({i \in found : key[i] = u})
  <2>1. \A u \in S : today(d)[u].failed = Cardinality(WithStatus("failed", Of(u, PostedOn(d))))
    BY DEF today
  <2>2. \A u \in S : WithStatus("failed", Of(u, PostedOn(d))) = {i \in found : key[i] = u}
    BY <1>1 DEF Of, WithStatus
  <2> QED BY <2>1, <2>2
<1>3. MapThenSumSet(LAMBDA u : today(d)[u].failed, loadActiveUsers) = sum[S]
  BY DEF MapThenSumSet, MapThenFoldSet
<1>4. {i \in found : key[i] \in S} = {i \in found : media[i].sender \in loadActiveUsers}
  BY <1>1
<1> HIDE DEF S, found, key
<1>5. \A f : Sum(f) = SumOver(v, S, f)
  BY DEF SumOver
<1>6. \A u \in S : v[u] = Cardinality({i \in found : key[i] = u})
  BY <1>2
<1> HIDE DEF v, Sum
<1>7. \A f : f = SumOver(v, S, f) <=> f = CountOver(key, found, S)
  BY <1>1, <1>6, SumOfCounts
<1>8. sum = CountOver(key, found, S)
  BY <1>5, <1>7
<1> HIDE DEF sum
<1>9. sum[S] = Cardinality({i \in found : key[i] \in S})
  BY <1>8 DEF CountOver
<1> QED BY <1>3, <1>4, <1>9, Zenon DEF found

\* An item of the day is of a user the bot counts for or of others, and of one only.
LEMMA DayOfBoth ==
  ASSUME MediaTyped, NEW d, NEW status
  PROVE  LET received == {i \in Recorded : InWindow(media[i].date, DayUTC(d))}
             posted == WithStatus(status, PostedOn(d))
             theirs == {i \in posted : media[i].sender \in loadActiveUsers}
             others == {i \in received : media[i].sender \notin loadActiveUsers}
         IN  Cardinality(WithStatus(status, received)) =
               Cardinality(theirs) + Cardinality(WithStatus(status, others))
<1> DEFINE received == {i \in Recorded : InWindow(media[i].date, DayUTC(d))}
           posted == WithStatus(status, PostedOn(d))
           theirs == {i \in posted : media[i].sender \in loadActiveUsers}
           others == WithStatus(status, {i \in received : media[i].sender \notin loadActiveUsers})
<1>1. IsFiniteSet(theirs) /\ IsFiniteSet(others)
  <2>1. theirs \subseteq Items /\ others \subseteq Items
    BY DEF WithStatus, PostedOn, Recorded
  <2> QED BY <2>1, TablesAssumption, FS_Subset
<1>2. theirs \cap others = {}
  BY DEF WithStatus
<1>3. WithStatus(status, received) = theirs \cup others
  <2>1. NoSender \notin loadActiveUsers
    BY TablesAssumption DEF loadActiveUsers
  <2> QED BY <2>1 DEF WithStatus, PostedOn
<1> HIDE DEF theirs, others
<1>4. Cardinality(theirs \cup others) = Cardinality(theirs) + Cardinality(others)
  BY <1>1, <1>2, DisjointUnion
<1> QED BY <1>3, <1>4 DEF theirs, others

\* Whom the bot names has sent something on the day.
LEMMA NamedAreActive ==
  ASSUME MediaTyped, NEW d
  PROVE  Cardinality(formatSummary(today(d))) <=
           Cardinality({media[i].sender : i \in {i \in Recorded : InWindow(media[i].date, DayUTC(d))}} \ {NoSender})
<1> DEFINE received == {i \in Recorded : InWindow(media[i].date, DayUTC(d))}
           senders == {media[i].sender : i \in received} \ {NoSender}
<1>1. IsFiniteSet(senders)
  <2>1. senders \subseteq Users
    BY DEF MediaTyped, MediaRow, Recorded, Senders
  <2> QED BY <2>1, TablesAssumption, FS_Subset
<1>2. ASSUME NEW u \in formatSummary(today(d)) PROVE u \in senders
  <2> DEFINE mine == Of(u, PostedOn(d))
  <2>1. u \in loadActiveUsers /\ today(d)[u].photo + today(d)[u].video > 0
    BY DEF formatSummary, today
  <2>2. today(d)[u].photo = Cardinality(OfType("photo", mine)) /\ today(d)[u].video = Cardinality(OfType("video", mine))
    BY <2>1 DEF today
  <2>3. mine # {}
    <3> SUFFICES ASSUME mine = {} PROVE FALSE
      OBVIOUS
    <3>1. OfType("photo", mine) = {} /\ OfType("video", mine) = {}
      BY DEF OfType
    <3>2. today(d)[u].photo = 0 /\ today(d)[u].video = 0
      BY <2>2, <3>1, FS_EmptySet
    <3> QED BY <2>1, <3>2
  <2>4. PICK i \in PostedOn(d) : media[i].sender = u
    BY <2>3 DEF Of
  <2> QED BY <2>4 DEF PostedOn
<1>3. formatSummary(today(d)) \subseteq senders
  BY <1>2
<1> HIDE DEF senders
<1>4. Cardinality(formatSummary(today(d))) <= Cardinality(senders)
  BY <1>1, <1>3, FS_Subset
<1> QED BY <1>4 DEF senders

\* The bot and the dashboard report the same day.
LEMMA SummariesAgree ==
  ASSUME MediaTyped
  PROVE  Summaries
<1> DEFINE d == DateIn(now, 0)
           received == {i \in Recorded : InWindow(media[i].date, DayUTC(d))}
           others == {i \in received : media[i].sender \notin loadActiveUsers}
           success == MapThenSumSet(LAMBDA u : today(d)[u].success, loadActiveUsers)
           failed == MapThenSumSet(LAMBDA u : today(d)[u].failed, loadActiveUsers)
           Theirs(status) == {i \in WithStatus(status, PostedOn(d)) : media[i].sender \in loadActiveUsers}
<1>1. success = Cardinality(Theirs("uploaded")) /\ failed = Cardinality(Theirs("failed"))
  BY SuccessOfToday, FailedOfToday, Zenon
<1>2. /\ today_summary(now).total_uploaded = Cardinality(WithStatus("uploaded", received))
      /\ today_summary(now).total_failed = Cardinality(WithStatus("failed", received))
      /\ today_summary(now).active_users = Cardinality({media[i].sender : i \in received} \ {NoSender})
  BY DEF today_summary
<1>3. \A status : Cardinality(WithStatus(status, received)) =
                    Cardinality(Theirs(status)) + Cardinality(WithStatus(status, others))
  BY DayOfBoth, Zenon
<1>4. Cardinality(formatSummary(today(d))) <= today_summary(now).active_users
  BY <1>2, NamedAreActive
<1> HIDE DEF success, failed, Theirs, received
<1>5. today_summary(now).total_uploaded = success + Cardinality(WithStatus("uploaded", others))
  BY <1>1, <1>2, <1>3
<1>6. today_summary(now).total_failed = failed + Cardinality(WithStatus("failed", others))
  BY <1>1, <1>2, <1>3
<1>7. others = {i \in Recorded : InWindow(media[i].date, DayUTC(d)) /\ media[i].sender \notin loadActiveUsers}
  BY DEF received
<1> HIDE DEF others
<1> QED BY <1>4, <1>5, <1>6, <1>7, Zenon DEF Summaries, success, failed, d

(* The dates of the pages are one calendar for every table, year, set of users and limit
   of the queries: the days of a cycle add up to its month if the page reaches back to
   its beginning, and to no more in any case; a backfill reads the day it is started
   from; the failed uploads are those of the user's page, as far as they are read; the
   dashboard's totals of a day are the sums of the bot's counts and of what others
   posted, and the bot names no more users than the dashboard counts. *)
THEOREM DaysAreConsistent == Spec => []DaysAgree
<1>1. MediaTyped /\ FailureDays /\ (\A u \in Users : BackfillDays(u, userUploadHistory(u))) => DaysAgree
  <2> SUFFICES ASSUME MediaTyped, FailureDays, \A u \in Users : BackfillDays(u, userUploadHistory(u))
               PROVE  DaysAgree
    OBVIOUS
  <2>1. ASSUME NEW u \in loadActiveUsers
        PROVE  /\ \A y \in Years : \A k \in MonthsOf(y) : CycleDays(u, userUploadHistory(u), k)
               /\ BackfillDays(u, userUploadHistory(u))
    <3>1. u \in Users
      BY DEF loadActiveUsers
    <3> QED BY <3>1, DaysOfCycle, Zenon
  <2> QED BY <2>1, SummariesAgree, Zenon DEF DaysAgree
<1> QED BY <1>1, DaysAreOneCalendar, MediaStays, PTL
----------------------------------------------------------------------------
(* The tab *)

Refs == {"shown", "selected", "loading", "saving", "resolving", "importing", "running",
         "open", "editing", "form"}

\* A form saves into the row it shows.
Fits(form, editing) == form.of = IF editing = None THEN NewRow ELSE editing

\* The refs of a mounted page called name.
ViewOK(v, name) ==
  /\ DOMAIN v = Refs /\ DOMAIN v.form = {"of", "account"}
  /\ v.selected \subseteq v.shown
  /\ name \notin {"month", "messages"} => v.selected = {}
  /\ name \in {"users", "schedules"} => v.shown \subseteq Row /\ (v.open => Fits(v.form, v.editing))
  /\ v.form.account = v.form.of

CallFields == {"n", "page", "mount", "kind", "arg", "got"}
ListKinds == {"load", "afterSave", "afterRun", "afterImport"}

\* A call of whatever instance.
CallOK(c, p) ==
  /\ DOMAIN c = CallFields
  /\ c.mount \in Nat /\ c.mount <= p.mount
  /\ c.kind = "save" => Fits(c.arg.form, c.arg.editing) /\ c.arg.form.account = c.arg.form.of
  /\ c.page \in {"users", "schedules"} /\ c.kind \in ListKinds /\ c.got \notin {Waiting, Failed}
       => c.got \subseteq Row

\* A call of the mounted instance finds the refs as its handler left them.
AliveOK(c, p, v) ==
  c.mount = p.mount =>
    /\ c.page = p.name
    /\ c.page = "messages" /\ c.kind = "load" => v.shown = {}
    /\ c.page = "users" /\ c.kind \in {"save", "afterSave"} => v.saving /\ ~v.resolving
    /\ c.page = "users" /\ c.kind = "resolve" =>
         /\ v.resolving /\ ~v.saving /\ v.open
         /\ c.arg = v.form.of /\ c.got \in {Waiting, Failed, c.arg}

\* Of these there is one at a time.
Sole(c, p) ==
  /\ c.mount = p.mount
  /\ \/ c.page = "messages" /\ c.kind = "load"
     \/ c.page = "users" /\ c.kind \in {"save", "afterSave", "resolve"}

TabOK(p, v, cs) ==
  /\ DOMAIN p = {"name", "arg", "mount"} /\ p.mount \in Nat
  /\ ViewOK(v, p.name)
  /\ \A c \in cs : CallOK(c, p) /\ AliveOK(c, p, v)
  /\ \A c, d \in cs : Sole(c, p) /\ Sole(d, p) => c = d

RowsOK ==
  /\ DOMAIN rows = Row
  /\ \A k \in Row : rows[k] # None => rows[k].of = k /\ rows[k].account = rows[k].of

TabInv == TabOK(page, view, calls)

\* A page that has just been mounted.
LEMMA MountedOK ==
  ASSUME NEW p, NEW v, NEW cs, TabOK(p, v, cs),
         NEW q, DOMAIN q = {"name", "arg", "mount"}, q.mount = p.mount + 1,
         NEW n, NEW a
  PROVE  /\ TabOK(q, Mounted(q), cs)
         /\ TabOK(q, Mounted(q), cs \cup {NewCall(n, q, "load", a)})
<1> DEFINE k == NewCall(n, q, "load", a)
<1>1. p.mount \in Nat /\ q.mount \in Nat /\ p.mount < q.mount
  BY DEF TabOK
<1>2. ViewOK(Mounted(q), q.name)
  BY DEF ViewOK, Mounted, Blank, Refs
<1>3. \A c \in cs : CallOK(c, q) /\ c.mount # q.mount
  BY <1>1 DEF TabOK, CallOK
<1>4. CallOK(k, q) /\ AliveOK(k, q, Mounted(q))
  BY <1>1 DEF CallOK, AliveOK, NewCall, CallFields, Mounted
<1> HIDE DEF k
<1> QED BY <1>1, <1>2, <1>3, <1>4 DEF TabOK, AliveOK, Sole, k

\* The refs change under the calls.
LEMMA ViewChanged ==
  ASSUME NEW p, NEW v, NEW cs, TabOK(p, v, cs), NEW w, ViewOK(w, p.name),
         \A d \in cs : AliveOK(d, p, w)
  PROVE  TabOK(p, w, cs)
BY DEF TabOK

\* A handler starts a request.
LEMMA Requested ==
  ASSUME NEW p, NEW v, NEW cs, TabOK(p, v, cs), NEW w, ViewOK(w, p.name),
         \A d \in cs : AliveOK(d, p, w),
         NEW n, NEW kind, NEW a,
         kind = "save" => Fits(a.form, a.editing) /\ a.form.account = a.form.of,
         AliveOK(NewCall(n, p, kind, a), p, w),
         Sole(NewCall(n, p, kind, a), p) => \A d \in cs : ~Sole(d, p)
  PROVE  TabOK(p, w, cs \cup {NewCall(n, p, kind, a)})
<1> DEFINE k == NewCall(n, p, kind, a)
<1>1. CallOK(k, p)
  BY DEF CallOK, NewCall, CallFields, TabOK
<1> HIDE DEF k
<1> QED BY <1>1 DEF TabOK, k

\* An answer is handled: the other calls find the refs as they need them.
LEMMA Resumed ==
  ASSUME NEW p, NEW v, NEW cs, TabOK(p, v, cs), NEW c \in cs, NEW w,
         c.mount = p.mount => ViewOK(w, p.name) /\ \A d \in cs \ {c} : AliveOK(d, p, w)
  PROVE  TabOK(p, IF c.mount = p.mount THEN w ELSE v, cs \ {c})
BY DEF TabOK

\* An answer is handled by going on to another request.
LEMMA Continued ==
  ASSUME NEW p, NEW v, NEW cs, TabOK(p, v, cs), NEW c \in cs, NEW w,
         c.mount = p.mount => ViewOK(w, p.name) /\ \A d \in cs \ {c} : AliveOK(d, p, w),
         NEW kind, kind # "save", kind # "load", kind # "resolve", NEW a,
         c.mount = p.mount =>
           AliveOK(NewCall(c.n, [name |-> c.page, mount |-> c.mount], kind, a), p, w),
         c.mount = p.mount /\ c.page = "users" /\ kind = "afterSave" =>
           \A d \in cs \ {c} : ~Sole(d, p)
  PROVE  TabOK(p, IF c.mount = p.mount THEN w ELSE v,
               (cs \ {c}) \cup {NewCall(c.n, [name |-> c.page, mount |-> c.mount], kind, a)})
<1> DEFINE k == NewCall(c.n, [name |-> c.page, mount |-> c.mount], kind, a)
<1>1. /\ k.mount = c.mount /\ k.page = c.page /\ k.kind = kind /\ k.got = Waiting
      /\ DOMAIN k = CallFields
  BY DEF NewCall, CallFields
<1>2. CallOK(c, p)
  BY DEF TabOK
<1>3. CallOK(k, p)
  BY <1>1, <1>2 DEF CallOK
<1>4. AliveOK(k, p, IF c.mount = p.mount THEN w ELSE v)
  BY <1>1 DEF AliveOK
<1>5. Sole(k, p) => \A d \in cs \ {c} : ~Sole(d, p)
  BY <1>1 DEF Sole
<1> HIDE DEF k
<1> QED BY <1>3, <1>4, <1>5, Resumed DEF TabOK, k

\* A call is answered.
LEMMA Responded ==
  ASSUME NEW p, NEW v, NEW cs, TabOK(p, v, cs), NEW c \in cs, NEW got,
         c.page \in {"users", "schedules"} /\ c.kind \in ListKinds /\ got # Failed
           => got \subseteq Row,
         c.kind = "resolve" => got \in {Failed, c.arg}
  PROVE  TabOK(p, v, (cs \ {c}) \cup {[c EXCEPT !.got = got]})
<1> DEFINE k == [c EXCEPT !.got = got]
<1>1. CallOK(c, p) /\ AliveOK(c, p, v)
  BY DEF TabOK
<1>2. /\ DOMAIN k = CallFields /\ k.mount = c.mount /\ k.page = c.page /\ k.kind = c.kind
      /\ k.arg = c.arg /\ k.got = got
  BY <1>1 DEF CallOK, CallFields
<1> HIDE DEF k
<1>3. CallOK(k, p) /\ AliveOK(k, p, v) /\ (Sole(k, p) => Sole(c, p))
  BY <1>1, <1>2 DEF CallOK, AliveOK, Sole
<1> QED BY <1>3 DEF TabOK, k

\* Refs that no call depends on may change.
LEMMA Untouched ==
  ASSUME NEW p, NEW v, NEW cs, TabOK(p, v, cs), NEW w,
         w.saving = v.saving, w.resolving = v.resolving, w.open = v.open, w.form = v.form,
         p.name # "messages" \/ w.shown \subseteq v.shown
  PROVE  \A d \in cs : AliveOK(d, p, w)
BY DEF TabOK, AliveOK

\* On another page than the users' no call depends on the form and the flags.
LEMMA UntouchedElsewhere ==
  ASSUME NEW p, NEW v, NEW cs, TabOK(p, v, cs), NEW w, p.name # "users",
         p.name # "messages" \/ w.shown \subseteq v.shown
  PROVE  \A d \in cs : AliveOK(d, p, w)
BY DEF TabOK, AliveOK

\* When the form of the users' page is closed, or is neither saving nor resolving,
\* no call is about it.
LEMMA FormFree ==
  ASSUME NEW p, NEW v, NEW cs, TabOK(p, v, cs), p.name = "users",
         NEW w, ~v.saving \/ w.saving, ~v.resolving, ~w.resolving
  PROVE  \A d \in cs : AliveOK(d, p, w) /\ (~v.saving => ~Sole(d, p))
BY DEF TabOK, AliveOK, Sole

\* The mounted page is a page, its refs are refs.
LEMMA Mountedness ==
  ASSUME TabInv
  PROVE  /\ ViewOK(view, page.name) /\ page.mount \in Nat
         /\ TabOK(page, view, calls)
BY DEF TabInv, TabOK

\* The handlers without an await.
LEMMA SelectionKeeps ==
  ASSUME TabInv, selectUsers \/ selectTargets
  PROVE  TabInv'
<1>1. PICK ids \in SUBSET view.shown : Do([view EXCEPT !.selected = ids])
  BY DEF selectUsers, selectTargets, Select
<1> DEFINE w == [view EXCEPT !.selected = ids]
<1>2. page.name \in {"month", "messages"}
  BY DEF selectUsers, selectTargets
<1>3. ViewOK(view, page.name) /\ TabOK(page, view, calls)
  BY Mountedness
<1>4. /\ DOMAIN w = DOMAIN view /\ w.selected = ids /\ w.shown = view.shown /\ w.form = view.form
      /\ w.saving = view.saving /\ w.resolving = view.resolving /\ w.open = view.open
  BY <1>3 DEF ViewOK, Refs
<1> HIDE DEF w
<1>5. ViewOK(w, page.name)
  BY <1>2, <1>3, <1>4 DEF ViewOK
<1>6. TabOK(page, w, calls)
  BY <1>3, <1>4, <1>5, Untouched, ViewChanged
<1> QED BY <1>1, <1>6 DEF TabInv, Do, w

LEMMA DialogKeeps ==
  ASSUME TabInv, openBackfillModal \/ closeBackfillModal \/ closeSchedule
  PROVE  TabInv'
<1>1. ViewOK(view, page.name) /\ TabOK(page, view, calls)
  BY Mountedness
<1>2. page.name \in {"user", "schedules"}
  BY DEF openBackfillModal, closeBackfillModal, closeSchedule
<1>3. PICK w : /\ Do(w) /\ DOMAIN w = DOMAIN view /\ DOMAIN w.form = {"of", "account"}
               /\ w.selected = view.selected /\ w.shown = view.shown
               /\ page.name = "schedules" => ~w.open
               /\ w.form.account = w.form.of
  <2>1. CASE openBackfillModal
    <3>1. PICK u : Do([view EXCEPT !.open = TRUE, !.form = FieldsOf(u)])
      BY <2>1 DEF openBackfillModal
    <3> WITNESS [view EXCEPT !.open = TRUE, !.form = FieldsOf(u)]
    <3> QED BY <1>1, <2>1, <3>1 DEF ViewOK, Refs, FieldsOf, openBackfillModal
  <2>2. CASE closeBackfillModal \/ closeSchedule
    <3> WITNESS [view EXCEPT !.open = FALSE]
    <3> QED BY <1>1, <2>2 DEF ViewOK, Refs, closeBackfillModal, closeSchedule
  <2> QED BY <2>1, <2>2
<1>4. ViewOK(w, page.name)
  BY <1>1, <1>2, <1>3 DEF ViewOK
<1>5. TabOK(page, w, calls)
  BY <1>1, <1>2, <1>3, <1>4, UntouchedElsewhere, ViewChanged
<1> QED BY <1>3, <1>5 DEF TabInv, Do

\* Opening a form fills it with its row.
LEMMA OpenFormKeeps ==
  ASSUME TabInv, openSchedule \/ openUser
  PROVE  TabInv'
<1>1. ViewOK(view, page.name) /\ TabOK(page, view, calls)
  BY Mountedness
<1>2. page.name \in {"schedules", "users"} /\ ~view.open
  BY DEF openSchedule, openUser, OpenForm
<1>3. PICK w : /\ Do(w) /\ DOMAIN w = DOMAIN view /\ DOMAIN w.form = {"of", "account"}
               /\ w.selected = view.selected /\ w.shown = view.shown
               /\ w.saving = view.saving /\ w.resolving = view.resolving
               /\ Fits(w.form, w.editing) /\ w.form.account = w.form.of
  <2>1. CASE Do(startCreate(view))
    <3> WITNESS startCreate(view)
    <3> QED BY <1>1, <2>1 DEF ViewOK, Refs, startCreate, Blank, Fits
  <2>2. CASE \E k \in view.shown : Do(editRow(view, k))
    <3>1. PICK k \in view.shown : Do(editRow(view, k))
      BY <2>2
    <3>2. k # None
      BY <1>1, <1>2, ConsoleAssumption DEF ViewOK
    <3> WITNESS editRow(view, k)
    <3> QED BY <1>1, <3>1, <3>2 DEF ViewOK, Refs, editRow, FieldsOf, Fits
  <2> QED BY <2>1, <2>2 DEF openSchedule, openUser, OpenForm
<1>4. ViewOK(w, page.name)
  BY <1>1, <1>2, <1>3 DEF ViewOK
<1>5. \A d \in calls : AliveOK(d, page, w)
  BY <1>1, <1>2, <1>3 DEF TabOK, AliveOK
<1>6. TabOK(page, w, calls)
  BY <1>1, <1>4, <1>5, ViewChanged
<1> QED BY <1>3, <1>6 DEF TabInv, Do

LEMMA CloseUserKeeps ==
  ASSUME TabInv, closeUser
  PROVE  TabInv'
<1> DEFINE w == [view EXCEPT !.open = FALSE]
<1>1. ViewOK(view, page.name) /\ TabOK(page, view, calls)
  BY Mountedness
<1>2. page.name = "users" /\ ~view.resolving /\ Do(w)
  BY DEF closeUser
<1>3. /\ DOMAIN w = DOMAIN view /\ w.selected = view.selected /\ w.shown = view.shown
      /\ w.form = view.form /\ ~w.open /\ w.saving = view.saving /\ w.resolving = view.resolving
  BY <1>1 DEF ViewOK, Refs
<1> HIDE DEF w
<1>4. ViewOK(w, page.name)
  BY <1>1, <1>2, <1>3 DEF ViewOK
<1>5. TabOK(page, w, calls)
  BY <1>1, <1>2, <1>3, <1>4, FormFree, ViewChanged
<1> QED BY <1>2, <1>5 DEF TabInv, Do

\* A page is left for another one.
LEMMA MountKeeps ==
  ASSUME TabInv, logout \/ Visit \/ sendSelectedToMessages
  PROVE  TabInv'
<1>1. PICK q : Mount(q) /\ DOMAIN q = {"name", "arg", "mount"} /\ q.mount = page.mount + 1
  <2>1. \A route : /\ DOMAIN PageOf(route, page.mount + 1) = {"name", "arg", "mount"}
                   /\ PageOf(route, page.mount + 1).mount = page.mount + 1
    BY DEF PageOf
  <2>2. CASE logout
    BY <2>2 DEF logout, LoginPage
  <2>3. CASE Visit \/ sendSelectedToMessages
    BY <2>1, <2>3, Zenon DEF Visit, sendSelectedToMessages
  <2> QED BY <2>2, <2>3
<1>2. page' = q /\ view' = Mounted(q)
  BY <1>1 DEF Mount
<1>3. calls' = calls \/ calls' = calls \cup {NewCall(made + 1, q, "load", q.arg)}
  BY <1>1 DEF Mount, Request
<1>4. TabOK(q, Mounted(q), calls')
  <2>1. TabOK(q, Mounted(q), calls)
    BY <1>1, MountedOK DEF TabInv
  <2>2. TabOK(q, Mounted(q), calls \cup {NewCall(made + 1, q, "load", q.arg)})
    BY <1>1, MountedOK DEF TabInv
  <2> QED BY <1>3, <2>1, <2>2
<1> QED BY <1>2, <1>4 DEF TabInv

\* An answer is taken out of the calls.
LEMMA Dropped ==
  ASSUME NEW p, NEW v, NEW cs, TabOK(p, v, cs), NEW c
  PROVE  TabOK(p, v, cs \ {c})
BY DEF TabOK

LEMMA LoginKeeps ==
  ASSUME TabInv, login \/ LoggedIn
  PROVE  TabInv'
<1>1. ViewOK(view, page.name) /\ TabOK(page, view, calls) /\ page.mount \in Nat
  BY Mountedness
<1> DEFINE Flagged(b) == [view EXCEPT !.saving = b]
<1>2. page.name = "login" => \A b : ViewOK(Flagged(b), page.name) /\ \A d \in calls : AliveOK(d, page, Flagged(b))
  <2> SUFFICES ASSUME page.name = "login", NEW b
               PROVE  ViewOK(Flagged(b), page.name) /\ \A d \in calls : AliveOK(d, page, Flagged(b))
    OBVIOUS
  <2>1. /\ DOMAIN Flagged(b) = DOMAIN view /\ Flagged(b).selected = view.selected
        /\ Flagged(b).shown = view.shown /\ Flagged(b).form = view.form
    BY <1>1 DEF ViewOK, Refs
  <2> HIDE DEF Flagged
  <2> QED BY <1>1, <2>1, UntouchedElsewhere DEF ViewOK
<1>3. CASE login
  <2>1. /\ page.name = "login" /\ page' = page /\ view' = Flagged(TRUE)
        /\ calls' = calls \cup {NewCall(made + 1, page, "login", None)}
    BY <1>3 DEF login, Request
  <2>2. /\ AliveOK(NewCall(made + 1, page, "login", None), page, Flagged(TRUE))
        /\ ~Sole(NewCall(made + 1, page, "login", None), page)
    BY <2>1 DEF AliveOK, Sole, NewCall
  <2> HIDE DEF Flagged
  <2>3. TabOK(page, Flagged(TRUE), calls \cup {NewCall(made + 1, page, "login", None)})
    BY <1>1, <1>2, <2>1, <2>2, Requested
  <2> QED BY <2>1, <2>3 DEF TabInv
<1>4. CASE LoggedIn
  <2>1. PICK c \in calls :
          /\ c.page = "login"
          /\ \/ Resume(c, Flagged(FALSE))
             \/ LET q == [name |-> "dashboard", arg |-> None, mount |-> page.mount + 1]
                IN  /\ page' = q /\ view' = Mounted(q)
                    /\ calls' = (calls \ {c}) \cup {NewCall(c.n, q, "load", None)}
    BY <1>4 DEF LoggedIn, Answered
  <2>2. TabOK(page, view, calls \ {c})
    BY <1>1, Dropped
  <2>3. CASE Resume(c, Flagged(FALSE))
    <3>1. c.mount = page.mount => page.name = "login"
      BY <1>1, <2>1 DEF TabOK, AliveOK
    <3> HIDE DEF Flagged
    <3>2. TabOK(page, IF c.mount = page.mount THEN Flagged(FALSE) ELSE view, calls \ {c})
      BY <1>1, <1>2, <3>1, Resumed
    <3> QED BY <2>3, <3>2 DEF TabInv, Resume, Alive
  <2>4. CASE LET q == [name |-> "dashboard", arg |-> None, mount |-> page.mount + 1]
             IN  /\ page' = q /\ view' = Mounted(q)
                 /\ calls' = (calls \ {c}) \cup {NewCall(c.n, q, "load", None)}
    <3> DEFINE q == [name |-> "dashboard", arg |-> None, mount |-> page.mount + 1]
    <3>1. DOMAIN q = {"name", "arg", "mount"} /\ q.mount = page.mount + 1
      OBVIOUS
    <3> HIDE DEF q
    <3>2. TabOK(q, Mounted(q), (calls \ {c}) \cup {NewCall(c.n, q, "load", None)})
      BY <2>2, <3>1, MountedOK
    <3> QED BY <2>4, <3>2 DEF TabInv, q
  <2> QED BY <2>1, <2>3, <2>4
<1> QED BY <1>3, <1>4

\* The same page for another parameter.
LEMMA Renamed ==
  ASSUME NEW p, NEW v, NEW cs, TabOK(p, v, cs), NEW a
  PROVE  TabOK([p EXCEPT !.arg = a], v, cs)
<1> DEFINE q == [p EXCEPT !.arg = a]
<1>1. DOMAIN q = {"name", "arg", "mount"} /\ q.name = p.name /\ q.mount = p.mount
  BY DEF TabOK
<1> HIDE DEF q
<1>2. \A c \in cs : CallOK(c, q) /\ AliveOK(c, q, v)
  BY <1>1 DEF TabOK, CallOK, AliveOK
<1> QED BY <1>1, <1>2 DEF TabOK, Sole, q

\* A request that leaves the form and the flags of the users' page alone.
LEMMA QuietRequest ==
  ASSUME NEW p, NEW v, NEW cs, TabOK(p, v, cs), NEW w,
         DOMAIN w = DOMAIN v, w.selected = {} \/ w.selected = v.selected,
         (w.selected = {} /\ w.shown = {}) \/ w.shown = v.shown,
         w.form = v.form, w.editing = v.editing, w.open = v.open \/ p.name = "user",
         p.name # "users" \/ (w.saving = v.saving /\ w.resolving = v.resolving),
         NEW kind, kind \notin {"save", "afterSave", "resolve"},
         kind # "load" \/ p.name # "messages",
         NEW n, NEW a
  PROVE  TabOK(p, w, cs \cup {NewCall(n, p, kind, a)})
<1>1. ViewOK(w, p.name)
  BY DEF TabOK, ViewOK
<1>2. \A d \in cs : AliveOK(d, p, w)
  BY Untouched, UntouchedElsewhere DEF TabOK
<1>3. /\ AliveOK(NewCall(n, p, kind, a), p, w)
      /\ ~Sole(NewCall(n, p, kind, a), p)
  BY DEF AliveOK, Sole, NewCall
<1> QED BY <1>1, <1>2, <1>3, Requested

LEMMA RewatchKeeps ==
  ASSUME TabInv, watchMonth \/ watchUser \/ watchHistory
  PROVE  TabInv'
<1>1. ViewOK(view, page.name) /\ TabOK(page, view, calls)
  BY Mountedness
<1>2. PICK v : /\ \E name \in {"month", "user", "history"} : Rewatch(name, v)
               /\ DOMAIN v = DOMAIN view /\ (v.selected = {} \/ v.selected = view.selected)
               /\ v.form = view.form /\ v.editing = view.editing
               /\ v.open = view.open \/ page.name = "user"
               /\ (v.selected = {} /\ v.shown = {}) \/ v.shown = view.shown
               /\ DOMAIN v = Refs
  <2>1. CASE watchMonth
    <3> WITNESS [view EXCEPT !.selected = {}]
    <3> QED BY <1>1, <2>1 DEF ViewOK, Refs, watchMonth
  <2>2. CASE watchUser
    <3> WITNESS [view EXCEPT !.shown = {}, !.open = FALSE]
    <3> QED BY <1>1, <2>2 DEF ViewOK, Refs, watchUser, Rewatch
  <2>3. CASE watchHistory
    <3> WITNESS [view EXCEPT !.shown = {}]
    <3> QED BY <1>1, <2>3 DEF ViewOK, Refs, watchHistory, Rewatch
  <2> QED BY <2>1, <2>2, <2>3
<1> DEFINE w == [v EXCEPT !.loading = TRUE]
<1>3. /\ DOMAIN w = DOMAIN v /\ w.selected = v.selected /\ w.shown = v.shown /\ w.form = v.form
      /\ w.open = v.open /\ w.editing = v.editing
  BY <1>2 DEF Refs
<1>4. PICK a : /\ page' = [page EXCEPT !.arg = a] /\ view' = w
               /\ calls' = calls \cup {NewCall(made + 1, page, "load", a)}
               /\ page.name \in {"month", "user", "history"}
  BY <1>2 DEF Rewatch, Request
<1> HIDE DEF w
<1>5. TabOK(page, w, calls \cup {NewCall(made + 1, page, "load", a)})
  BY <1>1, <1>2, <1>3, <1>4, QuietRequest DEF ViewOK
<1> QED BY <1>4, <1>5, Renamed DEF TabInv

\* The requests that leave the form as it is.
LEMMA RequestKeeps ==
  ASSUME TabInv,
         reload \/ changeSort \/ changeFilter \/ submit \/ submitBackfill \/ submitUserBackfill
           \/ saveSchedule \/ runNow \/ importCsv
  PROVE  TabInv'
<1>1. ViewOK(view, page.name) /\ TabOK(page, view, calls)
  BY Mountedness
<1>2. CASE reload \/ changeSort \/ changeFilter
  <2> DEFINE w == [view EXCEPT !.loading = TRUE]
  <2>1. /\ page.name # "messages" /\ page' = page /\ view' = w
        /\ calls' = calls \cup {NewCall(made + 1, page, "load", page.arg)}
    BY <1>2 DEF reload, changeSort, changeFilter, Again, Request
  <2>2. /\ DOMAIN w = DOMAIN view /\ w.selected = view.selected /\ w.shown = view.shown
        /\ w.form = view.form /\ w.open = view.open /\ w.editing = view.editing
        /\ w.saving = view.saving /\ w.resolving = view.resolving
    BY <1>1 DEF ViewOK, Refs
  <2> HIDE DEF w
  <2>3. TabOK(page, w, calls \cup {NewCall(made + 1, page, "load", page.arg)})
    BY <1>1, <2>1, <2>2, QuietRequest
  <2> QED BY <2>1, <2>3 DEF TabInv
<1>3. CASE submit \/ submitBackfill \/ submitUserBackfill
  <2> DEFINE w == [view EXCEPT !.saving = TRUE]
  <2>1. /\ page.name # "users" /\ page' = page /\ view' = w
        /\ calls' = calls \cup {NewCall(made + 1, page, "submit", None)}
    BY <1>3 DEF submit, submitBackfill, submitUserBackfill, Backfill, Request
  <2>2. /\ DOMAIN w = DOMAIN view /\ w.selected = view.selected /\ w.shown = view.shown
        /\ w.form = view.form /\ w.open = view.open /\ w.editing = view.editing
    BY <1>1 DEF ViewOK, Refs
  <2> HIDE DEF w
  <2>3. TabOK(page, w, calls \cup {NewCall(made + 1, page, "submit", None)})
    BY <1>1, <2>1, <2>2, QuietRequest
  <2> QED BY <2>1, <2>3 DEF TabInv
<1>4. CASE runNow
  <2>1. PICK k : /\ page.name = "schedules" /\ page' = page
                 /\ view' = [view EXCEPT !.running = k]
                 /\ calls' = calls \cup {NewCall(made + 1, page, "run", k)}
    BY <1>4 DEF runNow, Request
  <2> DEFINE w == [view EXCEPT !.running = k]
  <2>2. /\ DOMAIN w = DOMAIN view /\ w.selected = view.selected /\ w.shown = view.shown
        /\ w.form = view.form /\ w.open = view.open /\ w.editing = view.editing
    BY <1>1 DEF ViewOK, Refs
  <2>3. view' = w
    BY <2>1
  <2> HIDE DEF w
  <2>4. TabOK(page, w, calls \cup {NewCall(made + 1, page, "run", k)})
    BY <1>1, <2>1, <2>2, QuietRequest
  <2> QED BY <2>1, <2>3, <2>4 DEF TabInv
<1>5. CASE importCsv
  <2>1. PICK a : /\ page' = page /\ view' = [view EXCEPT !.importing = TRUE]
                 /\ page.name = "users"
                 /\ calls' = calls \cup {NewCall(made + 1, page, "import", a)}
    BY <1>5, Zenon DEF importCsv, Request
  <2> DEFINE w == [view EXCEPT !.importing = TRUE]
  <2>2. /\ DOMAIN w = DOMAIN view /\ w.selected = view.selected /\ w.shown = view.shown
        /\ w.form = view.form /\ w.open = view.open /\ w.editing = view.editing
        /\ w.saving = view.saving /\ w.resolving = view.resolving
    BY <1>1 DEF ViewOK, Refs
  <2>3. view' = w
    BY <2>1
  <2> HIDE DEF w
  <2>4. TabOK(page, w, calls \cup {NewCall(made + 1, page, "import", a)})
    BY <1>1, <2>1, <2>2, QuietRequest
  <2> QED BY <2>1, <2>3, <2>4 DEF TabInv
<1>6. CASE saveSchedule
  <2> DEFINE w == [view EXCEPT !.saving = TRUE]
             a == [editing |-> view.editing, form |-> view.form]
  <2>1. /\ page.name = "schedules" /\ view.open /\ page' = page /\ view' = w
        /\ calls' = calls \cup {NewCall(made + 1, page, "save", a)}
    BY <1>6 DEF saveSchedule, Save, Request
  <2>2. /\ DOMAIN w = DOMAIN view /\ w.selected = view.selected /\ w.shown = view.shown
        /\ w.form = view.form /\ w.open = view.open /\ w.editing = view.editing
    BY <1>1 DEF ViewOK, Refs
  <2>3. Fits(a.form, a.editing) /\ a.form.account = a.form.of
    BY <1>1, <2>1 DEF ViewOK
  <2> HIDE DEF w, a
  <2>4. ViewOK(w, page.name) /\ \A d \in calls : AliveOK(d, page, w)
    BY <1>1, <2>1, <2>2, UntouchedElsewhere DEF ViewOK
  <2>5. /\ AliveOK(NewCall(made + 1, page, "save", a), page, w)
        /\ ~Sole(NewCall(made + 1, page, "save", a), page)
    BY <2>1 DEF AliveOK, Sole, NewCall
  <2>6. TabOK(page, w, calls \cup {NewCall(made + 1, page, "save", a)})
    BY <1>1, <2>3, <2>4, <2>5, Requested
  <2> QED BY <2>1, <2>6 DEF TabInv
<1> QED BY <1>2, <1>3, <1>4, <1>5, <1>6

\* A save or the resolution of a username has the form of the users' page to itself.
LEMMA FormRequestKeeps ==
  ASSUME TabInv, saveUser \/ resolveUsername
  PROVE  TabInv'
<1>1. ViewOK(view, page.name) /\ TabOK(page, view, calls)
  BY Mountedness
<1>2. page.name = "users" /\ view.open /\ ~view.saving /\ ~view.resolving /\ page' = page
  BY DEF saveUser, Save, resolveUsername, MayResolve
<1>3. \A d \in calls : ~Sole(d, page)
  BY <1>1, <1>2, FormFree
<1>4. PICK w, kind, a :
        /\ view' = w /\ calls' = calls \cup {NewCall(made + 1, page, kind, a)}
        /\ DOMAIN w = DOMAIN view /\ w.selected = view.selected /\ w.shown = view.shown
        /\ w.form = view.form /\ w.open = view.open /\ w.editing = view.editing
        /\ \/ kind = "save" /\ Fits(a.form, a.editing) /\ a.form.account = a.form.of
              /\ w.saving /\ ~w.resolving
           \/ kind = "resolve" /\ a = w.form.of /\ w.resolving /\ ~w.saving
  <2>1. CASE saveUser
    <3> WITNESS [view EXCEPT !.saving = TRUE], "save", [editing |-> view.editing, form |-> view.form]
    <3>1. view.form.account = view.form.of /\ Fits(view.form, view.editing)
      BY <1>1, <1>2 DEF ViewOK
    <3> QED BY <1>1, <1>2, <2>1, <3>1 DEF ViewOK, Refs, saveUser, Save, Request
  <2>2. CASE resolveUsername
    <3> WITNESS [view EXCEPT !.resolving = TRUE], "resolve", view.form.of
    <3> QED BY <1>1, <1>2, <2>2 DEF ViewOK, Refs, resolveUsername, Request
  <2> QED BY <2>1, <2>2
<1>5. ViewOK(w, page.name)
  BY <1>1, <1>4 DEF ViewOK
<1>6. \A d \in calls : AliveOK(d, page, w)
  BY <1>1, <1>2, <1>3 DEF TabOK, AliveOK, Sole
<1>7. AliveOK(NewCall(made + 1, page, kind, a), page, w)
  BY <1>2, <1>4 DEF AliveOK, NewCall
<1>8. TabOK(page, w, calls \cup {NewCall(made + 1, page, kind, a)})
  BY <1>1, <1>3, <1>4, <1>5, <1>6, <1>7, Requested
<1> QED BY <1>2, <1>4, <1>8 DEF TabInv

\* An answer that leaves the form and the flags of the users' page alone.
LEMMA QuietAnswer ==
  ASSUME NEW p, NEW v, NEW cs, TabOK(p, v, cs), NEW c \in cs, NEW w, c.mount = p.mount,
         DOMAIN w = Refs, w.selected \subseteq w.shown,
         p.name \notin {"month", "messages"} => w.selected = {},
         p.name \in {"users", "schedules"} => w.shown \subseteq Row,
         w.form = v.form, w.editing = v.editing \/ p.name = "user", w.open = v.open,
         p.name # "users" \/ (w.saving = v.saving /\ w.resolving = v.resolving),
         p.name # "messages" \/ c.kind = "load" \/ w.shown \subseteq v.shown
  PROVE  ViewOK(w, p.name) /\ \A d \in cs \ {c} : AliveOK(d, p, w)
<1>1. ViewOK(w, p.name)
  BY DEF TabOK, ViewOK
<1>2. p.name = "messages" /\ c.kind = "load" => \A d \in cs \ {c} : AliveOK(d, p, w)
  BY DEF TabOK, AliveOK, Sole
<1> QED BY <1>1, <1>2 DEF TabOK, AliveOK

\* What an answer lists.
LEMMA ShownOK ==
  ASSUME TabInv, NEW c \in calls, c.got # Waiting, c.kind \in ListKinds,
         c.mount = page.mount
  PROVE  /\ c.page = page.name
         /\ page.name \in {"users", "schedules"} => Shown(c) \subseteq Row
BY DEF TabInv, TabOK, CallOK, AliveOK, ViewOK, Shown

LEMMA LoadedKeeps ==
  ASSUME TabInv,
         loadDashboard \/ loadUserDetail \/ loadHistories \/ loadHistoryDetail \/ loadUsers
           \/ loadSchedules
  PROVE  TabInv'
<1>1. ViewOK(view, page.name) /\ TabOK(page, view, calls)
  BY Mountedness
<1>2. PICK c \in calls :
        /\ Resume(c, [view EXCEPT !.shown = Shown(c), !.loading = FALSE])
        /\ c.kind = "load" /\ c.got # Waiting /\ c.page \notin {"month", "messages"}
  BY DEF loadDashboard, loadUserDetail, loadHistories, loadHistoryDetail, loadUsers,
         loadSchedules, Loaded, Answered
<1> DEFINE w == [view EXCEPT !.shown = Shown(c), !.loading = FALSE]
<1>3. /\ DOMAIN w = Refs /\ w.shown = Shown(c) /\ w.selected = view.selected
      /\ w.form = view.form /\ w.open = view.open /\ w.editing = view.editing
      /\ w.saving = view.saving /\ w.resolving = view.resolving
  BY <1>1 DEF ViewOK, Refs
<1>4. Resume(c, w)
  BY <1>2
<1> HIDE DEF w
<1>5. c.mount = page.mount => ViewOK(w, page.name) /\ \A d \in calls \ {c} : AliveOK(d, page, w)
  <2> HAVE c.mount = page.mount
  <2>1. /\ c.page = page.name
        /\ page.name \in {"users", "schedules"} => Shown(c) \subseteq Row
    BY <1>2, ShownOK DEF ListKinds
  <2>2. view.selected = {}
    BY <1>1, <1>2, <2>1 DEF ViewOK
  <2> QED BY <1>1, <1>2, <1>3, <2>1, <2>2, QuietAnswer
<1>6. TabOK(page, IF c.mount = page.mount THEN w ELSE view, calls \ {c})
  BY <1>1, <1>5, Resumed
<1> QED BY <1>4, <1>6 DEF TabInv, Resume, Alive

LEMMA MonthLoadedKeeps ==
  ASSUME TabInv, loadMonth
  PROVE  TabInv'
<1>1. ViewOK(view, page.name) /\ TabOK(page, view, calls)
  BY Mountedness
<1>2. PICK c \in calls :
        Resume(c, MonthShown(c)) /\ c.kind = "load" /\ c.got # Waiting /\ c.page = "month"
  BY DEF loadMonth, Answered
<1> DEFINE w == MonthShown(c)
<1>3. /\ DOMAIN w = Refs /\ w.selected \subseteq w.shown
      /\ w.form = view.form /\ w.open = view.open /\ w.editing = view.editing
  BY <1>1 DEF ViewOK, Refs, MonthShown, Shown
<1> HIDE DEF w
<1>4. c.mount = page.mount => ViewOK(w, page.name) /\ \A d \in calls \ {c} : AliveOK(d, page, w)
  <2> HAVE c.mount = page.mount
  <2>1. page.name = "month"
    BY <1>2, ShownOK DEF ListKinds
  <2> QED BY <1>1, <1>3, <2>1, QuietAnswer
<1>5. TabOK(page, IF c.mount = page.mount THEN w ELSE view, calls \ {c})
  BY <1>1, <1>4, Resumed
<1> QED BY <1>2, <1>5 DEF TabInv, Resume, Alive, w

LEMMA TargetsLoadedKeeps ==
  ASSUME TabInv, loadTargets
  PROVE  TabInv'
<1>1. ViewOK(view, page.name) /\ TabOK(page, view, calls)
  BY Mountedness
<1>2. PICK c \in calls :
        /\ c.kind = "load" /\ c.got # Waiting /\ c.page = "messages"
        /\ \/ Resume(c, [view EXCEPT !.loading = FALSE])
           \/ Resume(c, [view EXCEPT !.shown = c.got, !.loading = FALSE,
                                     !.selected = @ \cup hydrateDashboardSelection(c.got)])
  BY DEF loadTargets, Answered
<1>3. c.mount = page.mount => page.name = "messages" /\ view.shown = {} /\ view.selected = {}
  BY <1>1, <1>2 DEF TabOK, AliveOK, ViewOK
<1>4. PICK w : /\ Resume(c, w) /\ DOMAIN w = Refs
               /\ w.form = view.form /\ w.open = view.open /\ w.editing = view.editing
               /\ c.mount = page.mount => w.selected \subseteq w.shown
  <2>1. CASE Resume(c, [view EXCEPT !.loading = FALSE])
    <3> WITNESS [view EXCEPT !.loading = FALSE]
    <3> QED BY <1>1, <2>1 DEF ViewOK, Refs
  <2>2. CASE Resume(c, [view EXCEPT !.shown = c.got, !.loading = FALSE,
                                    !.selected = @ \cup hydrateDashboardSelection(c.got)])
    <3> DEFINE u == [view EXCEPT !.shown = c.got, !.loading = FALSE,
                                 !.selected = @ \cup hydrateDashboardSelection(c.got)]
    <3>1. /\ DOMAIN u = Refs /\ u.shown = c.got
          /\ u.selected = view.selected \cup hydrateDashboardSelection(c.got)
          /\ u.form = view.form /\ u.open = view.open /\ u.editing = view.editing
      BY <1>1 DEF ViewOK, Refs
    <3>2. hydrateDashboardSelection(c.got) \subseteq c.got
      BY DEF hydrateDashboardSelection
    <3>3. Resume(c, u)
      BY <2>2
    <3> HIDE DEF u
    <3> WITNESS u
    <3> QED BY <1>3, <3>1, <3>2, <3>3
  <2> QED BY <1>2, <2>1, <2>2
<1>5. c.mount = page.mount => ViewOK(w, page.name) /\ \A d \in calls \ {c} : AliveOK(d, page, w)
  BY <1>1, <1>2, <1>3, <1>4, QuietAnswer
<1>6. TabOK(page, IF c.mount = page.mount THEN w ELSE view, calls \ {c})
  BY <1>1, <1>5, Resumed
<1> QED BY <1>4, <1>6 DEF TabInv, Resume, Alive

LEMMA SubmittedKeeps ==
  ASSUME TabInv, submitAnswered \/ backfillAnswered \/ userBackfillAnswered
  PROVE  TabInv'
<1>1. ViewOK(view, page.name) /\ TabOK(page, view, calls)
  BY Mountedness
<1>2. PICK c \in calls :
        Resume(c, [view EXCEPT !.saving = FALSE]) /\ c.page \notin {"users", "schedules"}
  BY DEF submitAnswered, backfillAnswered, userBackfillAnswered, SubmitAnswered, Answered
<1> DEFINE w == [view EXCEPT !.saving = FALSE]
<1>3. /\ DOMAIN w = Refs /\ w.shown = view.shown /\ w.selected = view.selected
      /\ w.form = view.form /\ w.open = view.open /\ w.editing = view.editing
  BY <1>1 DEF ViewOK, Refs
<1>4. Resume(c, w)
  BY <1>2
<1> HIDE DEF w
<1>5. c.mount = page.mount => ViewOK(w, page.name) /\ \A d \in calls \ {c} : AliveOK(d, page, w)
  <2> HAVE c.mount = page.mount
  <2>1. c.page = page.name
    BY <1>1 DEF TabOK, AliveOK
  <2> QED BY <1>1, <1>2, <1>3, <2>1, QuietAnswer DEF ViewOK
<1>6. TabOK(page, IF c.mount = page.mount THEN w ELSE view, calls \ {c})
  BY <1>1, <1>5, Resumed
<1> QED BY <1>4, <1>6 DEF TabInv, Resume, Alive

\* A save has been answered: the flags are given back, or the list is loaded.
LEMMA SaveAnsweredKeeps ==
  ASSUME TabInv, NEW name \in {"users", "schedules"}, SaveAnswered(name)
  PROVE  TabInv'
<1>1. ViewOK(view, page.name) /\ TabOK(page, view, calls)
  BY Mountedness
<1>2. PICK c \in calls :
        /\ c.page = name /\ c.kind = "save"
        /\ \/ Resume(c, [view EXCEPT !.saving = FALSE])
           \/ Continue(c, [view EXCEPT !.loading = TRUE], "afterSave", c.got)
  BY DEF SaveAnswered, Answered
<1>3. c.mount = page.mount => c.page = page.name
  BY <1>1 DEF TabOK, AliveOK
<1>4. c.mount = page.mount /\ name = "users" => Sole(c, page) /\ view.saving /\ ~view.resolving
  BY <1>1, <1>2 DEF TabOK, AliveOK, Sole
<1>5. c.mount = page.mount /\ name = "users" => \A d \in calls \ {c} : ~Sole(d, page)
  BY <1>1, <1>4 DEF TabOK
<1>6. CASE Resume(c, [view EXCEPT !.saving = FALSE])
  <2> DEFINE w == [view EXCEPT !.saving = FALSE]
  <2>1. /\ DOMAIN w = Refs /\ w.shown = view.shown /\ w.selected = view.selected
        /\ w.form = view.form /\ w.open = view.open /\ w.editing = view.editing
        /\ w.resolving = view.resolving
    BY <1>1 DEF ViewOK, Refs
  <2>2. Resume(c, w)
    BY <1>6
  <2> HIDE DEF w
  <2>3. ViewOK(w, page.name)
    BY <1>1, <2>1 DEF ViewOK
  <2>4. c.mount = page.mount => \A d \in calls \ {c} : AliveOK(d, page, w)
    BY <1>1, <1>2, <1>3, <1>5, <2>1 DEF TabOK, AliveOK, Sole
  <2>5. TabOK(page, IF c.mount = page.mount THEN w ELSE view, calls \ {c})
    BY <1>1, <2>3, <2>4, Resumed
  <2> QED BY <2>2, <2>5 DEF TabInv, Resume, Alive
<1>7. CASE Continue(c, [view EXCEPT !.loading = TRUE], "afterSave", c.got)
  <2> DEFINE w == [view EXCEPT !.loading = TRUE]
             k == NewCall(c.n, [name |-> c.page, mount |-> c.mount], "afterSave", c.got)
  <2>1. /\ DOMAIN w = Refs /\ w.shown = view.shown /\ w.selected = view.selected
        /\ w.form = view.form /\ w.open = view.open /\ w.editing = view.editing
        /\ w.resolving = view.resolving /\ w.saving = view.saving
    BY <1>1 DEF ViewOK, Refs
  <2>2. Continue(c, w, "afterSave", c.got)
    BY <1>7
  <2> HIDE DEF w
  <2>3. ViewOK(w, page.name) /\ \A d \in calls : AliveOK(d, page, w)
    BY <1>1, <2>1, Untouched DEF ViewOK
  <2>4. AliveOK(k, page, w)
    BY <1>2, <1>3, <1>4, <2>1 DEF AliveOK, NewCall
  <2> HIDE DEF k
  <2>5. TabOK(page, IF c.mount = page.mount THEN w ELSE view, (calls \ {c}) \cup {k})
    BY <1>1, <1>2, <1>5, <2>3, <2>4, Continued DEF k
  <2> QED BY <2>2, <2>5 DEF TabInv, Continue, Alive, k
<1> QED BY <1>2, <1>6, <1>7

\* The list has been loaded after a save: the form is closed.
LEMMA SavedKeeps ==
  ASSUME TabInv,
         Reloaded("schedules", "afterSave", ScheduleSaved) \/ Reloaded("users", "afterSave", UserSaved)
  PROVE  TabInv'
<1>1. ViewOK(view, page.name) /\ TabOK(page, view, calls)
  BY Mountedness
<1>2. PICK c, w :
        /\ c \in calls /\ Resume(c, w) /\ c.kind = "afterSave" /\ c.got # Waiting
        /\ c.page \in {"users", "schedules"}
        /\ DOMAIN w = Refs /\ w.shown = Shown(c) /\ w.selected = view.selected
        /\ DOMAIN w.form = {"of", "account"} /\ w.form.account = w.form.of /\ ~w.open
        /\ w.resolving = view.resolving
  <2> DEFINE u(c) == [view EXCEPT !.shown = Shown(c), !.loading = FALSE]
  <2>1. ASSUME NEW c
        PROVE  /\ DOMAIN u(c) = Refs /\ u(c).shown = Shown(c) /\ u(c).selected = view.selected
               /\ u(c).form = view.form /\ u(c).resolving = view.resolving
    BY <1>1 DEF ViewOK, Refs
  <2>2. CASE Reloaded("schedules", "afterSave", ScheduleSaved)
    <3>1. PICK c \in calls : /\ Resume(c, ScheduleSaved(u(c), c.arg)) /\ c.kind = "afterSave"
                             /\ c.got # Waiting /\ c.page = "schedules"
      BY <2>2 DEF Reloaded, Answered
    <3> HIDE DEF u
    <3> WITNESS c, ScheduleSaved(u(c), c.arg)
    <3> QED BY <1>1, <2>1, <3>1 DEF ScheduleSaved, Refs, ViewOK
  <2>3. CASE Reloaded("users", "afterSave", UserSaved)
    <3>1. PICK c \in calls : /\ Resume(c, UserSaved(u(c), c.arg)) /\ c.kind = "afterSave"
                             /\ c.got # Waiting /\ c.page = "users"
      BY <2>3 DEF Reloaded, Answered
    <3> HIDE DEF u
    <3> WITNESS c, UserSaved(u(c), c.arg)
    <3> QED BY <1>1, <2>1, <3>1 DEF UserSaved, editRow, FieldsOf, Refs
  <2> QED BY <2>2, <2>3
<1>3. c.mount = page.mount => ViewOK(w, page.name)
  BY <1>1, <1>2, ShownOK DEF ViewOK, ListKinds
<1>4. c.mount = page.mount => \A d \in calls \ {c} : AliveOK(d, page, w)
  <2> HAVE c.mount = page.mount
  <2>1. c.page = page.name
    BY <1>1, <1>2 DEF TabOK, AliveOK
  <2>2. CASE page.name = "users"
    <3>1. \A d \in calls \ {c} : ~Sole(d, page)
      BY <1>1, <1>2, <2>1, <2>2 DEF TabOK, Sole
    <3> QED BY <1>1, <2>2, <3>1 DEF TabOK, AliveOK, Sole
  <2>3. CASE page.name = "schedules"
    BY <1>1, <2>3, UntouchedElsewhere
  <2> QED BY <1>2, <2>1, <2>2, <2>3
<1>5. TabOK(page, IF c.mount = page.mount THEN w ELSE view, calls \ {c})
  BY <1>1, <1>2, <1>3, <1>4, Resumed
<1> QED BY <1>2, <1>5 DEF TabInv, Resume, Alive

\* A run by hand or an import has been answered.
LEMMA WorkAnsweredKeeps ==
  ASSUME TabInv, runAnswered \/ importAnswered
  PROVE  TabInv'
<1>1. ViewOK(view, page.name) /\ TabOK(page, view, calls)
  BY Mountedness
<1>2. PICK c, w :
        /\ c \in calls /\ c.page \in {"users", "schedules"} /\ c.got # Waiting
        /\ \/ Resume(c, w) /\ (w.shown = view.shown \/ (w.shown = Shown(c) /\ c.kind \in ListKinds))
           \/ \E kind \in {"afterRun", "afterImport"} : \E a : Continue(c, w, kind, a) /\ w.shown = view.shown
        /\ DOMAIN w = Refs /\ w.selected = view.selected
        /\ w.form = view.form /\ w.open = view.open /\ w.editing = view.editing
        /\ w.saving = view.saving /\ w.resolving = view.resolving
  <2> DEFINE u(c) == [view EXCEPT !.shown = Shown(c), !.loading = FALSE]
             l == [view EXCEPT !.loading = TRUE]
  <2>1. CASE \E c \in calls : /\ c.page = "schedules" /\ c.got # Waiting
                              /\ Resume(c, RunDone(view, None))
    <3>1. PICK c \in calls : /\ c.page = "schedules" /\ c.got # Waiting
                             /\ Resume(c, RunDone(view, None))
      BY <2>1
    <3> WITNESS c, RunDone(view, None)
    <3> QED BY <1>1, <3>1 DEF ViewOK, Refs, RunDone
  <2>2. CASE \E c \in calls : /\ c.page = "users" /\ c.got # Waiting
                              /\ Resume(c, ImportDone(view, None))
    <3>1. PICK c \in calls : /\ c.page = "users" /\ c.got # Waiting
                             /\ Resume(c, ImportDone(view, None))
      BY <2>2
    <3> WITNESS c, ImportDone(view, None)
    <3> QED BY <1>1, <3>1 DEF ViewOK, Refs, ImportDone
  <2>3. CASE \E c \in calls : \E kind \in {"afterRun", "afterImport"} : \E a :
               c.page \in {"users", "schedules"} /\ c.got # Waiting /\ Continue(c, l, kind, a)
    <3>1. PICK c \in calls : \E kind \in {"afterRun", "afterImport"} : \E a :
               c.page \in {"users", "schedules"} /\ c.got # Waiting /\ Continue(c, l, kind, a)
      BY <2>3
    <3>2. /\ DOMAIN l = Refs /\ l.selected = view.selected /\ l.shown = view.shown
          /\ l.form = view.form /\ l.open = view.open /\ l.editing = view.editing
          /\ l.saving = view.saving /\ l.resolving = view.resolving
      BY <1>1 DEF ViewOK, Refs
    <3> HIDE DEF l
    <3> WITNESS c, l
    <3> QED BY <3>1, <3>2
  <2>4. CASE Reloaded("schedules", "afterRun", RunDone)
    <3>1. PICK c \in calls : /\ Resume(c, RunDone(u(c), c.arg)) /\ c.kind = "afterRun"
                             /\ c.got # Waiting /\ c.page = "schedules"
      BY <2>4 DEF Reloaded, Answered
    <3> WITNESS c, RunDone(u(c), c.arg)
    <3> QED BY <1>1, <3>1 DEF ViewOK, Refs, RunDone, ListKinds
  <2>5. CASE Reloaded("users", "afterImport", ImportDone)
    <3>1. PICK c \in calls : /\ Resume(c, ImportDone(u(c), c.arg)) /\ c.kind = "afterImport"
                             /\ c.got # Waiting /\ c.page = "users"
      BY <2>5 DEF Reloaded, Answered
    <3> WITNESS c, ImportDone(u(c), c.arg)
    <3> QED BY <1>1, <3>1 DEF ViewOK, Refs, ImportDone, ListKinds
  <2> HIDE DEF u
  <2>6. CASE runAnswered
    <3>1. \/ \E c \in calls :
               /\ c.page = "schedules" /\ c.got # Waiting
               /\ Resume(c, RunDone(view, None)) \/ Continue(c, l, "afterRun", c.got)
          \/ Reloaded("schedules", "afterRun", RunDone)
      BY <2>6 DEF runAnswered, Answered
    <3> HIDE DEF l
    <3> QED BY <2>1, <2>3, <2>4, <3>1
  <2>7. CASE importAnswered
    <3>1. \/ \E c \in calls :
               /\ c.page = "users" /\ c.got # Waiting
               /\ Resume(c, ImportDone(view, None)) \/ Continue(c, l, "afterImport", None)
          \/ Reloaded("users", "afterImport", ImportDone)
      BY <2>7 DEF importAnswered, Answered
    <3> HIDE DEF l
    <3> QED BY <2>2, <2>3, <2>5, <3>1
  <2> QED BY <2>6, <2>7
<1>3. c.mount = page.mount => ViewOK(w, page.name) /\ \A d \in calls \ {c} : AliveOK(d, page, w)
  <2> HAVE c.mount = page.mount
  <2>1. c.page = page.name
    BY <1>1, <1>2 DEF TabOK, AliveOK
  <2>2. w.shown \subseteq Row
    BY <1>1, <1>2, <2>1, ShownOK DEF ViewOK
  <2>3. view.selected = {}
    BY <1>1, <1>2, <2>1 DEF ViewOK
  <2> QED BY <1>1, <1>2, <2>1, <2>2, <2>3, QuietAnswer
<1>4. CASE Resume(c, w)
  <2>1. TabOK(page, IF c.mount = page.mount THEN w ELSE view, calls \ {c})
    BY <1>1, <1>2, <1>3, Resumed
  <2> QED BY <1>4, <2>1 DEF TabInv, Resume, Alive
<1>5. CASE \E kind \in {"afterRun", "afterImport"} : \E a : Continue(c, w, kind, a)
  <2>1. PICK kind, a : kind \in {"afterRun", "afterImport"} /\ Continue(c, w, kind, a)
    BY <1>5
  <2> DEFINE k == NewCall(c.n, [name |-> c.page, mount |-> c.mount], kind, a)
  <2>2. AliveOK(k, page, w)
    <3>1. c.mount = page.mount => c.page = page.name
      BY <1>1, <1>2 DEF TabOK, AliveOK
    <3> QED BY <2>1, <3>1 DEF AliveOK, NewCall
  <2>3. c \in calls /\ kind \notin {"save", "load", "resolve", "afterSave"}
    BY <1>2, <2>1
  <2> HIDE DEF k
  <2>4. TabOK(page, IF c.mount = page.mount THEN w ELSE view, (calls \ {c}) \cup {k})
    BY <1>1, <1>3, <2>2, <2>3, Continued, SMTT(30) DEF k
  <2> QED BY <2>1, <2>4 DEF TabInv, Continue, Alive, k
<1> QED BY <1>2, <1>4, <1>5

LEMMA ResolvedKeeps ==
  ASSUME TabInv, usernameResolved
  PROVE  TabInv'
<1>1. ViewOK(view, page.name) /\ TabOK(page, view, calls)
  BY Mountedness
<1>2. PICK c \in calls :
        Resume(c, Resolved(view, c.got)) /\ c.page = "users" /\ c.kind = "resolve" /\ c.got # Waiting
  BY DEF usernameResolved, Answered
<1> DEFINE w == Resolved(view, c.got)
<1>3. /\ DOMAIN w = Refs /\ w.shown = view.shown /\ w.selected = view.selected
      /\ DOMAIN w.form = {"of", "account"} /\ w.form.of = view.form.of
      /\ w.form.account = view.form.account \/ (c.got # Failed /\ w.form.account = c.got)
      /\ w.open = view.open /\ w.editing = view.editing /\ w.saving = view.saving /\ ~w.resolving
  BY <1>1 DEF ViewOK, Refs, Resolved
<1> HIDE DEF w
<1>4. c.mount = page.mount => ViewOK(w, page.name) /\ \A d \in calls \ {c} : AliveOK(d, page, w)
  <2> HAVE c.mount = page.mount
  <2>1. page.name = "users" /\ c.got \in {Waiting, Failed, view.form.of}
    BY <1>1, <1>2 DEF TabOK, AliveOK
  <2>2. ViewOK(w, page.name)
    BY <1>1, <1>2, <1>3, <2>1 DEF ViewOK, Fits
  <2>3. \A d \in calls \ {c} : ~Sole(d, page)
    BY <1>1, <1>2 DEF TabOK, Sole
  <2> QED BY <1>1, <2>1, <2>2, <2>3 DEF TabOK, AliveOK, Sole
<1>5. TabOK(page, IF c.mount = page.mount THEN w ELSE view, calls \ {c})
  BY <1>1, <1>4, Resumed
<1> QED BY <1>2, <1>5 DEF TabInv, Resume, Alive, w

\* A call is answered or fails.
LEMMA ServeKeeps ==
  ASSUME TabInv, RowsOK, Serve
  PROVE  TabInv' /\ RowsOK'
<1>1. ViewOK(view, page.name) /\ TabOK(page, view, calls)
  BY Mountedness
<1>2. PICK c \in calls :
        ServeLoad(c) \/ ServeSave(c) \/ ServeImport(c) \/ ServeResolve(c)
          \/ ServeWork(c) \/ ServeLogin(c) \/ Refuse(c)
  BY DEF Serve
<1>3. page' = page /\ view' = view
  BY DEF Serve
<1>4. PICK got : /\ Respond(c, got)
                 /\ c.page \in {"users", "schedules"} /\ c.kind \in ListKinds /\ got # Failed
                      => got \subseteq Row
                 /\ c.kind = "resolve" => got \in {Failed, c.arg}
  <2>1. CASE ServeLoad(c)
    <3>1. PICK ids \in Listings(c) : Respond(c, ids)
      BY <2>1 DEF ServeLoad
    <3>2. c.page \in {"users", "schedules"} => ids \subseteq Row
      BY <3>1 DEF Listings, listTargets, listSchedules, Row
    <3> QED BY <2>1, <3>1, <3>2 DEF ServeLoad
  <2>2. CASE ServeSave(c) \/ ServeImport(c)
    BY <2>2 DEF ServeSave, ServeImport, ListKinds
  <2>3. CASE ServeResolve(c) \/ ServeWork(c) \/ ServeLogin(c)
    BY <2>3 DEF ServeResolve, ServeWork, ServeLogin, ListKinds
  <2>4. CASE Refuse(c)
    BY <2>4 DEF Refuse
  <2> QED BY <1>2, <2>1, <2>2, <2>3, <2>4
<1>5. TabInv'
  <2>1. TabOK(page, view, (calls \ {c}) \cup {[c EXCEPT !.got = got]})
    BY <1>1, <1>4, Responded
  <2> QED BY <1>3, <1>4, <2>1 DEF TabInv, Respond
<1>6. RowsOK'
  <2>1. CASE ServeSave(c)
    <3>1. Fits(c.arg.form, c.arg.editing) /\ c.arg.form.account = c.arg.form.of
      BY <1>1, <2>1 DEF TabOK, CallOK, ServeSave
    <3>2. PICK k \in Row :
            IF c.arg.editing = None
            THEN rows[k] = None /\ rows' = [rows EXCEPT ![k] = Created(k, c.arg.form)]
            ELSE rows[k] # None /\ k = c.arg.editing /\ rows' = [rows EXCEPT ![k] = c.arg.form]
      BY <2>1 DEF ServeSave, Row
    <3>3. CASE c.arg.editing = None
      <4>1. Created(k, c.arg.form).of = k /\ Created(k, c.arg.form).account = k
        BY <3>1, <3>3 DEF Created, Fits
      <4> QED BY <3>2, <3>3, <4>1 DEF RowsOK
    <3>4. CASE c.arg.editing # None
      BY <3>1, <3>2, <3>4 DEF RowsOK, Fits
    <3> QED BY <3>3, <3>4
  <2>2. CASE ServeImport(c)
    BY <2>2 DEF ServeImport, RowsOK, FieldsOf
  <2>3. CASE rows' = rows
    BY <2>3 DEF RowsOK
  <2> QED BY <1>2, <2>1, <2>2, <2>3
       DEF ServeLoad, ServeResolve, ServeWork, ServeLogin, Refuse, Keep
<1> QED BY <1>5, <1>6

LEMMA TabInductive == TabInv /\ RowsOK /\ [Next]_vars => TabInv' /\ RowsOK'
<1> SUFFICES ASSUME TabInv, RowsOK, [Next]_vars
             PROVE  TabInv' /\ RowsOK'
  OBVIOUS
<1>1. CASE Serve
  BY <1>1, ServeKeeps
<1>2. CASE UNCHANGED <<page, view, calls, rows>>
  BY <1>2 DEF TabInv, RowsOK
<1>3. CASE Tab
  <2>1. RowsOK'
    BY <1>3 DEF Tab, RowsOK
  <2> SUFFICES TabInv'
    BY <2>1
  <2>2. CASE Act
    <3>1. CASE login \/ logout \/ Visit \/ watchMonth \/ watchUser \/ watchHistory
      BY <3>1, LoginKeeps, MountKeeps, RewatchKeeps
    <3>2. CASE reload \/ changeSort \/ changeFilter \/ submit \/ submitBackfill \/ submitUserBackfill
                 \/ saveSchedule \/ runNow \/ importCsv
      BY <3>2, RequestKeeps
    <3>3. CASE selectUsers \/ selectTargets \/ sendSelectedToMessages
      BY <3>3, SelectionKeeps, MountKeeps
    <3>4. CASE openBackfillModal \/ closeBackfillModal \/ closeSchedule \/ openSchedule \/ openUser
      BY <3>4, DialogKeeps, OpenFormKeeps
    <3>5. CASE closeUser \/ saveUser \/ resolveUsername
      BY <3>5, CloseUserKeeps, FormRequestKeeps
    <3> QED BY <2>2, <3>1, <3>2, <3>3, <3>4, <3>5 DEF Act
  <2>3. CASE Handle
    <3>1. CASE LoggedIn
      BY <3>1, LoginKeeps
    <3>2. CASE loadDashboard \/ loadUserDetail \/ loadHistories \/ loadHistoryDetail \/ loadUsers
                 \/ loadSchedules
      BY <3>2, LoadedKeeps
    <3>3. CASE loadMonth \/ loadTargets
      BY <3>3, MonthLoadedKeeps, TargetsLoadedKeeps
    <3>4. CASE submitAnswered \/ backfillAnswered \/ userBackfillAnswered
      BY <3>4, SubmittedKeeps
    <3>5. CASE scheduleSaved
      BY <3>5, SaveAnsweredKeeps, SavedKeeps DEF scheduleSaved
    <3>6. CASE userSaved
      BY <3>6, SaveAnsweredKeeps, SavedKeeps DEF userSaved
    <3>7. CASE runAnswered \/ importAnswered \/ usernameResolved
      BY <3>7, WorkAnsweredKeeps, ResolvedKeeps
    <3> QED BY <2>3, <3>1, <3>2, <3>3, <3>4, <3>5, <3>6, <3>7 DEF Handle
  <2> QED BY <1>3, <2>2, <2>3 DEF Tab
<1>4. CASE SwitchedElsewhere \/ (TablesStep /\ UNCHANGED consoleVars) \/ UNCHANGED vars
  BY <1>2, <1>4 DEF SwitchedElsewhere, consoleVars, vars
<1> QED BY <1>1, <1>3, <1>4 DEF Next

LEMMA TabInitially == Init => TabInv /\ RowsOK
<1> SUFFICES ASSUME Init PROVE TabInv /\ RowsOK
  OBVIOUS
<1>1. RowsOK
  <2>1. PICK present \in SUBSET Reminders :
          rows = [k \in Row |-> IF k \in present \/ (k \in Users /\ userStatus[k] # "absent")
                                THEN FieldsOf(k) ELSE None]
    BY DEF Init
  <2> QED BY <2>1 DEF RowsOK, FieldsOf
<1>2. DOMAIN page = {"name", "arg", "mount"} /\ page.mount = 1
  <2>1. \A route : DOMAIN PageOf(route, 1) = {"name", "arg", "mount"} /\ PageOf(route, 1).mount = 1
    BY DEF PageOf
  <2>2. DOMAIN LoginPage(1) = {"name", "arg", "mount"} /\ LoginPage(1).mount = 1
    BY DEF LoginPage
  <2>3. CASE page = LoginPage(1)
    BY <2>2, <2>3
  <2>4. CASE \E route \in Routes : page = PageOf(route, 1)
    BY <2>1, <2>4
  <2> QED BY <2>3, <2>4, Zenon DEF Init
<1>3. view = Mounted(page) /\ ViewOK(view, page.name)
  BY DEF Init, ViewOK, Mounted, Refs, Blank
<1>4. calls = {} \/ calls = {NewCall(1, page, "load", page.arg)}
  BY DEF Init
<1>5. /\ CallOK(NewCall(1, page, "load", page.arg), page)
      /\ AliveOK(NewCall(1, page, "load", page.arg), page, view)
  BY <1>2, <1>3 DEF CallOK, AliveOK, NewCall, CallFields, Mounted
<1>6. TabOK(page, view, calls)
  BY <1>2, <1>3, <1>4, <1>5 DEF TabOK
<1> QED BY <1>1, <1>6 DEF TabInv

(* What is selected on a page is listed on it, whatever answers come late, out of
   order or for a page that was left, and whatever was handed over. *)
THEOREM SelectionIsShown == Spec => []SelectionShown
<1>1. TabInv => SelectionShown
  BY DEF TabInv, TabOK, ViewOK, SelectionShown
<1> QED BY <1>1, TabInitially, TabInductive, PTL DEF Spec

(* A save never writes what was typed for one row into another. *)
THEOREM RowsKeepTheirOwn == Spec => []RowsHoldTheirOwn
<1>1. RowsOK => RowsHoldTheirOwn
  BY DEF RowsOK, RowsHoldTheirOwn
<1> QED BY <1>1, TabInitially, TabInductive, PTL DEF Spec

(* A resolved account goes into the form that asked for it and is saved with its row. *)
THEOREM ResolvedForItsRow == Spec => []ResolvedIntoItsForm
<1>1. TabInv /\ RowsOK => ResolvedIntoItsForm
  BY DEF TabInv, TabOK, ViewOK, RowsOK, ResolvedIntoItsForm
<1> QED BY <1>1, TabInitially, TabInductive, PTL DEF Spec
----------------------------------------------------------------------------
(* The types of the tab and of the rows it writes *)

PageNames == {"login", "dashboard", "users", "schedules", "backfill", "messages", "histories",
              "month", "user", "history"}

\* What a page called name lists.
Listed(name) ==
  IF name \in {"month", "messages", "users", "user"} THEN Users
  ELSE IF name = "schedules" THEN Reminders
  ELSE IF name \in {"histories", "history"} THEN Campaigns ELSE {}

ParamOK(name, arg) ==
  (name = "user" => arg \in Users) /\ (name = "history" => arg \in Campaigns)

ViewType(name) ==
  [shown : SUBSET Listed(name), selected : SUBSET Users, loading : BOOLEAN, saving : BOOLEAN,
   resolving : BOOLEAN, importing : BOOLEAN, running : Reminders \cup {None}, open : BOOLEAN,
   editing : Row \cup {None}, form : Content]

\* What a call was asked, and what it may have been answered.
CallTyped(c) ==
  LET unread == c.got \in {Waiting, Failed}
  IN  /\ c.kind = "load" =>
           c.page \in PageNames \ {"login", "backfill"} /\ ParamOK(c.page, c.arg)
      /\ c.kind \in ListKinds => /\ c.kind = "load" \/ c.page \in {"users", "schedules"}
                                 /\ unread \/ c.got \subseteq Listed(c.page)
      /\ c.kind = "save" => /\ c.page \in {"users", "schedules"} /\ c.arg.form \in Content
                            /\ unread \/ c.got \in Listed(c.page)
      /\ c.kind = "afterSave" => c.arg \in Listed(c.page)
      /\ c.kind = "import" => c.arg.rows \subseteq Users
      /\ c.kind = "resolve" => /\ c.arg \in Row \cup {NewRow}
                               /\ unread \/ c.got \in Row \cup {NewRow}

\* The login page is left only by the answer to its one call.
PageTyped(p) ==
  /\ p.name \in PageNames /\ ParamOK(p.name, p.arg)
  /\ p.mount \in 1..(MaxMounts + 1) /\ (p.name = "login" => p.mount <= MaxMounts)

TypedTab(p, v, cs, m) ==
  /\ PageTyped(p) /\ v \in ViewType(p.name) /\ m \in Nat
  /\ \A c \in cs : /\ CallTyped(c) /\ c.n \in Nat /\ c.n <= m
                   /\ c.page = "login" => p.name = "login" /\ v.saving
  /\ \A c, d \in cs : c.n = d.n \/ (c.page = "login" /\ d.page = "login") => c = d

TablesTyped ==
  /\ userStatus \in [Users -> UserStatuses] /\ rows \in [Row -> Content \cup {None}]
  /\ \A u \in Users : rows[u] = None <=> userStatus[u] = "absent"

TabTyped == TypedTab(page, view, calls, made)
TypeInv == TabTyped /\ stored \subseteq Users /\ TablesTyped

\* What a page lists are rows or campaigns, and on the pages with forms rows.
LEMMA ListedRows ==
  ASSUME NEW name
  PROVE  /\ Listed(name) \subseteq Row \cup Campaigns
         /\ name \in {"users", "schedules", "user"} => Listed(name) \subseteq Row
         /\ name = "schedules" => Listed(name) = Reminders
BY DEF Listed, Row

\* The refs change under the calls.
LEMMA TypedView ==
  ASSUME NEW p, NEW v, NEW cs, NEW m, TypedTab(p, v, cs, m),
         NEW w \in ViewType(p.name), p.name = "login" => w.saving
  PROVE  TypedTab(p, w, cs, m)
BY DEF TypedTab

\* A handler starts a request.
LEMMA TypedRequest ==
  ASSUME NEW p, NEW v, NEW cs, NEW m, TypedTab(p, v, cs, m),
         NEW w \in ViewType(p.name),
         p.name = "login" => w.saving /\ ~v.saving,
         NEW kind, NEW a, CallTyped(NewCall(m + 1, p, kind, a))
  PROVE  TypedTab(p, w, cs \cup {NewCall(m + 1, p, kind, a)}, m + 1)
<1> DEFINE k == NewCall(m + 1, p, kind, a)
<1>1. k.n = m + 1 /\ k.page = p.name
  BY DEF NewCall
<1>2. m \in Nat /\ \A c \in cs : c.n \in Nat /\ c.n <= m
  BY DEF TypedTab
<1>3. \A c \in cs : c.n <= m + 1 /\ c.n # m + 1
  BY <1>2
<1> HIDE DEF k
<1>4. p.name = "login" => \A c \in cs : c.page # "login"
  BY DEF TypedTab
<1>5. \A c \in cs : c.page = "login" => p.name = "login" /\ w.saving
  BY DEF TypedTab
<1>6. \A c, d \in cs \cup {k} : c.n = d.n \/ (c.page = "login" /\ d.page = "login") => c = d
  BY <1>1, <1>3, <1>4, <1>5 DEF TypedTab
<1> QED BY <1>1, <1>2, <1>3, <1>5, <1>6 DEF TypedTab, k

\* An answer is handled.
LEMMA TypedResume ==
  ASSUME NEW p, NEW v, NEW cs, NEW m, TypedTab(p, v, cs, m), NEW c \in cs, NEW w,
         c.mount = p.mount => w \in ViewType(p.name) /\ (p.name # "login" \/ c.page = "login")
  PROVE  TypedTab(p, IF c.mount = p.mount THEN w ELSE v, cs \ {c}, m)
BY DEF TypedTab

\* An answer is handled by going on to another request.
LEMMA TypedContinue ==
  ASSUME NEW p, NEW v, NEW cs, NEW m, TypedTab(p, v, cs, m), NEW c \in cs, NEW w,
         c.page # "login", c.mount = p.mount => w \in ViewType(p.name) /\ p.name # "login",
         NEW kind, NEW a,
         CallTyped(NewCall(c.n, [name |-> c.page, mount |-> c.mount], kind, a))
  PROVE  TypedTab(p, IF c.mount = p.mount THEN w ELSE v,
                  (cs \ {c}) \cup {NewCall(c.n, [name |-> c.page, mount |-> c.mount], kind, a)}, m)
<1> DEFINE k == NewCall(c.n, [name |-> c.page, mount |-> c.mount], kind, a)
           u == IF c.mount = p.mount THEN w ELSE v
<1>1. k.n = c.n /\ k.page = c.page
  BY DEF NewCall
<1>2. TypedTab(p, u, cs \ {c}, m)
  BY TypedResume
<1>3. c.n \in Nat /\ c.n <= m /\ \A d \in cs \ {c} : d.n # c.n
  BY DEF TypedTab
<1>4. CallTyped(k)
  OBVIOUS
<1> HIDE DEF k, u
<1>5. TypedTab(p, u, (cs \ {c}) \cup {k}, m)
  BY <1>1, <1>2, <1>3, <1>4 DEF TypedTab
<1> QED BY <1>5 DEF k, u

\* A call is answered.
LEMMA TypedRespond ==
  ASSUME NEW p, NEW v, NEW cs, NEW m, TypedTab(p, v, cs, m), NEW c \in cs, DOMAIN c = CallFields,
         NEW got, CallTyped([c EXCEPT !.got = got])
  PROVE  TypedTab(p, v, (cs \ {c}) \cup {[c EXCEPT !.got = got]}, m)
<1> DEFINE k == [c EXCEPT !.got = got]
<1>1. k.n = c.n /\ k.page = c.page
  BY DEF CallFields
<1> HIDE DEF k
<1> QED BY <1>1 DEF TypedTab, k

\* A page is mounted when no login is under way.
LEMMA TypedMount ==
  ASSUME NEW p, NEW v, NEW cs, NEW m, TypedTab(p, v, cs, m), \A c \in cs : c.page # "login",
         NEW q, PageTyped(q)
  PROVE  /\ Mounted(q) \in ViewType(q.name)
         /\ TypedTab(q, Mounted(q), cs, m)
         /\ Loads(q) => CallTyped(NewCall(m + 1, q, "load", q.arg))
<1>1. Mounted(q) \in ViewType(q.name)
  BY DEF Mounted, ViewType, Loads, Blank, Content
<1>2. Loads(q) => CallTyped(NewCall(m + 1, q, "load", q.arg))
  BY DEF CallTyped, NewCall, ListKinds, PageTyped, Loads
<1> QED BY <1>1, <1>2 DEF TypedTab

\* The refs of the mounted page.
LEMMA TypedNow ==
  ASSUME TabTyped
  PROVE  /\ TypedTab(page, view, calls, made) /\ PageTyped(page)
         /\ view \in ViewType(page.name)
         /\ \A c \in calls : CallTyped(c) /\ (c.page = "login" => page.name = "login")
BY DEF TabTyped, TypedTab
\* The handlers without an await.
LEMMA DoTyped ==
  ASSUME TabTyped,
         selectUsers \/ selectTargets \/ openBackfillModal \/ closeBackfillModal
           \/ openSchedule \/ openUser \/ closeSchedule \/ closeUser
  PROVE  TabTyped'
<1>1. view \in ViewType(page.name) /\ view.shown \subseteq Listed(page.name)
  BY TypedNow DEF ViewType
<1>2. PICK w \in ViewType(page.name) : Do(w) /\ page.name # "login"
  <2>1. CASE selectUsers \/ selectTargets
    <3>1. PICK ids \in SUBSET view.shown : Do([view EXCEPT !.selected = ids])
      BY <2>1 DEF selectUsers, selectTargets, Select
    <3>2. page.name \in {"month", "messages"}
      BY <2>1 DEF selectUsers, selectTargets
    <3>3. ids \subseteq Users
      BY <1>1, <3>1, <3>2 DEF Listed
    <3>4. [view EXCEPT !.selected = ids] \in ViewType(page.name)
      BY <1>1, <3>3 DEF ViewType
    <3> QED BY <3>1, <3>2, <3>4
  <2>2. CASE openBackfillModal
    <3>1. PICK u \in view.shown :
            page.name = "user" /\ Do([view EXCEPT !.open = TRUE, !.form = FieldsOf(u)])
      BY <2>2, Zenon DEF openBackfillModal
    <3>2. FieldsOf(u) \in Content
      BY <1>1, <3>1, ListedRows DEF FieldsOf, Content
    <3>3. [view EXCEPT !.open = TRUE, !.form = FieldsOf(u)] \in ViewType(page.name)
      BY <1>1, <3>2 DEF ViewType
    <3> QED BY <3>1, <3>3
  <2>3. CASE closeBackfillModal \/ closeSchedule \/ closeUser
    <3>1. Do([view EXCEPT !.open = FALSE]) /\ page.name # "login"
      BY <2>3 DEF closeBackfillModal, closeSchedule, closeUser
    <3>2. [view EXCEPT !.open = FALSE] \in ViewType(page.name)
      BY <1>1 DEF ViewType
    <3> QED BY <3>1, <3>2
  <2>4. CASE openSchedule \/ openUser
    <3>1. /\ page.name \in {"users", "schedules"}
          /\ Do(startCreate(view)) \/ \E k \in view.shown : Do(editRow(view, k))
      BY <2>4 DEF openSchedule, openUser, OpenForm
    <3>2. startCreate(view) \in ViewType(page.name)
      BY <1>1 DEF ViewType, startCreate, Blank, Content
    <3>3. \A k \in view.shown : editRow(view, k) \in ViewType(page.name)
      <4> TAKE k \in view.shown
      <4>1. k \in Row /\ FieldsOf(k) \in Content
        BY <1>1, <3>1, ListedRows DEF FieldsOf, Content
      <4> QED BY <1>1, <4>1 DEF ViewType, editRow
    <3> QED BY <3>1, <3>2, <3>3
  <2> QED BY <2>1, <2>2, <2>3, <2>4
<1>3. TypedTab(page, w, calls, made)
  BY <1>2, TypedNow, TypedView
<1> QED BY <1>2, <1>3 DEF TabTyped, Do

\* A file names users.
LEMMA ImportedRows ==
  ASSUME NEW file \in Files, parseImportCsv(file) # Failed
  PROVE  parseImportCsv(file) \subseteq Users
<1>1. \A kinds : file \in [1..2 -> [row : Users, is : kinds]] => \A i \in DOMAIN file : file[i].row \in Users
  OBVIOUS
<1>2. \A i \in DOMAIN file : file[i].row \in Users
  BY <1>1, Zenon DEF Files
<1> QED BY <1>2 DEF parseImportCsv

\* The requests of a page that stays.
LEMMA RequestTyped ==
  ASSUME TabTyped,
         reload \/ changeSort \/ changeFilter \/ submit \/ submitBackfill \/ submitUserBackfill
           \/ saveSchedule \/ saveUser \/ resolveUsername \/ runNow \/ importCsv
  PROVE  TabTyped'
<1>1. /\ view \in ViewType(page.name) /\ view.shown \subseteq Listed(page.name)
      /\ view.form \in Content /\ PageTyped(page)
  BY TypedNow DEF ViewType
<1>2. PICK w, kind, a :
        /\ w \in ViewType(page.name)
        /\ page.name # "login" /\ page' = page /\ view' = w
        /\ Request(page, kind, a) /\ CallTyped(NewCall(made + 1, page, kind, a))
  <2>1. CASE reload \/ changeSort \/ changeFilter
    <3>1. /\ Loads(page) /\ page' = page /\ view' = [view EXCEPT !.loading = TRUE]
          /\ Request(page, "load", page.arg)
      BY <2>1 DEF reload, changeSort, changeFilter, Again, Loads
    <3>2. [view EXCEPT !.loading = TRUE] \in ViewType(page.name)
      BY <1>1 DEF ViewType
    <3>3. CallTyped(NewCall(made + 1, page, "load", page.arg))
      BY <1>1, <3>1 DEF CallTyped, NewCall, ListKinds, PageTyped, Loads
    <3> QED BY <3>1, <3>2, <3>3 DEF Loads
  <2>2. CASE submit \/ submitBackfill \/ submitUserBackfill
    <3>1. /\ page.name # "login" /\ page' = page /\ view' = [view EXCEPT !.saving = TRUE]
          /\ Request(page, "submit", None)
      BY <2>2 DEF submit, submitBackfill, submitUserBackfill, Backfill
    <3>2. [view EXCEPT !.saving = TRUE] \in ViewType(page.name)
      BY <1>1 DEF ViewType
    <3>3. CallTyped(NewCall(made + 1, page, "submit", None))
      BY DEF CallTyped, NewCall, ListKinds
    <3> QED BY <3>1, <3>2, <3>3
  <2>3. CASE saveSchedule \/ saveUser
    <3> DEFINE a == [editing |-> view.editing, form |-> view.form]
    <3>1. /\ page.name \in {"users", "schedules"} /\ page' = page
          /\ view' = [view EXCEPT !.saving = TRUE] /\ Request(page, "save", a)
      BY <2>3 DEF saveSchedule, saveUser, Save
    <3>2. [view EXCEPT !.saving = TRUE] \in ViewType(page.name)
      BY <1>1 DEF ViewType
    <3>3. a.form \in Content
      BY <1>1
    <3> HIDE DEF a
    <3>4. CallTyped(NewCall(made + 1, page, "save", a))
      BY <3>1, <3>3 DEF CallTyped, NewCall, ListKinds
    <3> QED BY <3>1, <3>2, <3>4
  <2>4. CASE resolveUsername
    <3>1. /\ page.name = "users" /\ page' = page
          /\ view' = [view EXCEPT !.resolving = TRUE] /\ Request(page, "resolve", view.form.of)
      BY <2>4 DEF resolveUsername
    <3>2. [view EXCEPT !.resolving = TRUE] \in ViewType(page.name)
      BY <1>1 DEF ViewType
    <3>3. view.form.of \in Row \cup {NewRow}
      BY <1>1 DEF Content
    <3>4. CallTyped(NewCall(made + 1, page, "resolve", view.form.of))
      BY <3>3 DEF CallTyped, NewCall, ListKinds
    <3> QED BY <3>1, <3>2, <3>4
  <2>5. CASE runNow
    <3>1. PICK k \in view.shown :
            /\ page.name = "schedules" /\ page' = page
            /\ view' = [view EXCEPT !.running = k] /\ Request(page, "run", k)
      BY <2>5 DEF runNow
    <3>2. k \in Reminders
      BY <1>1, <3>1, ListedRows
    <3>3. [view EXCEPT !.running = k] \in ViewType(page.name)
      BY <1>1, <3>2 DEF ViewType
    <3>4. CallTyped(NewCall(made + 1, page, "run", k))
      BY DEF CallTyped, NewCall, ListKinds
    <3> QED BY <3>1, <3>3, <3>4
  <2>6. CASE importCsv
    <3>1. PICK targets \in {parseImportCsv(file) : file \in Files} \ {Failed, {}} :
            /\ page.name = "users" /\ page' = page
            /\ view' = [view EXCEPT !.importing = TRUE]
            /\ Request(page, "import", [rows |-> targets])
      BY <2>6, Zenon DEF importCsv
    <3>2. targets \subseteq Users
      BY <3>1, ImportedRows
    <3>3. [view EXCEPT !.importing = TRUE] \in ViewType(page.name)
      BY <1>1 DEF ViewType
    <3>4. CallTyped(NewCall(made + 1, page, "import", [rows |-> targets]))
      BY <3>2 DEF CallTyped, NewCall, ListKinds
    <3> QED BY <3>1, <3>3, <3>4
  <2> QED BY <2>1, <2>2, <2>3, <2>4, <2>5, <2>6
<1>3. TypedTab(page, w, calls \cup {NewCall(made + 1, page, kind, a)}, made + 1)
  BY <1>2, TypedNow, TypedRequest
<1> QED BY <1>2, <1>3 DEF TabTyped, Request

\* A page is left for another one.
LEMMA MountTyped ==
  ASSUME TabTyped, logout \/ Visit \/ sendSelectedToMessages
  PROVE  TabTyped'
<1>1. /\ page.mount \in Nat /\ page.mount <= MaxMounts /\ page.mount + 1 \in 1..(MaxMounts + 1)
      /\ page.name # "login" \/ logout
      /\ \A c \in calls : c.page # "login"
  BY TypedNow, ConsoleAssumption DEF logout, Visit, sendSelectedToMessages, PageTyped
<1>2. PICK q : Mount(q) /\ PageTyped(q)
  <2>1. CASE logout
    <3>1. PageTyped(LoginPage(page.mount + 1))
      BY <1>1, <2>1, ConsoleAssumption DEF PageTyped, LoginPage, PageNames, ParamOK, logout
    <3> QED BY <2>1, <3>1 DEF logout
  <2>2. CASE Visit
    <3>1. PICK route \in Routes : Mount(PageOf(route, page.mount + 1))
      BY <2>2, Zenon DEF Visit
    <3>2. route.name \in PageNames \ {"login"} /\ ParamOK(route.name, route.arg)
      BY <3>1 DEF Routes, PageNames, ParamOK
    <3>3. PageTyped(PageOf(route, page.mount + 1))
      BY <1>1, <3>2 DEF PageTyped, PageOf
    <3> QED BY <3>1, <3>3
  <2>3. CASE sendSelectedToMessages
    <3> DEFINE q == PageOf([name |-> "messages", arg |-> None], page.mount + 1)
    <3>1. PageTyped(q)
      BY <1>1 DEF PageTyped, PageOf, PageNames, ParamOK
    <3> QED BY <2>3, <3>1 DEF sendSelectedToMessages
  <2> QED BY <2>1, <2>2, <2>3
<1>3. /\ Mounted(q) \in ViewType(q.name)
      /\ TypedTab(q, Mounted(q), calls, made)
      /\ Loads(q) => CallTyped(NewCall(made + 1, q, "load", q.arg))
  BY <1>1, <1>2, TypedNow, TypedMount
<1>4. Loads(q) =>
        TypedTab(q, Mounted(q), calls \cup {NewCall(made + 1, q, "load", q.arg)}, made + 1)
  BY <1>3, TypedRequest DEF Loads
<1> QED BY <1>2, <1>3, <1>4 DEF TabTyped, Mount, Request
\* The same page for another parameter.
LEMMA RewatchTyped ==
  ASSUME TabInv, TabTyped, watchMonth \/ watchUser \/ watchHistory
  PROVE  TabTyped'
<1>1. view \in ViewType(page.name) /\ PageTyped(page) /\ DOMAIN page = {"name", "arg", "mount"}
  BY TypedNow DEF TabInv, TabOK
<1>2. PICK v \in ViewType(page.name) :
        page.name \in {"month", "user", "history"} /\ Rewatch(page.name, v)
  <2>1. /\ [view EXCEPT !.selected = {}] \in ViewType(page.name)
        /\ [view EXCEPT !.shown = {}, !.open = FALSE] \in ViewType(page.name)
        /\ [view EXCEPT !.shown = {}] \in ViewType(page.name)
    BY <1>1 DEF ViewType
  <2>2. CASE watchMonth
    <3>1. page.name = "month" /\ Rewatch("month", [view EXCEPT !.selected = {}])
      BY <2>2 DEF watchMonth, Rewatch
    <3> QED BY <2>1, <3>1
  <2>3. CASE watchUser
    <3>1. page.name = "user" /\ Rewatch("user", [view EXCEPT !.shown = {}, !.open = FALSE])
      BY <2>3 DEF watchUser, Rewatch
    <3> QED BY <2>1, <3>1
  <2>4. CASE watchHistory
    <3>1. page.name = "history" /\ Rewatch("history", [view EXCEPT !.shown = {}])
      BY <2>4 DEF watchHistory, Rewatch
    <3> QED BY <2>1, <3>1
  <2> QED BY <2>2, <2>3, <2>4
<1>3. PICK route \in Routes :
        /\ route.name = page.name /\ page' = [page EXCEPT !.arg = route.arg]
        /\ Request(page, "load", route.arg) /\ view' = [v EXCEPT !.loading = TRUE]
  BY <1>2, Zenon DEF Rewatch
<1>4. ParamOK(page.name, route.arg)
  BY <1>3 DEF Routes, ParamOK
<1>5. [v EXCEPT !.loading = TRUE] \in ViewType(page.name)
  BY <1>2 DEF ViewType
<1>6. CallTyped(NewCall(made + 1, page, "load", route.arg))
  BY <1>2, <1>4 DEF CallTyped, NewCall, ListKinds, PageNames
<1>7. TypedTab(page, view', calls', made')
  BY <1>2, <1>3, <1>5, <1>6, TypedNow, TypedRequest DEF Request
<1>8. page'.name = page.name /\ page'.mount = page.mount /\ page'.arg = route.arg
  BY <1>1, <1>3
<1> QED BY <1>1, <1>4, <1>7, <1>8 DEF TabTyped, TypedTab, PageTyped

\* The login page, and what leaves it.
LEMMA LoginTyped ==
  ASSUME TabInv, TabTyped, login \/ LoggedIn
  PROVE  TabTyped'
<1>1. view \in ViewType(page.name) /\ PageTyped(page)
  BY TypedNow
<1>2. \A b \in BOOLEAN : [view EXCEPT !.saving = b] \in ViewType(page.name)
  BY <1>1 DEF ViewType
<1>3. [view EXCEPT !.saving = TRUE].saving
  BY <1>1 DEF ViewType
<1>4. CASE login
  <2>1. CallTyped(NewCall(made + 1, page, "login", None))
    BY DEF CallTyped, NewCall, ListKinds
  <2> DEFINE w == [view EXCEPT !.saving = TRUE]
  <2>2. w \in ViewType(page.name) /\ w.saving /\ ~view.saving /\ view' = w
    BY <1>2, <1>3, <1>4 DEF login
  <2> HIDE DEF w
  <2>3. TypedTab(page, w, calls \cup {NewCall(made + 1, page, "login", None)}, made + 1)
    BY <2>1, <2>2, TypedNow, TypedRequest
  <2> QED BY <1>4, <2>2, <2>3 DEF TabTyped, login, Request
<1>5. CASE LoggedIn
  <2> DEFINE q == [name |-> "dashboard", arg |-> None, mount |-> page.mount + 1]
  <2>1. PICK c \in calls :
          /\ c.page = "login"
          /\ \/ Resume(c, [view EXCEPT !.saving = FALSE])
             \/ /\ page' = q /\ view' = Mounted(q) /\ made' = made
                /\ calls' = (calls \ {c}) \cup {NewCall(c.n, q, "load", None)}
    BY <1>5 DEF LoggedIn, Answered
  <2>2. CASE Resume(c, [view EXCEPT !.saving = FALSE])
    <3> DEFINE w == [view EXCEPT !.saving = FALSE]
    <3>1. w \in ViewType(page.name)
      BY <1>2
    <3> HIDE DEF w
    <3>2. TypedTab(page, IF c.mount = page.mount THEN w ELSE view, calls \ {c}, made)
      BY <2>1, <3>1, TypedNow, TypedResume
    <3> QED BY <2>2, <3>2 DEF TabTyped, Resume, Alive, w
  <2>3. CASE /\ page' = q /\ view' = Mounted(q) /\ made' = made
             /\ calls' = (calls \ {c}) \cup {NewCall(c.n, q, "load", None)}
    <3>1. page.name = "login" /\ \A d \in calls \ {c} : d.page # "login"
      BY <2>1 DEF TabTyped, TypedTab
    <3>2. PageTyped(q) /\ q.name = "dashboard" /\ q.arg = None
      BY <1>1, <3>1, ConsoleAssumption DEF PageTyped, PageNames, ParamOK
    <3> HIDE DEF q
    <3>3. TypedTab(page, view, calls \ {c}, made)
      BY DEF TabTyped, TypedTab
    <3>4. TypedTab(q, Mounted(q), calls \ {c}, made)
      BY <3>1, <3>2, <3>3, TypedMount
    <3> DEFINE k == NewCall(c.n, q, "load", None)
    <3>5. CallTyped(k) /\ k.n = c.n /\ k.page = "dashboard"
      BY <3>2 DEF CallTyped, NewCall, ListKinds, PageNames, ParamOK
    <3>6. c.n \in Nat /\ c.n <= made /\ \A d \in calls \ {c} : d.n # c.n
      BY DEF TabTyped, TypedTab
    <3> HIDE DEF k
    <3>7. TypedTab(q, Mounted(q), (calls \ {c}) \cup {k}, made)
      BY <3>4, <3>5, <3>6 DEF TypedTab
    <3> QED BY <2>3, <3>7 DEF TabTyped, k
  <2> QED BY <2>1, <2>2, <2>3
<1> QED BY <1>4, <1>5

\* What an answer lists belongs to the page that is mounted.
LEMMA ShownTyped ==
  ASSUME TabInv, TabTyped, NEW c \in calls, c.got # Waiting, c.mount = page.mount
  PROVE  /\ c.page = page.name
         /\ c.kind \in ListKinds => /\ Shown(c) \in SUBSET Listed(page.name)
                                    /\ c.got = Failed \/ c.got \in SUBSET Listed(page.name)
<1>1. c.page = page.name
  BY DEF TabInv, TabOK, AliveOK
<1>2. CallTyped(c) /\ view.shown \in SUBSET Listed(page.name)
  BY TypedNow DEF ViewType
<1> QED BY <1>1, <1>2 DEF CallTyped, Shown

\* An answer is handled: the refs it leaves are those of its page.
LEMMA ResumeTyped ==
  ASSUME TabTyped, NEW c \in calls, NEW w, Resume(c, w), c.page # "login",
         c.mount = page.mount => w \in ViewType(page.name) /\ c.page = page.name
  PROVE  TabTyped'
<1>1. TypedTab(page, IF c.mount = page.mount THEN w ELSE view, calls \ {c}, made)
  BY TypedNow, TypedResume
<1> QED BY <1>1 DEF TabTyped, Resume, Alive

LEMMA ContinueTyped ==
  ASSUME TabInv, TabTyped, NEW c \in calls, c.page \in {"users", "schedules"},
         NEW kind, kind \in {"afterSave", "afterRun", "afterImport"},
         NEW a, kind = "afterSave" => a \in Listed(c.page),
         Continue(c, [view EXCEPT !.loading = TRUE], kind, a)
  PROVE  TabTyped'
<1> DEFINE w == [view EXCEPT !.loading = TRUE]
<1>1. w \in ViewType(page.name)
  BY TypedNow DEF ViewType
<1>2. CallTyped(NewCall(c.n, [name |-> c.page, mount |-> c.mount], kind, a))
  BY DEF CallTyped, NewCall, ListKinds
<1>3. c.mount = page.mount => page.name # "login"
  BY DEF TabInv, TabOK, AliveOK
<1> HIDE DEF w
<1>4. TypedTab(page, IF c.mount = page.mount THEN w ELSE view,
               (calls \ {c}) \cup {NewCall(c.n, [name |-> c.page, mount |-> c.mount], kind, a)}, made)
  BY <1>1, <1>2, <1>3, TypedNow, TypedContinue
<1> QED BY <1>4 DEF TabTyped, Continue, Alive, w
\* The answers that are listed.
LEMMA LoadedTyped ==
  ASSUME TabInv, TabTyped,
         loadDashboard \/ loadUserDetail \/ loadHistories \/ loadHistoryDetail \/ loadUsers
           \/ loadSchedules \/ loadMonth \/ loadTargets
  PROVE  TabTyped'
<1>1. view \in ViewType(page.name)
  BY TypedNow
<1>2. CASE \E c \in calls :
             /\ c.kind = "load" /\ c.got # Waiting /\ c.page # "login"
             /\ \/ Resume(c, [view EXCEPT !.shown = Shown(c), !.loading = FALSE])
                \/ Resume(c, [view EXCEPT !.loading = FALSE])
  <2>1. PICK c \in calls :
          /\ c.kind = "load" /\ c.got # Waiting /\ c.page # "login"
          /\ \/ Resume(c, [view EXCEPT !.shown = Shown(c), !.loading = FALSE])
             \/ Resume(c, [view EXCEPT !.loading = FALSE])
    BY <1>2, Zenon
  <2>2. c.mount = page.mount =>
          c.page = page.name /\ [view EXCEPT !.shown = Shown(c), !.loading = FALSE] \in ViewType(page.name)
    <3> HAVE c.mount = page.mount
    <3>1. c.page = page.name /\ Shown(c) \in SUBSET Listed(page.name)
      BY <2>1, ShownTyped DEF ListKinds
    <3> QED BY <1>1, <3>1 DEF ViewType
  <2>3. [view EXCEPT !.loading = FALSE] \in ViewType(page.name)
    BY <1>1 DEF ViewType
  <2>4. c.mount = page.mount => c.page = page.name
    BY <2>2
  <2> QED BY <2>1, <2>2, <2>3, <2>4, ResumeTyped
<1>3. CASE loadDashboard \/ loadUserDetail \/ loadHistories \/ loadHistoryDetail \/ loadUsers
             \/ loadSchedules
  <2>1. PICK name : Loaded(name) /\ name # "login"
    BY <1>3 DEF loadDashboard, loadUserDetail, loadHistories, loadHistoryDetail, loadUsers, loadSchedules
  <2> QED BY <1>2, <2>1, Zenon DEF Loaded, Answered
<1>4. CASE loadMonth
  <2>1. PICK c \in calls :
          Resume(c, MonthShown(c)) /\ c.kind = "load" /\ c.got # Waiting /\ c.page = "month"
    BY <1>4 DEF loadMonth, Answered
  <2>2. c.mount = page.mount => c.page = page.name /\ MonthShown(c) \in ViewType(page.name)
    <3> HAVE c.mount = page.mount
    <3>1. c.page = page.name /\ Shown(c) \in SUBSET Listed(page.name)
      BY <2>1, ShownTyped DEF ListKinds
    <3> DEFINE ids == IF c.got = Failed THEN view.selected ELSE view.selected \cap c.got
    <3>2. ids \in SUBSET Users
      BY <1>1 DEF ViewType
    <3>3. MonthShown(c) = [view EXCEPT !.shown = Shown(c), !.loading = FALSE, !.selected = ids]
      BY <1>1 DEF MonthShown, ViewType
    <3> HIDE DEF ids
    <3> QED BY <1>1, <3>1, <3>2, <3>3 DEF ViewType
  <2> QED BY <2>1, <2>2, ResumeTyped
<1>5. CASE loadTargets
  <2>1. CASE \E c \in calls : /\ c.kind = "load" /\ c.got # Waiting /\ c.page = "messages"
                              /\ Resume(c, [view EXCEPT !.loading = FALSE])
    BY <1>2, <2>1, Zenon
  <2>2. CASE \E c \in calls :
               /\ c.kind = "load" /\ c.got \notin {Waiting, Failed} /\ c.page = "messages"
               /\ Resume(c, [view EXCEPT !.shown = c.got, !.loading = FALSE,
                                         !.selected = @ \cup hydrateDashboardSelection(c.got)])
    <3>1. PICK c \in calls :
               /\ c.kind = "load" /\ c.got \notin {Waiting, Failed} /\ c.page = "messages"
               /\ Resume(c, [view EXCEPT !.shown = c.got, !.loading = FALSE,
                                         !.selected = @ \cup hydrateDashboardSelection(c.got)])
      BY <2>2, Zenon
    <3> DEFINE ids == view.selected \cup hydrateDashboardSelection(c.got)
               w == [view EXCEPT !.shown = c.got, !.loading = FALSE, !.selected = ids]
    <3>2. Resume(c, w)
      BY <1>1, <3>1 DEF ViewType
    <3>3. c.mount = page.mount => c.page = page.name /\ w \in ViewType(page.name)
      <4> HAVE c.mount = page.mount
      <4>1. c.page = page.name /\ c.got \in SUBSET Listed(page.name)
        BY <3>1, ShownTyped DEF ListKinds
      <4>2. ids \in SUBSET Users
        BY <1>1, <3>1, <4>1 DEF ViewType, hydrateDashboardSelection, Listed
      <4> HIDE DEF ids
      <4> QED BY <1>1, <4>1, <4>2 DEF ViewType
    <3> HIDE DEF w
    <3> QED BY <3>1, <3>2, <3>3, ResumeTyped
  <2> QED BY <1>5, <2>1, <2>2, Zenon DEF loadTargets, Answered
<1> QED BY <1>3, <1>4, <1>5

\* The flags are given back.
LEMMA FlagsTyped ==
  ASSUME TabInv, TabTyped,
         submitAnswered \/ backfillAnswered \/ userBackfillAnswered \/ usernameResolved
  PROVE  TabTyped'
<1>1. view \in ViewType(page.name)
  BY TypedNow
<1>2. CASE submitAnswered \/ backfillAnswered \/ userBackfillAnswered
  <2>1. PICK c \in calls : /\ Resume(c, [view EXCEPT !.saving = FALSE])
                           /\ c.page \in {"messages", "backfill", "user"} /\ c.got # Waiting
    BY <1>2 DEF submitAnswered, backfillAnswered, userBackfillAnswered, SubmitAnswered, Answered
  <2>2. [view EXCEPT !.saving = FALSE] \in ViewType(page.name)
    BY <1>1 DEF ViewType
  <2>3. c.mount = page.mount => c.page = page.name
    BY <2>1, ShownTyped
  <2> QED BY <2>1, <2>2, <2>3, ResumeTyped
<1>3. CASE usernameResolved
  <2>1. PICK c \in calls : /\ Resume(c, Resolved(view, c.got)) /\ c.page = "users"
                           /\ c.kind = "resolve" /\ c.got # Waiting
    BY <1>3 DEF usernameResolved, Answered
  <2>2. c.mount = page.mount => c.page = page.name
    BY <2>1, ShownTyped
  <2>3. CallTyped(c)
    BY TypedNow
  <2>4. c.got # Failed => c.got \in Row \cup {NewRow}
    BY <2>1, <2>3 DEF CallTyped
  <2>5. Resolved(view, c.got) \in ViewType(page.name)
    BY <1>1, <2>4 DEF ViewType, Content, Resolved
  <2> QED BY <2>1, <2>2, <2>5, ResumeTyped
<1> QED BY <1>2, <1>3

\* The answers after which the list is loaded again.
LEMMA WorkTyped ==
  ASSUME TabInv, TabTyped,
         scheduleSaved \/ userSaved \/ runAnswered \/ importAnswered
  PROVE  TabTyped'
<1>1. view \in ViewType(page.name)
  BY TypedNow
<1>2. CASE \E name \in {"users", "schedules"} : SaveAnswered(name)
  <2>1. PICK c \in calls :
          /\ c.page \in {"users", "schedules"} /\ c.kind = "save" /\ c.got # Waiting
          /\ IF c.got = Failed THEN Resume(c, [view EXCEPT !.saving = FALSE])
             ELSE Continue(c, [view EXCEPT !.loading = TRUE], "afterSave", c.got)
    BY <1>2 DEF SaveAnswered, Answered
  <2>2. [view EXCEPT !.saving = FALSE] \in ViewType(page.name)
    BY <1>1 DEF ViewType
  <2>3. c.mount = page.mount => c.page = page.name
    BY <2>1, ShownTyped
  <2>4. CallTyped(c)
    BY TypedNow
  <2>5. c.got # Failed => c.got \in Listed(c.page)
    BY <2>1, <2>4 DEF CallTyped
  <2> QED BY <2>1, <2>2, <2>3, <2>5, ResumeTyped, ContinueTyped
<1>3. CASE \/ \E c \in Answered("schedules", "run") :
                IF c.got = Failed THEN Resume(c, RunDone(view, None))
                ELSE Continue(c, [view EXCEPT !.loading = TRUE], "afterRun", c.got)
           \/ \E c \in Answered("users", "import") :
                IF c.got = Failed THEN Resume(c, ImportDone(view, None))
                ELSE Continue(c, [view EXCEPT !.loading = TRUE], "afterImport", None)
  <2>1. PICK c \in calls :
          /\ c.page \in {"users", "schedules"} /\ c.got # Waiting
          /\ \/ Resume(c, RunDone(view, None)) \/ Resume(c, ImportDone(view, None))
             \/ \E kind \in {"afterRun", "afterImport"} : \E a :
                  Continue(c, [view EXCEPT !.loading = TRUE], kind, a)
    BY <1>3 DEF Answered
  <2>2. RunDone(view, None) \in ViewType(page.name) /\ ImportDone(view, None) \in ViewType(page.name)
    BY <1>1 DEF ViewType, RunDone, ImportDone
  <2>3. c.mount = page.mount => c.page = page.name
    BY <2>1, ShownTyped
  <2>4. CASE Resume(c, RunDone(view, None)) \/ Resume(c, ImportDone(view, None))
    BY <2>1, <2>2, <2>3, <2>4, ResumeTyped
  <2>5. CASE \E kind \in {"afterRun", "afterImport"} : \E a :
               Continue(c, [view EXCEPT !.loading = TRUE], kind, a)
    <3>1. PICK kind, a : /\ kind \in {"afterRun", "afterImport"}
                         /\ Continue(c, [view EXCEPT !.loading = TRUE], kind, a)
      BY <2>5
    <3> QED BY <2>1, <3>1, ContinueTyped
  <2> QED BY <2>1, <2>4, <2>5
<1>4. CASE \/ Reloaded("schedules", "afterSave", ScheduleSaved)
           \/ Reloaded("users", "afterSave", UserSaved)
           \/ Reloaded("schedules", "afterRun", RunDone)
           \/ Reloaded("users", "afterImport", ImportDone)
  <2> DEFINE u(c) == [view EXCEPT !.shown = Shown(c), !.loading = FALSE]
  <2>1. PICK c \in calls :
          /\ c.page \in {"users", "schedules"} /\ c.kind \in ListKinds /\ c.got # Waiting
          /\ \/ /\ c.kind = "afterSave"
                /\ Resume(c, ScheduleSaved(u(c), c.arg)) \/ Resume(c, UserSaved(u(c), c.arg))
             \/ Resume(c, RunDone(u(c), c.arg)) \/ Resume(c, ImportDone(u(c), c.arg))
    BY <1>4, Zenon DEF Reloaded, Answered, ListKinds
  <2>2. c.mount = page.mount => c.page = page.name /\ u(c) \in ViewType(page.name)
    <3> HAVE c.mount = page.mount
    <3>1. c.page = page.name /\ Shown(c) \in SUBSET Listed(page.name)
      BY <2>1, ShownTyped
    <3> QED BY <1>1, <3>1 DEF ViewType
  <2>3. CallTyped(c)
    BY TypedNow
  <2>4. c.kind = "afterSave" => c.arg \in Row
    BY <2>1, <2>3, ListedRows DEF CallTyped
  <2> HIDE DEF u
  <2>5. c.mount = page.mount /\ c.kind = "afterSave" =>
          /\ ScheduleSaved(u(c), c.arg) \in ViewType(page.name)
          /\ UserSaved(u(c), c.arg) \in ViewType(page.name)
    <3> HAVE c.mount = page.mount /\ c.kind = "afterSave"
    <3>1. FieldsOf(c.arg) \in Content
      BY <2>4 DEF FieldsOf, Content
    <3>2. editRow(u(c), c.arg) \in ViewType(page.name)
      BY <2>2, <2>4, <3>1 DEF ViewType, editRow
    <3> QED BY <2>2, <2>4, <3>2 DEF ViewType, ScheduleSaved, UserSaved
  <2>6. c.mount = page.mount =>
          RunDone(u(c), c.arg) \in ViewType(page.name) /\ ImportDone(u(c), c.arg) \in ViewType(page.name)
    BY <2>2 DEF ViewType, RunDone, ImportDone
  <2>7. c.page # "login"
    BY <2>1
  <2> QED BY <2>1, <2>2, <2>5, <2>6, <2>7, ResumeTyped
<1>5. CASE scheduleSaved \/ userSaved
  BY <1>2, <1>4, <1>5 DEF scheduleSaved, userSaved
<1>6. CASE runAnswered \/ importAnswered
  BY <1>3, <1>4, <1>6 DEF runAnswered, importAnswered
<1> QED BY <1>5, <1>6
\* What the server answers.
LEMMA ListingsTyped ==
  ASSUME NEW c, CallTyped(c), c.kind \in ListKinds, NEW ids \in Listings(c)
  PROVE  ids \subseteq Listed(c.page)
<1>1. /\ c.page \in PageNames \ {"login", "backfill"}
      /\ c.page \in {"user", "history"} => ParamOK(c.page, c.arg)
  BY DEF CallTyped, ListKinds, PageNames
<1>2. CASE c.page = "month"
  <2>1. ids = DOMAIN monthUsers(c.arg.month)
    BY <1>2 DEF Listings
  <2>2. ids = loadActiveUsers
    BY <2>1 DEF monthUsers
  <2> QED BY <1>2, <2>2 DEF loadActiveUsers, Listed
<1>3. CASE c.page \in {"messages", "users"}
  BY <1>3 DEF Listings, Listed, listTargets
<1>4. CASE c.page \in {"schedules", "histories", "dashboard"}
  BY <1>4 DEF Listings, Listed, listSchedules
<1>5. CASE c.page \in {"user", "history"}
  BY <1>1, <1>5 DEF Listings, Listed, ParamOK
<1> QED BY <1>1, <1>2, <1>3, <1>4, <1>5 DEF PageNames

LEMMA ServeTyped ==
  ASSUME TabInv, TabTyped, TablesTyped, Serve
  PROVE  TabTyped' /\ TablesTyped'
<1>1. PICK c \in calls :
        ServeLoad(c) \/ ServeSave(c) \/ ServeImport(c) \/ ServeResolve(c)
          \/ ServeWork(c) \/ ServeLogin(c) \/ Refuse(c)
  BY DEF Serve
<1>2. page' = page /\ view' = view /\ made' = made
  BY DEF Serve
<1>3. CallTyped(c) /\ DOMAIN c = CallFields
  BY TypedNow DEF TabInv, TabOK, CallOK
<1>4. PICK got : /\ Respond(c, got)
                 /\ c.kind \in ListKinds => got = Failed \/ got \subseteq Listed(c.page)
                 /\ c.kind = "save" => got = Failed \/ got \in Listed(c.page)
                 /\ c.kind = "resolve" => got \in Row \cup {NewRow, Failed}
  <2>1. CASE ServeLoad(c)
    <3>1. PICK ids \in Listings(c) : Respond(c, ids)
      BY <2>1 DEF ServeLoad
    <3>2. ids \subseteq Listed(c.page)
      BY <1>3, <2>1, <3>1, ListingsTyped DEF ServeLoad, ListKinds
    <3> QED BY <2>1, <3>1, <3>2 DEF ServeLoad
  <2>2. CASE ServeSave(c)
    <3>1. c.kind = "save" /\ c.page \in {"users", "schedules"}
      BY <1>3, <2>2 DEF ServeSave, CallTyped
    <3>2. \E k \in IF c.page = "users" THEN Users ELSE Reminders : \E got \in {k, Failed} : Respond(c, got)
      BY <2>2 DEF ServeSave
    <3> QED BY <3>1, <3>2 DEF Listed, ListKinds
  <2>3. CASE ServeImport(c)
    BY <2>3 DEF ServeImport, ListKinds
  <2>4. CASE ServeResolve(c) \/ ServeWork(c) \/ ServeLogin(c)
    BY <1>3, <2>4 DEF ServeResolve, ServeWork, ServeLogin, ListKinds, CallTyped
  <2>5. CASE Refuse(c)
    BY <2>5 DEF Refuse
  <2> QED BY <1>1, <2>1, <2>2, <2>3, <2>4, <2>5
<1>5. TabTyped'
  <2> DEFINE k == [c EXCEPT !.got = got]
  <2>1. k.kind = c.kind /\ k.page = c.page /\ k.arg = c.arg /\ k.got = got
    BY <1>3 DEF CallFields
  <2> HIDE DEF k
  <2>2. CallTyped(k)
    BY <1>3, <1>4, <2>1 DEF CallTyped
  <2>3. TypedTab(page, view, (calls \ {c}) \cup {k}, made)
    BY <1>3, <2>2, TypedNow, TypedRespond DEF k
  <2> QED BY <1>2, <1>4, <2>3 DEF TabTyped, Respond, k
<1>6. TablesTyped'
  <2>1. CASE ServeSave(c)
    <3>1. c.arg.form \in Content
      BY <1>3, <2>1 DEF ServeSave, CallTyped
    <3>2. PICK k \in Row :
            /\ \/ rows' = [rows EXCEPT ![k] = Created(k, c.arg.form)]
               \/ rows' = [rows EXCEPT ![k] = c.arg.form]
            /\ IF k \in Users
               THEN \E s \in {"active", "inactive"} : userStatus' = [userStatus EXCEPT ![k] = s]
               ELSE userStatus' = userStatus
      BY <2>1 DEF ServeSave, Row
    <3>3. Created(k, c.arg.form) \in Content
      BY <3>1, <3>2 DEF Created, Content
    <3>4. PICK content \in Content : rows' = [rows EXCEPT ![k] = content]
      BY <3>1, <3>2, <3>3
    <3>5. content # None
      BY ConsoleAssumption
    <3>6. rows' \in [Row -> Content \cup {None}]
      BY <3>4 DEF TablesTyped
    <3>7. CASE k \in Users
      <4>1. PICK s \in {"active", "inactive"} : userStatus' = [userStatus EXCEPT ![k] = s]
        BY <3>2, <3>7
      <4> QED BY <3>2, <3>4, <3>5, <3>6, <4>1 DEF TablesTyped, UserStatuses, Row
    <3>8. CASE k \notin Users
      BY <3>2, <3>4, <3>6, <3>8 DEF TablesTyped, Row
    <3> QED BY <3>7, <3>8
  <2>2. CASE ServeImport(c)
    <3>1. /\ rows' = [k \in Row |-> IF k \in c.arg.rows THEN FieldsOf(k) ELSE rows[k]]
          /\ userStatus' = [u \in Users |-> IF u \in c.arg.rows THEN "active" ELSE userStatus[u]]
      BY <2>2 DEF ServeImport
    <3>2. c.arg.rows \subseteq Users
      BY <1>3, <2>2 DEF ServeImport, CallTyped
    <3>3. \A k \in Row : FieldsOf(k) \in Content /\ FieldsOf(k) # None
      BY ConsoleAssumption DEF FieldsOf, Content
    <3> QED BY <3>1, <3>2, <3>3 DEF TablesTyped, UserStatuses, Row
  <2>3. CASE UNCHANGED <<rows, userStatus>>
    BY <2>3 DEF TablesTyped
  <2> QED BY <1>1, <2>1, <2>2, <2>3
       DEF ServeLoad, ServeResolve, ServeWork, ServeLogin, Refuse, Keep
<1> QED BY <1>5, <1>6

LEMMA TypeInductive == TabInv /\ TypeInv /\ [Next]_vars => TypeInv'
<1> SUFFICES ASSUME TabInv, TypeInv, [Next]_vars
             PROVE  TypeInv'
  OBVIOUS
<1> USE DEF TypeInv
<1>1. CASE Serve
  BY <1>1, ServeTyped DEF Serve
<1>2. CASE SwitchedElsewhere
  <2>1. PICK u \in Users, s \in {"active", "inactive"} :
          userStatus[u] # "absent" /\ userStatus' = [userStatus EXCEPT ![u] = s]
    BY <1>2 DEF SwitchedElsewhere, listTargets
  <2>2. TablesTyped'
    BY <1>2, <2>1 DEF SwitchedElsewhere, TablesTyped, UserStatuses
  <2>3. made' = made + 1 /\ page' = page /\ view' = view /\ calls' = calls /\ stored' = stored
    BY <1>2 DEF SwitchedElsewhere
  <2>4. TabTyped'
    BY <2>3 DEF TabTyped, TypedTab
  <2> QED BY <2>2, <2>3, <2>4
<1>3. CASE Tab
  <2>1. TablesTyped'
    BY <1>3 DEF Tab, TablesTyped, reportVars
  <2>2. CASE Act
    <3>1. CASE login \/ logout \/ Visit \/ watchMonth \/ watchUser \/ watchHistory
      <4>1. stored' = stored
        BY <3>1 DEF login, logout, Visit, watchMonth, watchUser, watchHistory, Rewatch
      <4> QED BY <2>1, <3>1, <4>1, LoginTyped, MountTyped, RewatchTyped
    <3>2. CASE reload \/ changeSort \/ changeFilter \/ submit \/ submitBackfill \/ submitUserBackfill
                 \/ saveSchedule \/ saveUser \/ resolveUsername \/ runNow \/ importCsv
      <4>1. stored' = stored
        BY <3>2 DEF reload, changeSort, changeFilter, Again, submit, submitBackfill, submitUserBackfill,
                    Backfill, saveSchedule, saveUser, Save, resolveUsername, runNow, importCsv
      <4> QED BY <2>1, <3>2, <4>1, RequestTyped
    <3>3. CASE selectUsers \/ selectTargets \/ openBackfillModal \/ closeBackfillModal
                 \/ closeSchedule \/ openSchedule \/ openUser \/ closeUser
      <4>1. stored' = stored
        BY <3>3, Zenon
           DEF selectUsers, selectTargets, Select, openBackfillModal, closeBackfillModal,
               closeSchedule, closeUser, openSchedule, openUser, OpenForm, Do
      <4> QED BY <2>1, <3>3, <4>1, DoTyped
    <3>4. CASE sendSelectedToMessages
      <4>1. stored' = view.selected /\ view.selected \subseteq Users
        BY <3>4, TypedNow DEF sendSelectedToMessages, storeDashboardSelectedTargetIds, ViewType
      <4> QED BY <2>1, <3>4, <4>1, MountTyped
    <3> QED BY <2>2, <3>1, <3>2, <3>3, <3>4 DEF Act
  <2>3. CASE Handle
    <3>1. CASE LoggedIn
      <4>1. stored' = stored
        BY <3>1 DEF LoggedIn
      <4> QED BY <2>1, <3>1, <4>1, LoginTyped
    <3>2. CASE loadDashboard \/ loadUserDetail \/ loadHistories \/ loadHistoryDetail \/ loadUsers
                 \/ loadSchedules \/ loadMonth \/ loadTargets
      <4>1. stored' \subseteq Users
        <5>1. CASE loadTargets
          BY <5>1, Zenon DEF loadTargets
        <5>2. CASE ~loadTargets
          BY <3>2, <5>2, Zenon
             DEF loadDashboard, loadUserDetail, loadHistories, loadHistoryDetail, loadUsers,
                 loadSchedules, loadMonth, Loaded
        <5> QED BY <5>1, <5>2
      <4> QED BY <2>1, <3>2, <4>1, LoadedTyped
    <3>3. CASE submitAnswered \/ backfillAnswered \/ userBackfillAnswered \/ usernameResolved
      <4>1. stored' = stored
        BY <3>3, Zenon
           DEF submitAnswered, backfillAnswered, userBackfillAnswered, SubmitAnswered, usernameResolved
      <4> QED BY <2>1, <3>3, <4>1, FlagsTyped
    <3>4. CASE scheduleSaved \/ userSaved \/ runAnswered \/ importAnswered
      <4>1. stored' = stored
        BY <3>4, Zenon DEF scheduleSaved, userSaved, runAnswered, importAnswered, SaveAnswered, Reloaded
      <4> QED BY <2>1, <3>4, <4>1, WorkTyped
    <3> QED BY <2>3, <3>1, <3>2, <3>3, <3>4 DEF Handle
  <2> QED BY <1>3, <2>2, <2>3 DEF Tab
<1>4. CASE (TablesStep /\ UNCHANGED consoleVars) \/ UNCHANGED vars
  <2>1. UNCHANGED <<page, view, calls, made, stored, rows>>
    BY <1>4 DEF consoleVars, vars
  <2>2. userStatus' = userStatus
    BY <1>4 DEF TablesStep, Tick, Record, Settle, vars
  <2> QED BY <2>1, <2>2 DEF TabTyped, TablesTyped
<1> QED BY <1>1, <1>2, <1>3, <1>4 DEF Next

LEMMA TypeInitially == Init => TypeInv
<1> SUFFICES ASSUME Init PROVE TypeInv
  OBVIOUS
<1>1. PageTyped(page)
  <2>1. 1 \in 1..(MaxMounts + 1) /\ 1 <= MaxMounts
    BY ConsoleAssumption
  <2>2. CASE page = LoginPage(1)
    BY <2>1, <2>2 DEF PageTyped, LoginPage, PageNames, ParamOK
  <2>3. CASE \E route \in Routes : page = PageOf(route, 1)
    <3>1. PICK route \in Routes : page = PageOf(route, 1)
      BY <2>3
    <3>2. route.name \in PageNames \ {"login"} /\ ParamOK(route.name, route.arg)
      BY <3>1 DEF Routes, PageNames, ParamOK
    <3> QED BY <2>1, <3>1, <3>2 DEF PageTyped, PageOf
  <2> QED BY <2>2, <2>3, Zenon DEF Init
<1>2. view = Mounted(page) /\ view \in ViewType(page.name)
  BY DEF Init, Mounted, ViewType, Loads, Blank, Content
<1> DEFINE first == NewCall(1, page, "load", page.arg)
<1>3. /\ calls = (IF Loads(page) THEN {first} ELSE {})
      /\ made \in Cardinality(calls)..MaxCalls
  BY DEF Init
<1>4. first.n = 1 /\ first.page = page.name /\ (Loads(page) => CallTyped(first))
  BY <1>1 DEF NewCall, CallTyped, ListKinds, PageTyped, Loads
<1> HIDE DEF first
<1>5. made \in Nat /\ \A c \in calls : c.n <= made
  <2>1. Cardinality(calls) = IF Loads(page) THEN 1 ELSE 0
    BY <1>3, FS_Singleton, FS_EmptySet
  <2> QED BY <1>3, <1>4, <2>1, ConsoleAssumption
<1>6. TabTyped
  BY <1>1, <1>2, <1>3, <1>4, <1>5 DEF TabTyped, TypedTab, Loads
<1>7. TablesTyped
  <2>1. userStatus \in [Users -> UserStatuses]
    BY DEF Init, ReportingInit
  <2>2. PICK present \in SUBSET Reminders :
          rows = [k \in Row |-> IF k \in present \/ (k \in Users /\ userStatus[k] # "absent")
                                THEN FieldsOf(k) ELSE None]
    BY DEF Init
  <2>3. \A k \in Row : FieldsOf(k) \in Content /\ FieldsOf(k) # None
    BY ConsoleAssumption DEF FieldsOf, Content
  <2> QED BY <2>1, <2>2, <2>3, ConsoleAssumption DEF TablesTyped, Row
<1> QED BY <1>6, <1>7 DEF TypeInv, Init

(* Every page shows what belongs to it, a form holds rows that a form can be opened
   for, and a user has fields exactly when it has a row, for any number of pages,
   calls and late answers.  The login page is left only by the answer to its one
   call: without that the pages could not be counted. *)
THEOREM ConsoleTypeCorrect == Spec => []TypeOK
<1>1. TypeInv => TypeOK
  <2> SUFFICES ASSUME TypeInv PROVE TypeOK
    OBVIOUS
  <2>1. view \in ViewType(page.name) /\ PageTyped(page)
    BY TypedNow DEF TypeInv
  <2>2. /\ view.shown \subseteq Row \cup Campaigns /\ view.selected \subseteq Users
        /\ {view.loading, view.saving, view.resolving, view.importing, view.open} \subseteq BOOLEAN
        /\ view.editing \in Row \cup {None} /\ view.form \in Content
        /\ view.running \in Reminders \cup {None}
    BY <2>1, ListedRows DEF ViewType
  <2> QED BY <2>1, <2>2 DEF TypeOK, TypeInv, TabTyped, TypedTab, TablesTyped, PageTyped
<1> QED BY <1>1, TypeInitially, TypeInductive, TabInitially, TabInductive, PTL DEF Spec
=============================================================================
