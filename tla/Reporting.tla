----------------------------- MODULE Reporting -----------------------------
(***************************************************************************)
(* What the statistics and the reminders read from the media_item and        *)
(* user_tu tables: the heatmap of a year, the users of a month, the users    *)
(* without an image, a user's days, the failed uploads and the recipients of *)
(* a reminder.  Each is an operator of the tables and the time, computed     *)
(* from its own query; the properties compare them with each other.          *)
(*                                                                          *)
(* The tables are found in any state.  Messages are recorded, files are      *)
(* uploaded or fail, and time passes while the reports are read; the rows of *)
(* user_tu are changed by AdminConsole, which extends this module.           *)
(***************************************************************************)
EXTENDS ReportingCycle, FiniteSets, FiniteSetsExt

CONSTANTS
  Users,       \* senders, each in a chat of its own: the rows user_tu has or may get
  NoSender,    \* the sender of an item that has none
  Items,       \* rows of media_item
  NoRow,       \* an item that is not recorded yet
  Instants,    \* bound: the times of messages and of requests
  Types,       \* media types of the instance
  Years,       \* bound: the years that are reported
  Schedules,   \* bound: [days, hour, zone] of reminder schedules
  Horizon,     \* bound: the days nextRunLabel looks ahead, 370 in the code
  HistoryDays, \* the days a user's page asks for, 90 in the code
  FailedTake,  \* the failed items the dashboard reads, 100 in the code
  FailedLines, \* the lines it makes of them, 10 in the code
  MaxChanges   \* bound: changes of the tables

ASSUME TablesAssumption ==
  /\ Instants \subseteq Int /\ MaxChanges \in Nat /\ Horizon \in Nat
  /\ HistoryDays \in Nat \ {0} /\ FailedTake \in Nat \ {0} /\ FailedLines \in Nat \ {0}
  /\ Types \subseteq {"photo", "video", "document"}
  /\ IsFiniteSet(Items) /\ IsFiniteSet(Users) /\ NoSender \notin Users
  /\ \A t \in Instants : DateIn(t, 0) \in Days /\ DateIn(t, Offset) \in Days
\* Every schedule has a date within the days nextRunLabel looks ahead.
ASSUME SchedulesAssumption ==
  \A s \in Schedules : /\ s.hour \in 0..(DayLength - 1) /\ s.zone \in Int
                       /\ \A t \in Instants : NextDates(s, t, Horizon) # {}

VARIABLES
  now,         \* the time at the server
  media,       \* the media_item table
  userStatus,  \* the status column of user_tu; "absent" when there is no row
  changes      \* changes of the tables left

reportVars == <<now, media, userStatus, changes>>

Senders == Users \cup {NoSender}
UserStatuses == {"active", "inactive", "absent"}
\* One stands for the statuses on the way to uploaded, and one for skipped and deleted.
Statuses == {"queued", "uploaded", "failed", "skipped"}
MediaRow == [sender : Senders, type : Types, status : Statuses, date : Instants]

ReportingInit ==
  /\ now \in Instants
  /\ media \in [Items -> MediaRow \cup {NoRow}]
  /\ userStatus \in [Users -> UserStatuses]
  /\ changes \in 0..MaxChanges
----------------------------------------------------------------------------
(* The tables change *)

Change == changes > 0 /\ changes' = changes - 1

Tick == Change /\ now' \in {t \in Instants : t > now} /\ UNCHANGED <<media, userStatus>>

\* A message is recorded, which may be long after its date.
Record(i) ==
  /\ Change /\ media[i] = NoRow
  /\ \E r \in MediaRow : r.status = "queued" /\ r.date <= now /\ media' = [media EXCEPT ![i] = r]
  /\ UNCHANGED <<now, userStatus>>

\* The pipeline brings an item to rest.
Settle(i) ==
  /\ Change /\ media[i] # NoRow /\ media[i].status = "queued"
  /\ \E s \in Statuses \ {"queued"} : media' = [media EXCEPT ![i].status = s]
  /\ UNCHANGED <<now, userStatus>>

TablesStep ==
  \/ Tick
  \/ \E i \in Items : Record(i) \/ Settle(i)
----------------------------------------------------------------------------
(* The queries *)

Recorded == {i \in Items : media[i] # NoRow}
Uploaded(window) ==
  {i \in Recorded : media[i].status = "uploaded" /\ InWindow(media[i].date, window)}
Of(sender, items) == {i \in items : media[i].sender = sender}
OfType(type, items) == {i \in items : media[i].type = type}

loadActiveUsers == {u \in Users : userStatus[u] = "active"}

\* Per sender, of the uploaded items of a window.
loadUploadedMediaBuckets(window) ==
  [s \in Users |->
     LET mine == Of(s, Uploaded(window))
     IN  [photo |-> Cardinality(OfType("photo", mine)),
          video |-> Cardinality(OfType("video", mine)),
          document |-> Cardinality(OfType("document", mine)),
          total |-> Cardinality(mine)]]

MonthsOf(year) == (12 * year)..(12 * year + 11)

\* The calendar holds the years that are reported, and the month before.
ASSUME YearsAssumption ==
  \A y \in Years : y \in Int /\ MonthsOf(y) \subseteq (FirstMonth + 1)..LastMonth

\* One query over the year; each row goes to the month its date's key names.
monthlyHeatmap(year) ==
  LET span == [start |-> monthWindowFromParts(12 * year).start,
               end |-> monthWindowFromParts(12 * year + 11).end]
      InMonth(k) == {i \in Uploaded(span) : monthKeyFromDate(media[i].date) = k}
  IN  [k \in MonthsOf(year) |-> [total_media |-> Cardinality(InMonth(k)),
                                 active_users |-> Cardinality({media[i].sender : i \in InMonth(k)} \ {NoSender})]]

monthUsers(k) ==
  LET buckets == loadUploadedMediaBuckets(monthWindowFromParts(k))
  IN  [u \in loadActiveUsers |-> buckets[u]]

currentMonthMissingImageUsers(t) ==
  {u \in loadActiveUsers :
     loadUploadedMediaBuckets(monthWindowFromParts(monthKeyFromDate(t)))[u].photo = 0}

\* The newest dates, as many as the page asks for, on which a user has posted, in the
\* time zone of the reports.  What was skipped or deleted counts in the total only.
Newest(n, dates) == {d \in dates : Cardinality({e \in dates : e > d}) < n}
DaysOf(u) == {DateIn(media[i].date, Offset) : i \in Of(u, Recorded)}

\* Mutant: the days of UTC.
HistoryUTC(u) ==
  LET mine == Of(u, Recorded)
      On(d) == {i \in mine : DateIn(media[i].date, 0) = d}
  IN  [d \in Newest(HistoryDays, {DateIn(media[i].date, 0) : i \in mine}) |->
         [total_media |-> Cardinality(On(d)),
          uploaded_count |-> Cardinality({i \in On(d) : media[i].status = "uploaded"}),
          failed_count |-> Cardinality({i \in On(d) : media[i].status = "failed"}),
          pending_count |-> Cardinality({i \in On(d) : media[i].status = "queued"})]]
userUploadHistory(u) ==
  LET mine == Of(u, Recorded)
      On(d) == {i \in mine : DateIn(media[i].date, Offset) = d}
  IN  [d \in Newest(HistoryDays, DaysOf(u)) |->
         [total_media |-> Cardinality(On(d)),
          uploaded_count |-> Cardinality({i \in On(d) : media[i].status = "uploaded"}),
          failed_count |-> Cardinality({i \in On(d) : media[i].status = "failed"}),
          pending_count |-> Cardinality({i \in On(d) : media[i].status = "queued"})]]

\* The failed uploads of the dashboard: of the newest failed items, one line for each
\* sender and local date, and of those the newest.  When an item failed is not in the
\* model: these are the answers for every order of the failures.
Failures == {i \in Recorded : media[i].status = "failed" /\ media[i].sender # NoSender}
FailureKey(i) == [sender |-> media[i].sender, date |-> formatAnalyticsDate(media[i].date)]
TakeOf(n, S) == IF Cardinality(S) <= n THEN {S} ELSE kSubset(n, S)

FailedUploads ==
  UNION {{[e \in keys |-> Cardinality({i \in taken : FailureKey(i) = e})] :
            keys \in TakeOf(FailedLines, {FailureKey(i) : i \in taken})} :
         taken \in TakeOf(FailedTake, Failures)}

\* The summary of a day, sent by the bot: a date is a day of UTC here, and a document
\* is none of the media.
DayUTC(d) == [start |-> DayLength * d, end |-> DayLength * (d + 1) - 1]
PostedOn(d) == {i \in Recorded : InWindow(media[i].date, DayUTC(d)) /\ media[i].sender # NoSender}
WithStatus(status, items) == {i \in items : media[i].status = status}

today(d) ==
  [u \in loadActiveUsers |->
     LET mine == Of(u, PostedOn(d))
     IN  [photo |-> Cardinality(OfType("photo", mine)),
          video |-> Cardinality(OfType("video", mine)),
          success |-> Cardinality(WithStatus("uploaded", mine)),
          failed |-> Cardinality(WithStatus("failed", mine))]]

\* Whom the message names: those with media.
formatSummary(summary) == {u \in DOMAIN summary : summary[u].photo + summary[u].video > 0}

\* The same day on the dashboard.
today_summary(t) ==
  LET received == {i \in Recorded : InWindow(media[i].date, DayUTC(DateIn(t, 0)))}
  IN  [total_received |-> Cardinality(received),
       total_uploaded |-> Cardinality(WithStatus("uploaded", received)),
       total_failed |-> Cardinality(WithStatus("failed", received)),
       active_users |-> Cardinality({media[i].sender : i \in received} \ {NoSender})]

\* The recipients of a reminder of rule no_media_current_period, or of every user.
resolveTargetIds(rule, t) ==
  IF rule = "all_active_users" THEN loadActiveUsers
  ELSE {u \in loadActiveUsers : Of(u, Uploaded(currentReportingWindow(t))) = {}}
----------------------------------------------------------------------------
(* Properties *)

\* The heatmap of a year counts every uploaded item of its twelve cycles once, and
\* in the month whose page counts it: what the heatmap shows for a month is what the
\* users of the month have, with what others posted.  One is computed from the key
\* of each date, the other from the window of the month (stats.service.ts).
MonthsAddUp ==
  \A y \in Years :
    LET heatmap == monthlyHeatmap(y)
    IN  \A k \in MonthsOf(y) :
          LET users == monthUsers(k)
              others == {i \in Uploaded(monthWindowFromParts(k)) : media[i].sender \notin loadActiveUsers}
          IN  heatmap[k].total_media =
                MapThenSumSet(LAMBDA u : users[u].total, loadActiveUsers) + Cardinality(others)

\* A user's uploaded items of a month are those of the days shown as its cycle, if the
\* page reaches back to the cycle's first day or shows every day there is; and at
\* least those in any case.
CycleDays(u, history, k) ==
  LET window == monthWindowFromParts(k)
      first == formatAnalyticsDate(window.start)
      shown == {d \in DOMAIN history : first <= d /\ d <= formatAnalyticsDate(window.end)}
      sum == MapThenSumSet(LAMBDA d : history[d].uploaded_count, shown)
      whole == DOMAIN history = DaysOf(u) \/ \E d \in DOMAIN history : d <= first
  IN  /\ sum <= monthUsers(k)[u].total
      /\ whole => sum = monthUsers(k)[u].total

\* A line of the dashboard's failed uploads counts no more than the user's page counts
\* for its date, and the same unless there are more failed items than the dashboard
\* reads; if neither its items nor its lines are cut, every day a page shows with
\* failures has its line.
FailureDays ==
  LET allTaken == Cardinality(Failures) <= FailedTake
      allShown == Cardinality({FailureKey(i) : i \in Failures}) <= FailedLines
  IN  \A lines \in FailedUploads :
        /\ \A e \in DOMAIN lines :
             LET history == userUploadHistory(e.sender)
             IN  e.date \in DOMAIN history =>
                   /\ lines[e] <= history[e.date].failed_count
                   /\ allTaken => lines[e] = history[e.date].failed_count
        /\ allTaken /\ allShown =>
             \A u \in Users : \A d \in DOMAIN userUploadHistory(u) :
               userUploadHistory(u)[d].failed_count > 0 => [sender |-> u, date |-> d] \in DOMAIN lines

\* A backfill started from a day of a user's page reads that day's messages.
BackfillDays(u, history) ==
  \A d \in DOMAIN history :
    history[d].total_media =
      Cardinality(Of(u, {i \in Recorded : InWindow(media[i].date, backfillWindow(d, d))}))

\* The bot and the dashboard report the same day: what the dashboard counts is what
\* the bot counts for each user, with what others posted.
Summaries ==
  LET rows == today(DateIn(now, 0))
      others == {i \in Recorded : InWindow(media[i].date, DayUTC(DateIn(now, 0)))
                                   /\ media[i].sender \notin loadActiveUsers}
      Total(status, Count(_)) ==
        MapThenSumSet(Count, loadActiveUsers) + Cardinality(WithStatus(status, others))
  IN  /\ today_summary(now).total_uploaded = Total("uploaded", LAMBDA u : rows[u].success)
      /\ today_summary(now).total_failed = Total("failed", LAMBDA u : rows[u].failed)
      /\ Cardinality(formatSummary(rows)) <= today_summary(now).active_users

\* The dates of the pages are one calendar, up to the limits of the queries: the database groups a user's days by
\* adding hours, the months are windows of instants, the failed uploads are grouped
\* by a formatted date and a backfill parses the date again; the bot and the dashboard
\* agree on the day of UTC they sum up (stats.service.ts, media-backfill.controller.ts,
\* bot.service.ts).
DaysAgree ==
  /\ \A u \in loadActiveUsers :
       LET history == userUploadHistory(u)
       IN  /\ \A y \in Years : \A k \in MonthsOf(y) : CycleDays(u, history, k)
           /\ BackfillDays(u, history)
  /\ FailureDays
  /\ Summaries

\* Whoever is reminded of missing media has none on the page of the current month,
\* and whoever has none is reminded; they are all on the list of users without an
\* image.  reminder-schedules.service.ts and stats.service.ts each compute the current
\* cycle in a way of their own.
RemindedAreListed ==
  LET reminded == resolveTargetIds("no_media_current_period", now)
      users == monthUsers(monthKeyFromDate(now))
  IN  /\ reminded = {u \in DOMAIN users : users[u].total = 0}
      /\ reminded \subseteq currentMonthMissingImageUsers(now)

\* The next run a schedule shows (nextRunLabel) is the first time after now at which
\* the cron will find it due (isScheduleDue), in a zone of whatever fixed offset.
NextRunIsNext ==
  \A s \in Schedules :
    LET At(d) == DayLength * d + s.hour - s.zone
        next == Min(NextDates(s, now, Horizon))
    IN  /\ At(next) > now /\ isScheduleDue(s, At(next))
        /\ \A d \in DateIn(now, s.zone)..(next - 1) : At(d) > now => ~isScheduleDue(s, At(d))
=============================================================================
