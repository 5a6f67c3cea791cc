# tele-autoupload: TLA+ models and proofs

tele-autoupload watches Telegram groups, downloads the photos and videos of registered users,
uploads them to Google Drive, and reminds users who have not sent any. Four kinds of processes
(ingestor, download workers, upload workers, stats API) share a PostgreSQL database, BullMQ
queues in Redis and a staging directory. Any of them may crash between two queries, be
overtaken by another, or get no answer. A web admin shows reports of what is stored and changes who and what is watched. This directory holds TLA+ models of the parts where the
order of events matters, the TLC runs that check them, and proofs checked by TLAPS.

Sources are named from the repository's root. MS is `packages/shared/src/services/media.service.ts`,
QS `packages/shared/src/queue/queue.service.ts`, TG `packages/shared/src/telegram/telegram-gateway.ts`,
IS `apps/ingestor/src/ingestor.service.ts`, US `apps/worker-uploader/src/uploader.service.ts`,
RS, MSG and ST `apps/stats-api/src/{reminder-schedules,messages,stats}.service.ts`.

## The system

| Part | State it keeps | Operations | What is hard | Module |
|---|---|---|---|---|
| media service (MS) | `media_item`, `group_state` rows | record a message, claim, stage, complete, fail, heartbeat, stale sweep | compare-and-set on rows read earlier; leases of dead workers | MediaPipeline, HistoryCursor |
| download worker | BullMQ job | one job per item | stalled jobs run twice; crash between claim and completion | MediaPipeline |
| upload worker (US) | BullMQ job, staged files | processJob, 'failed' listener, cleanup cron | updates by id alone, retries after success | MediaPipeline |
| queues (QS) | Redis jobs | enqueue with deduplication, attempts | an `add` ignored while the old job gives up | MediaPipeline |
| drive strategies | remote files | upload by API or by copying | errors after the file was stored | MediaPipeline |
| ingestor (IS) | session, history cursor | live messages, edits, reconciliation pages | cursor moved by several writers; lost updates | HistoryCursor |
| reconciliation lease (IS, QS) | Redis key | acquire, renew, release, deadline | late and lost replies, expiry under a working run | ReconcileLease |
| request gate (TG, QS) | queue and counters per process, permits in Redis | run, drain, FloodWait, permits | timers, deadlines, error paths, shared limits | RequestGate |
| manual backfill | none of its own | lists and re-records media | rewrites the cursor it read earlier | HistoryCursor |
| reminder schedules (RS) | schedule and run rows | due schedules, run now | several API instances in the same minute | Reminders |
| message campaigns (MSG) | campaign and target rows, dispatch in memory | create, dispatch, deliver, summarise | concurrent senders, failures half way | Reminders |
| candidate rotation (IS) | `group_state.last_reconciled_at`, list and workers of a run | select due chats, rotate, take in order | starvation of failing or new chats, runs across windows | ChatRotation |
| sender authorization (IS) | `user_tu`, copy and maps of a run | who a sender is, back-filling ids, usernames and chat ids | a copy older than the row it is written to | SenderRegistry |
| user administration (MSG) | `user_tu` | create, update, import by username | names resolved before the transaction, unique pairs | SenderRegistry |
| statistics, daily summary (ST, `bot.service.ts`) | none | heatmap, months, a user's days, failed uploads, counts of a day | the same days and months computed in four ways | ReportingCycle, Reporting |
| web admin (`apps/web-admin/src`), login | refs of a page, selection in sessionStorage | load, select, hand over, edit, save, resolve, import, run, back-fill | answers that are late, lost or for a page or form that is gone | AdminConsole |
| file naming, wiring, scripts; parts of the above | see `PROJECT.json` | | nothing interleaves | not modelled |

How they interact: the ingestor records an attachment as a row (`queued`) and enqueues a download
job for it. A download worker claims the row by compare-and-set under a lease token, stages
the file at a path that is a function of the item, marks the row `downloaded` and enqueues an upload
job. An upload worker marks it `uploading`, stores the file remotely and marks it `uploaded`.
A sweep resets rows that were not touched for a while and enqueues them again; a cron deletes
staged files of uploaded items. Reconciliation re-reads the history of each chat behind a cursor
and feeds what it finds into the same ingest path. Whose messages are taken
is looked up in `user_tu`, which taking a message may itself complete. All Telegram requests pass the gate.
The stats API reads the rows the pipeline leaves, by day and by reporting cycle, and so do the reminders to find their
recipients. The web admin calls the stats API only: its requests begin the campaigns, runs and backfills of the other parts and
write `user_tu` and the schedules.

## Modules

Each component module holds VARIABLES, Init, one action per handler step, Next, Spec, and its
properties; an `MC` module adds symmetry or the values TLC needs; a `_proofs` module its
theorems. Definitions keep the source's names where they stand for a function. Definitions
whose comment begins with `Mutant:` are plausible bugs, used to see that a property can fail.

**MediaPipeline** composes the ingest path, sweep, both queues, both workers, the failure
listener and the cleanup cron over one set of rows, because every hazard is between two of them.
One await is one step, the look at the staged file (MS:354, 278) and the compare-and-set that follows it included; merged are only a
row's group flag with the row read before it, and the settling of a job with its handler's last step. `row` is `media_item` with the columns that matter (`updatedAt` and the
lease token are taken from a finite pool of stamps; a fresh one differs from all in use). A
job counts its attempts and owner; a stalled job may be taken by a second processor while the
first goes on. `file` is absent, partial or whole at the item's path. `Age` stands for the
sweep's thresholds: a row becomes stale only when nothing live holds it, unless the fault
"slow" lets timers run late. `FaultKinds` picks what may go wrong in a run (Telegram, disk, Drive,
crash, stall, slow, group switched off), `MaxFaults` how often. `Overwrites` tells the strategy
that copies over an existing file from the one that creates a second one.

**MediaLifecycle** is the abstract promise: an attachment is unknown, pending, and then stored, skipped
or lost; stored and lost are final. MediaPipeline implements it (`ImplementsLifecycle`, phase
computed from the row and the remote copies; an attachment of a whitelisted sender that cannot be downloaded counts as
skipped, for a replay may still skip it).

**HistoryCursor** is one chat: messages are posted, live handlers and manual backfills read and
upsert the cursor in two steps, and the reconciliation run fetches pages from the rewound cursor,
records message by message, and checkpoints. Updates may be lost, handlers and runs cut short,
and the administrator may switch the group off. Service messages count against a page's
limit and are left out of it, as in `fetchHistoryPageAfter`. A backfill goes through `BackfillRows`, the first messages
of the chat up to what one read returns (`HistoryCap`, 100 in the code).

**ReconcileLease** is one Redis key and any number of runs with one clock. A run fixes its
deadline before it asks, commands and replies take any time, a reply may be lost and the command
sent again, renewals fail, runs die. `canStartWork` is the code's check.

**ChatRotation** is which chats a run of the cron works on: due chats in their order, rotated by
`startIndex`, cut at the cap, taken by workers until the time is up. A chat becomes `fresh` when a
page of it is checkpointed and stops being so when the schedule window ends. The deployment's
setting and the set of chats are chosen in Init. The clock counts modulo `Cycle`: the index depends on the
window's number modulo the number of due chats, and `CycleAssumption` makes every such number divide it.
`perRun` is how many chats the budget is enough for, the one thing the code leaves to the speed of
Telegram; `MaxSlips` bounds the runs that overrun the next cron or lose their lease.

**SenderRegistry** is the rows of `user_tu` for one chat. A live message looks its sender up in two
queries and then updates the row it found; a reconciliation run does so by the copy and the two
maps it took when it began; administrators create, edit and import rows. Messages give the chat's canonical id, rows may hold
its older form. An update fails when another row has the pair of user and chat: the live message is then lost, the run leaves
the chat. Accounts change their usernames, and a username may not be resolved when a message is parsed.

**RequestGate** is the gates of several processes (waiters, places, rate, pause and
timer) and the three Redis scripts (permits, renewal, shared FloodWait). Times are kept as what is
left of them, so that time is unbounded. A token that has expired stays in the set until a request purges it or the
whole set expires, and a late renewal revives it, for RENEW (QS:79) asks only whether it is there.

**Reminders** is one schedule on one local date, its scheduled and manual runs, and the
dispatch of their campaigns by concurrent senders in the instance that made them.
A look at the schedule may find it due or not, for it may be edited at any time.

**ReminderPromise** is what a run promises, without instances, jobs, senders and queries: its chats are chosen once (`Choose`),
each gets at most one message (`Deliver`), one outcome is reported and stays (`Report`). After `completed` and `partial_failed` nothing is
sent; after `failed` something may be, for the catch of `dispatchCampaign` does not wait for the senders that are still at work.
Reminders implements it (`KeepsPromise`): the chats are the targets that exist, and the statuses `pending` and `running` are an open outcome.

**ReportingCycle** is the calendar, constant operators only: dates of an instant in a time zone, the cycle from day 20 to day 19,
and the code that computes it: `monthWindowFromParts` and `monthKeyFromDate` of the statistics, `currentReportingWindow` of the
reminders, `isScheduleDue` of the cron, `nextRunLabel` of the listing and the window of a backfill's dates. An hour stands for a
millisecond, a day number for a date, and a month begins on a day that is a parameter (`MonthStart`), so that the proofs
hold for the calendar there is.

**Reporting** is `media_item` and the status of `user_tu` with the queries over them, each written as its own query is. Messages are recorded
(also long after their date) and settled, and time passes. Each user has a chat of its own, so that `compositeUserKey` is the user. The limits of
the queries are parameters: the newest days of a user's page (`HistoryDays`, 90), the failed items the dashboard reads (`FailedTake`, 100) and the lines it
makes of them (`FailedLines`, 10). When an item failed is not modelled, so `FailedUploads` is the set of answers for every order of the failures. One status stands
for those on the way to `uploaded`, and one for `skipped` and `deleted`, which count in a day's total only.

**AdminConsole** extends Reporting by one tab of the web admin. `page` is the mounted page, `view` its refs, `calls` the
requests of all its instances so far: a handler that awaits an answer is a call, and resumes in a step of its own, on the refs of
the instance that made it. An answer comes in any order or fails, and a failure may follow what the server has done. `rows`
says whose fields and whose account a row holds, which is all a form has to get right. The tab's requests are what SenderRegistry, Reminders
and HistoryCursor begin with; there they are steps of administrators.

## Runs

| Run | Question | Bounds and why they are enough |
|---|---|---|
| pipeline_crash | Are only whole files uploaded, is no staged file lost before its upload or downloaded a second time, is the lifecycle implemented, under crashes, disk, Telegram and Drive errors and a replayed message? | one item (items share no state but the sweep and workers), of a registered user (the others are in pipeline_settles, and the theorems hold for every sender), two attempts, two faults: a fault and another in its recovery; one worker of each kind, since without stalls a job is in one hand (`JobsOwned`, proved for any number of workers) |
| pipeline_races | Does a download keep its lease as long as its heartbeat is in time, and a finished item its status, when jobs stall and what others read is old? | two downloaders, two faults: the stall and the late timer that makes it dangerous |
| pipeline_settles | Does every item come to rest, and is a failed one retried, for registered, whitelisted and unknown senders? (fairness) | two uploaders, so that a stalled upload runs twice at once, of which the first idle one takes the next job (`TakenInTurn`: two idle uploaders are in the same state and no waiting job names either, so nothing but their names is lost); one attempt, one fault, no replay: liveness over more is out of TLC's reach |
| pipeline_reupload | violation: an error after the row says `uploaded` uploads the file again | one fault is enough |
| history_pages | Does a checkpoint never skip an unrecorded media message of its page, and is every media message recorded in the end? (fairness) | six messages, one a service message, pages of four of which two are read, a live handler, a backfill, an administrator, a run cut short; one message arrives before the last is recorded, fewer than the lookback of two: the largest burst for which the second holds |
| history_gap | violation: beyond that burst, messages of a gap are never recorded | one live message after the gap |
| rotation_turns | Is no chat taken twice in a window, and is every chat tried again and again? (fairness) | four chats, any of them members; caps of two and three (a divisor of four and not), a budget for one or two chats, two workers, one overrun or lost lease; a window as long as the cron's period (the default), twice as long, and half as long |
| lease_sole | May two runs never both begin work? | three runs, budget one below the TTL, seven ticks: two leases pass |
| gate_limits | Are places, waiters, permits and pauses kept, and is every waiting request answered? (fairness) | two requests in one process and one in another, so that requests contend in a gate and gates for a permit; concurrency one; one request with a deadline of one tick, the others, as live messages, with none; two lengths of FloodWait; a slot's TTL of two ticks, so that slots expire under stalled holders, are purged by others and revived by late renewals |
| registry_users | Do a run's maps follow its back-fills, does no message take away another account's registration, and is a registered account's message taken in the end? (fairness) | two rows, two accounts, one username, two messages, one live handler; one edit or import, one rename; a table whose row is known by username only, and one with an old chat id beside a row given up under the new one |
| reminders_once | Is a chat reminded once per run, is a final status true and the last word, and is ReminderPromise implemented? | two instances, one scheduled and one manual run, two chats, two senders, two faults (a failed send and the failed record of it) |
| admin_console | Do all reports count the same items on the same days, and does a tab keep its selections and rows right and never wait for ever? (fairness) | two users, two items of any kind at the last and first hour of a cycle within and at the end of a year, and a third that brings days and failures above the limits of the queries (two days, two failed items, one line); fifteen months, two changes of the tables; one tab with three calls, two mounted pages, two schedules, files of two lines: an answer, the one it overtakes, and the page or form opened in between. The reports do not read the page nor the pages `media_item`, so that the tables vary in states of a tab that has used up its calls (`Reports`) and are fixed in the others (`Browsing`); `Horizon` is 12 days, enough for the days of the schedules |

Deadlock is not checked: each model stops when its bounds are used up, and the system may
really be idle.

### What the violations show

- **pipeline_reupload** (US:210). The failure listener writes `failed` over `uploaded` when something
  after the final update throws (the event log, the removal of the staged file); the retry uploads again. With
  `drive_api` that makes a second remote file.
- **history_gap** (MS:57). A live message moves the cursor to its own id although older messages are
  still unknown; those further back than the lookback are not read again.

## Fairness

*MediaPipeline*: every started handler goes on (weak fairness of each processor's steps, of
the sweep and of the cleanup cron, which run on timers). Strong fairness of a worker's look at the file and of its claim: they
are in vain only when the sweep touches the row within the milliseconds between a worker's read and
its update, while sweeps are at least ten minutes apart. A switched-off group is switched
on again, otherwise its items rest on purpose. *HistoryCursor*: the cron runs and a run's steps
go on; cuts are bounded. *ChatRotation*: time passes, the cron fires, workers
take chats and end with them (each Telegram request ends at the run's deadline at the latest). No fairness of a
checkpoint: a chat may fail for ever. *SenderRegistry*: runs come again and their steps go on,
and a page is read at some time with its senders resolved (strong fairness of that fetch: a failed lookup is tried again
at the next message, TG:577). *RequestGate*: time passes, timers fire, Telegram and Redis answer;
a request that polls for a permit meets a free one at some time (strong fairness, since
permits are polled for and not queued). *AdminConsole*: every request is answered or fails in the end (the browser gives up a
connection that is dead), and the browser runs the handler of an answer.

## Proofs

TLAPS proves for all values of the constants (any number of items, workers, messages, runs,
processes, chats; any bounds), from the ASSUMEs of the modules:

| Theorem | States | Inductive invariant |
|---|---|---|
| `MediaPipeline_proofs!TypeCorrect` | TypeOK | `Typed`: TypeOK, and a busy processor holds an item (`HoldsItem`), without which the fields of its item have no type |
| `MediaPipeline_proofs!LiveDownloads` | LiveDownloadKept | `Snapshots`: Typed; lease tokens of different workers differ (`TokensDiffer`, from fresh stamps); what a worker or the sweep read still has its status if the row still has its stamp (`ReadsHold`, `SelectionHolds`) |
| `MediaPipeline_proofs!FinalStaysFinal` | FinalNotRequeued | the same: a compare-and-set that succeeds acts on a status it knows |
| `MediaPipeline_proofs!DownloadedOnce` | NoSecondDownload, under `Timely` | `Calm` of the next row, and `LooksHold`: who has looked for the file in vain, a worker before its claim or the sweep before its reset, finds either the row changed or still pointing to no file. Between the look and the compare-and-set only the owner of the item completes a file, and it writes the row when it is through |
| `MediaPipeline_proofs!WholeFilesUploaded`, `StagedUntilUploaded`, `LifecycleImplemented` | UploadsWholeFiles, StagedFileKept, ImplementsLifecycle, each under `Timely` | `Calm`: Snapshots; every busy processor holds its job's lock, and an upload worker runs only when the 'failed' listener of the attempt before is through (`JobsOwned`); every item is in one of three stages: not staged, and then nobody has heard of a file (`Unstaged`), staged, whole and pointed to by its row (`Staged`), or retired after its upload (`Retired`). A row alone does not say what its file holds: the stage ties it to what the queues, workers, sweep and cleanup still intend |
| `HistoryCursor_proofs!CursorTypeCorrect`, `CheckpointsSkipNothing` | TypeOK, CheckpointsCover | `HandsHold` and `PagesCovered`: from where the run began to where it reads now, everything is recorded or still to do on this page, unless the group was switched off |
| `ReconcileLease_proofs!LeaseTypeCorrect`, `OneRunWorks` | TypeOK, SoleWorker | `LeaseOutlives`: until its deadline a granted run's key is its own and outlives the deadline; needs Budget < TTL, which the configuration enforces |
| `ChatRotation_proofs!TypeCorrect`, `NoChatTwice` | TypeOK, OncePerWindow | `Fresh`: what a run has still to do is not fresh. It was due when the run began, only what the run is busy with becomes fresh, and a new window makes nothing fresh |
| `RequestGate_proofs!PermitsBounded`, `FloodWaitsHonoured` | SlotBound, FloodHonoured | the pause in Redis lasts as long as the longest FloodWait shared; the tokens in Redis, the expired ones that may be revived included, are at most Concurrency (`Held`), for a grant purges before it counts and a renewal adds none; the gates play no part |
| `RequestGate_proofs!WakeupsAreKept`, `PlacesAreKept` | NoLostWakeup, TypeOK | `Gates`: the queue of a process's gate holds whoever waits there, once; `inFlight` counts whoever holds a place; while both a waiter and a free place exist, the timer is set for no later than the gate opens. A drain keeps it one waiter at a time, a timeout splices one waiter out, a FloodWait only moves the opening later, with a drain at its end |
| `Reminders_proofs!ReminderSentOnce` | RemindedOnce | `Unsent`: nothing was sent to a chat that is still to be sent to; `NotBegun`: nothing is dispatched before the one job of a run made its targets; `OneJob`: the unique key gives a run one job |
| `Reminders_proofs!ReportIsHonest`, `Types` | HonestReport, TypeOK | `Report`: only a dispatch that is over reports completion, and then nobody sends for it any more; a target marked sent was delivered to (`HonestRun`); the messages in flight are at most the live senders, and what is still to do is queued (`CountRun`) |
| `Reminders_proofs!PromiseKept` | KeepsPromise | Inv and Report of the two theorems above, and `Told`: a run is without targets until its job makes them and has some once it is dispatched; its campaign is open while its dispatch may still end; what is in flight is for a target. Each step of a job, a dispatch, a sender or a crash is then, for every run, one of ReminderPromise (`JobKeeps`, `DispatchKeeps`, `DeliverKeeps`, `CrashKeeps`) |
| `AdminConsole_proofs!WindowOfKey`, `RemindersUseTheCycle`, `ReminderMeetsReport` | the window of a month and the key of a date agree; RemindedAreListed | none but `now \in Instants`: from the calendar alone, months of at least 28 days without gaps |
| `AdminConsole_proofs!HeatmapMeetsMonths`, `CycleIsItsDays`, `DaysAreOneCalendar` | the heatmap counts for a month the items of that month's own query; a month's window is made of the days shown as its cycle; FailureDays and BackfillDays (parts of DaysAgree), whatever the limits of the queries | `MediaTyped`, and that the calendar holds the reported years (`YearsAssumption`): both sides are shown to count the same set |
| `AdminConsole_proofs!MonthsAreComplete`, `DaysAreConsistent` | MonthsAddUp, DaysAgree | the same, and that users are finitely many and "no sender" is none of them (`TablesAssumption`). The sums over users and days are a fold, defined by a CHOOSE of a function on subsets. Counting the items under each key is such a function (`CountsAdd`), and two of them agree: a minimal subset on which they differ would have a smaller one (`SumOfCounts`, from the well-foundedness of the subsets of a finite set). So a sum of counts is the count of the union, which the row above compares. Where a page ends within a cycle its sum counts a part of the month; where it shows a day not after the cycle's first it shows every later one (`NewestAreAbove`) |
| `SenderRegistry_proofs!TypeIsKept`, `MapsAreTrue`, `AccountsKept` | TypeOK, IndexTrue, OthersKept | `Inv`: the copy in hand of a live message, and what a run's maps give, names the sender by its id or by the username the message came with, and its row still exists (`HandHolds`, `RunHolds`, lemma `Match`). What is filled in then gives the row the sender's id, and an account that loses the row shared the copy with the sender |
| `AdminConsole_proofs!NextRunShown` | NextRunIsNext | none but `now \in Instants`, and that the horizon holds a date of every schedule (`SchedulesAssumption`): where the offset is fixed, the code's steps of 24 hours are the dates in order (`DaysFollow`), so that its first hit is the least |
| `AdminConsole_proofs!SelectionIsShown`, `RowsKeepTheirOwn`, `ResolvedForItsRow` | SelectionShown, RowsHoldTheirOwn, ResolvedIntoItsForm | `TabInv`: a call of the mounted instance finds the refs as its handler left them (`AliveOK`: a save is `saving`, a username asked for is that of the open form, the messages page is empty until its one load), saves and resolutions of the users' page are one at a time (`Sole`), and every save on its way fits its form (`CallOK`) |
| `AdminConsole_proofs!ConsoleTypeCorrect` | TypeOK | `TypeInv`, with TabInv: an answer lists what its page lists (`CallTyped`, `Listed`), so that a form is filled with a row of its table; numbers of calls are used once; the login page is left only by the answer to its one call |

`Timely` says that jobs do not stall under a live processor and that timers are not late (neither "stall" nor "slow" is among
`FaultKinds`; crashes and all other faults are). It is needed: with either of them UploadsWholeFiles fails, for a second download rewrites
the file that is being uploaded, and so does NoSecondDownload, for a processor whose job was taken over may complete the file between the
other's look at it and its claim. Of "no late timer" the proof uses only that the 'failed' listener runs before the retry begins.

Every safety property of the passing runs is proved. Only model-checked is liveness (EventuallySettled, FailedIsRetried, EventuallyStored,
EveryChatTried, EveryoneAnswered, EventuallyAccepted, NotStuck), which the prover cannot treat under fairness.

## Limits of the models

*MediaPipeline.* StagedFileKept and NoSecondDownload are not claimed when jobs stall or timers are late: a second download
rewrites the first one's file. LiveDownloadKept is about heartbeats in time: a download whose row has become stale may be reset under its worker. With late timers the failure listener can also overwrite what the
retry has already reached. The staged file of a whitelisted sender can be lost without them: the skip of its upload job can run beside
a second download of a replayed message; both properties leave these out, since the file is to be given up anyway. The sweep racing a
claim forever is excluded by timing alone (`Held`, `InStep`). One backoff delay is as good as another.
The liveness run has no replayed message. The sweep's limit of 50 rows is not modelled.

*HistoryCursor.* Who is registered is left to SenderRegistry; normal or recovery lookback is a free choice.
A page whose service messages make it look short ends a run early (TG:518): when the first page behind
the rewound cursor keeps no more messages than the lookback, every run reads it again. The defaults (a page of 100,
a recovery lookback of 200) are open to this. history_pages keeps the page larger than the lookback and its service messages
together. The same holds when the lookback is as
large as what one run may read (ENV:189). A checkpoint switches a group on again that
an administrator switched off (IS:525), which is in the model and excluded from CheckpointsCover. The
optional lower bound RECONCILIATION_FROM is left out. A backfill reads the first 100 messages of a chat once
(TG:478), whatever its dates: a later range finds nothing in a longer chat. `docs/MANUAL-BACKFILL-REQUIREMENTS.md:47` says a backfill must
not move the cursor backward; it writes back the cursor it read when it began (`media-backfill.service.ts:91`), which a checkpoint may
have passed meanwhile. The model has this step; what follows are only messages that are read again.

*ChatRotation.* EveryChatTried has a precondition, `Enough`, and is false without it. Successive runs begin at the
multiples of the greatest common divisor of the number of due chats and the cap (times the windows
between two crons). With a cap of 500 and, say, 250 due chats that all fail, every run begins with the first chat, and
a budget for fewer than 250 never reaches the last, although IS:392 and
`docs/reconciliation-scaling-implementation-plan.md:127` intend to prevent that. In the same way chats at the end starve when the
window is longer than the cron's period and runs last longer than it, for then every other cron is refused the
lease. Users and groups do not come or go during a run of the model. A run of the model begins when no other is on: that the last page of
a run whose time is up is checkpointed (IS:239) while the next run has begun is left out. OncePerWindow is therefore not claimed across that overlap;
a chat that is worked on twice there is read twice, which HistoryCursor's upserts take.

*SenderRegistry.* EventuallyAccepted has a precondition, `~Clash`, and is false without it. When an inactive row has
the pair that a message would give to the active row it is matched with (an old chat id that is made canonical, a username that
gets its id), the update of IS:144 violates the unique pair. Nothing catches it before the page: a live message is lost and every run
gives the chat up at that message, although `docs/reconciliation-scaling-implementation-plan.md:55` asks for
no missed media. OthersKept holds only while no username has moved between accounts: a row found by a
username is bound to the account that has the name now (`Misnamed`). Nor does it hold when an administrator gives a row to another account
while a live message or a run has a copy of it: the update of IS:144 then writes the sender over the edit (`Overwriting`). Two users of a chat that are both entered by username, with id 0 as the
repository's `README.md:99` suggests, violate the unique pair themselves. Live messages compare usernames as they are stored, runs normalise them
(IS:561, 621); the model's names are normalised. The third, malformed form of a chat id and messages without a sender are left out,
and one fetch reads the whole chat. A manual backfill is a further writer of `user_tu` (`media-backfill.service.ts:205-236`): it writes the sender, the
chat and the username of a message into the row it matched, by id alone, as a live message does. It is not a process of its own in the model, which
has one live handler.

*ReconcileLease.* SoleWorker is about the right to begin work. Work in progress when a lease is lost
is not stopped, so two runs' last and first steps may overlap, although
`docs/reconciliation-scaling-implementation-plan.md:108` rules overlaps out. A run whose SET NX reply was
lost is refused by its own token and skips its turn. Redis losing its data is not modelled.

*RequestGate.* A request that has its permit no longer looks at its deadline; that is the code's
behaviour. Processes do not crash: the tokens of dead ones expire as those of stalled ones do. A token whose release failed is, in the model,
taken over by the next run of the same request, where the code has a new token each time; a larger set of requests, which the theorem allows, has both.

*Reminders.* Nothing resumes a campaign after a crash (it stays `running`), and a run whose row was
written uses up its day even if it failed; both are in the model and nothing promises otherwise.
A cron minute that is missed is a day missed (RS, `isScheduleDue` compares minutes). A failing
query has no effect in the model. A run can be marked `failed` although its campaign is under way.
Edits of a schedule's time zone, template rendering and attachments are left out.

*ReportingCycle, Reporting.* Time zones have a fixed offset, as the default one does: in a zone with summer time `nextRunLabel`
(RS:468), which goes on by 24 hours, can skip a date, and NextRunIsNext does not hold. Schedules are active ones. A user's page shows 90 days (ST:627): of a cycle
that begins before the oldest of them it shows a part, and CycleDays claims no more than that. The dashboard's failed uploads are those of the newest hundred failed items (ST:740),
ten lines at most (ST:848): beyond them its counts are lower bounds, which is what FailureDays says. The pages of a month (500 users at most, by offset) are taken together. The daily summary is sent at nine o'clock of the process's own time zone, although
`apps/stats-api/src/bot.service.ts:56` and `README.md:211` say UTC; it counts a day of UTC and leaves documents out, while the
dashboard's cycle is local: DaysAgree compares like with like.

*AdminConsole.* One tab; other administrators appear as `SwitchedElsewhere` and in SenderRegistry. An open dialog covers its page, but
not the browser's history. Logging in leads to the dashboard. The dashboard's own list of selected users is left out: nothing
on the page sets it (`missingSelectedIds`). No property is claimed where the code has none: a late answer shows another user's days (`UserDetailPage.vue:218`) until the page is
loaded again; the answer to a load of a page that was left uses up the selection handed to a newer one
(`MessagesPage.vue:223`); the first of two runs by hand clears the mark of the second (`SchedulesPage.vue:301`); a form opened while
a save is awaited is closed by its answer, and what was typed is lost; a `create` whose answer was lost and that is
sent again makes a second schedule.

## Not modelled

File naming, folders, disk and hash utilities format names and paths; `main.ts`, the modules and `generate-session.ts` wire processes
up. In the parts that are modelled: the overview by day, the queues' health and the media of a group (reads no other part relates to),
validation and parsing of single values, template rendering, attachments, the bot's commands and polling, conversion of Telegram objects.

## Plan

1. Done: MediaPipeline with MediaLifecycle, HistoryCursor, ReconcileLease, ChatRotation, SenderRegistry, RequestGate, Reminders with ReminderPromise,
   ReportingCycle, Reporting, AdminConsole;
   the theorems above.
2. Next: the sweep's row limit (can fifty rows that always fail keep others from being recovered?), members
   that come and go in ChatRotation, the cooldown of the notice about unknown uploaders.
3. Proofs to add: those of what 2 brings; of what there is, every safety property is proved.
