----------------------------- MODULE Reminders -----------------------------
(***************************************************************************)
(* A reminder schedule and the message campaigns its runs create: every      *)
(* minute each API instance looks whether the schedule is due, the unique     *)
(* key (schedule, local date) admits one of them, and the campaign is         *)
(* dispatched by a few concurrent senders in the same process.  Every await   *)
(* is a step; another instance, a failing query or a crash may come between   *)
(* any two.                                                                  *)
(*                                                                           *)
(* The schedule may be edited at any time, so a look at it may find it due    *)
(* or not; times of day are left out, and only one local date is looked at:   *)
(* a run of another one differs in its key, as a manual run does.  A failing  *)
(* query has no effect.                                                       *)
(***************************************************************************)
EXTENDS Integers, FiniteSets

CONSTANTS
  Instances,   \* API processes, each with one job at a time
  Chats,       \* telegram_chat_id of the active users
  Today,       \* run key of the scheduled runs of one local date
  Manuals,     \* run keys of manual runs (runNow)
  Senders,     \* dispatchConcurrency
  MaxFaults,   \* bound: faults in one behaviour
  FaultKinds,  \* which of {"db", "telegram", "crash"}
  NoRun,       \* no run
  NoInstance   \* no process

Runs == {Today} \cup Manuals

ASSUME BoundsAssumption ==
  /\ Senders \in Nat \ {0} /\ MaxFaults \in Nat
  /\ FaultKinds \subseteq {"db", "telegram", "crash"}
ASSUME NamesAssumption == /\ Today \notin Manuals /\ NoRun \notin Runs
                          /\ NoInstance \notin Instances /\ IsFiniteSet(Chats)

VARIABLES
  job,        \* runDueSchedules, runNow and executeSchedule, per instance
  runs,       \* reminder_schedule_run.status, per run key
  campaign,   \* message_campaign.status of the run's campaign
  target,     \* message_campaign_target.status
  dispatch,   \* dispatchCampaign
  hand,       \* deliverTarget, per target
  delivered,  \* what Telegram delivered
  faults

vars == <<job, runs, campaign, target, dispatch, hand, delivered, faults>>
sending == <<campaign, target, dispatch, hand, delivered>>

IdleJob == [pc |-> "idle", run |-> NoRun, chats |-> {}]
NoDispatch == [pc |-> "none", by |-> NoInstance, todo |-> {}, live |-> 0]

Init ==
  /\ job = [a \in Instances |-> IdleJob]
  /\ runs = [r \in Runs |-> "absent"]
  /\ campaign = [r \in Runs |-> "absent"]
  /\ target = [r \in Runs |-> [c \in Chats |-> "none"]]
  /\ dispatch = [r \in Runs |-> NoDispatch]
  /\ hand = [r \in Runs |-> [c \in Chats |-> "idle"]]
  /\ delivered = [r \in Runs |-> [c \in Chats |-> 0]]
  /\ faults = MaxFaults

Fault(kind) == kind \in FaultKinds /\ faults > 0 /\ faults' = faults - 1
----------------------------------------------------------------------------
(* A run of the schedule *)

\* The cron fires: `now` is taken, and the active schedules are asked for.
JobFire(a) ==
  /\ job[a].pc = "idle"
  /\ job' = [job EXCEPT ![a] = [IdleJob EXCEPT !.pc = "fired", !.run = Today]]
  /\ UNCHANGED <<runs, sending, faults>>

\* isScheduleDue at `now`, of the schedule as it was read after that.
JobDue(a) ==
  /\ job[a].pc = "fired"
  /\ \E due \in BOOLEAN : job' = [job EXCEPT ![a] = IF due THEN [@ EXCEPT !.pc = "due"] ELSE IdleJob]
  /\ UNCHANGED <<runs, sending, faults>>

\* runNow: a run key of its own.
runNow(a, r) ==
  /\ job[a].pc = "idle" /\ r \in Manuals /\ runs[r] = "absent"
  /\ \A b \in Instances : job[b].run # r
  /\ job' = [job EXCEPT ![a] = [IdleJob EXCEPT !.pc = "due", !.run = r]]
  /\ UNCHANGED <<runs, sending, faults>>

\* Mutant: no unique key.
CreateAlways(a) ==
  /\ job[a].pc = "due"
  /\ runs' = [runs EXCEPT ![job[a].run] = "running"]
  /\ job' = [job EXCEPT ![a].pc = "resolve"]
  /\ UNCHANGED <<sending, faults>>
\* The row of the run; the unique key turns a second one of the day away.
RunCreate(a) ==
  /\ job[a].pc = "due"
  /\ IF runs[job[a].run] = "absent"
     THEN /\ runs' = [runs EXCEPT ![job[a].run] = "running"]
          /\ job' = [job EXCEPT ![a].pc = "resolve"]
     ELSE job' = [job EXCEPT ![a] = IdleJob] /\ UNCHANGED runs
  /\ UNCHANGED <<sending, faults>>

\* resolveTargetIds: the users of either rule.
RunResolve(a) ==
  /\ job[a].pc = "resolve"
  /\ \E chats \in SUBSET Chats :
       job' = [job EXCEPT ![a].pc = IF chats = {} THEN "none" ELSE "campaign", ![a].chats = chats]
  /\ UNCHANGED <<runs, sending, faults>>

\* createCampaign: the campaign's row, for those of them still active,
CampaignCreate(a) ==
  /\ job[a].pc = "campaign"
  /\ \E chats \in (SUBSET job[a].chats) \ {{}} : job' = [job EXCEPT ![a].pc = "targets", ![a].chats = chats]
  /\ campaign' = [campaign EXCEPT ![job[a].run] = "pending"]
  /\ UNCHANGED <<runs, target, dispatch, hand, delivered, faults>>

\* its targets, and the timer for its dispatch.
TargetsCreate(a) ==
  /\ job[a].pc = "targets"
  /\ target' = [target EXCEPT ![job[a].run] =
                  [c \in Chats |-> IF c \in job[a].chats THEN "queued" ELSE @[c]]]
  /\ dispatch' = [dispatch EXCEPT ![job[a].run] = [NoDispatch EXCEPT !.pc = "begun", !.by = a]]
  /\ job' = [job EXCEPT ![a].pc = "queued"]
  /\ UNCHANGED <<runs, campaign, hand, delivered, faults>>

\* The run's row says what became of it; then markScheduleRan.
RunRecord(a) ==
  /\ job[a].pc \in {"none", "queued"}
  /\ runs' = [runs EXCEPT ![job[a].run] = IF job[a].pc = "none" THEN "no_targets" ELSE "queued"]
  /\ job' = [job EXCEPT ![a].pc = "mark"]
  /\ UNCHANGED <<sending, faults>>

RunMark(a) ==
  /\ job[a].pc = "mark"
  /\ job' = [job EXCEPT ![a] = IdleJob]
  /\ UNCHANGED <<runs, sending, faults>>

\* A query fails before the run has a row: nothing is left of it.
JobFail(a) ==
  /\ job[a].pc \in {"fired", "due"} /\ Fault("db")
  /\ job' = [job EXCEPT ![a] = IdleJob]
  /\ UNCHANGED <<runs, sending>>

\* A query fails, or no target is active any more: the error is recorded, unless
\* that fails as well.
RunFail(a) ==
  /\ \/ job[a].pc \in {"resolve", "none", "campaign", "targets", "queued", "mark"} /\ Fault("db")
     \/ job[a].pc = "campaign" /\ UNCHANGED faults
  /\ \E status \in {"failed"} \cup IF faults' = faults THEN {} ELSE {runs[job[a].run]} :
       runs' = [runs EXCEPT ![job[a].run] = status]
  /\ job' = [job EXCEPT ![a] = IdleJob]
  /\ UNCHANGED <<sending>>
----------------------------------------------------------------------------
(* dispatchCampaign *)

DispatchStart(r) ==
  /\ dispatch[r].pc = "begun"
  /\ campaign' = [campaign EXCEPT ![r] = "running"]
  /\ dispatch' = [dispatch EXCEPT ![r].pc = "read"]
  /\ UNCHANGED <<job, runs, target, hand, delivered, faults>>

DispatchRead(r) ==
  /\ dispatch[r].pc = "read"
  /\ dispatch' = [dispatch EXCEPT ![r].todo = {c \in Chats : target[r][c] = "queued"},
                                     ![r].live = Senders, ![r].pc = "sending"]
  /\ UNCHANGED <<job, runs, campaign, target, hand, delivered, faults>>

InFlight(r) == {c \in Chats : hand[r][c] # "idle"}
\* Mutant: a dispatch that failed ends once more, when its senders are through.
DoneAgain(r) == dispatch[r].pc \in {"sending", "failed"} /\ dispatch[r].todo = {} /\ InFlight(r) = {}
SendersDone(r) == dispatch[r].pc = "sending" /\ dispatch[r].todo = {} /\ InFlight(r) = {}

\* Telegram cannot be connected to, or a query fails, outside the senders.
DispatchError(r) ==
  /\ \/ dispatch[r].pc = "begun" /\ Fault("telegram")
     \/ (dispatch[r].pc \in {"begun", "read"} \/ SendersDone(r)) /\ Fault("db")
  /\ dispatch' = [dispatch EXCEPT ![r].pc = "broken"]
  /\ UNCHANGED <<job, runs, campaign, target, hand, delivered>>

SenderFree(r) == /\ dispatch[r].pc \in {"sending", "broken", "failed"}
                 /\ Cardinality(InFlight(r)) < dispatch[r].live

\* Mutant: the shared cursor does not move.
BeginAgain(r, c) ==
  /\ SenderFree(r) /\ c \in dispatch[r].todo /\ hand[r][c] = "idle"
  /\ target' = [target EXCEPT ![r][c] = "sending"]
  /\ hand' = [hand EXCEPT ![r][c] = "begun"]
  /\ UNCHANGED <<job, runs, campaign, dispatch, delivered, faults>>
\* A free sender takes the next target and marks it.
DeliverBegin(r, c) ==
  /\ SenderFree(r) /\ c \in dispatch[r].todo
  /\ dispatch' = [dispatch EXCEPT ![r].todo = @ \ {c}]
  /\ target' = [target EXCEPT ![r][c] = "sending"]
  /\ hand' = [hand EXCEPT ![r][c] = "begun"]
  /\ UNCHANGED <<job, runs, campaign, delivered, faults>>

Broken(pc) == IF pc = "sending" THEN "broken" ELSE pc
\* The mark fails: the sender ends and Promise.all rejects, the others go on.
DeliverBeginFail(r, c) ==
  /\ SenderFree(r) /\ c \in dispatch[r].todo /\ Fault("db")
  /\ dispatch' = [dispatch EXCEPT ![r].todo = @ \ {c}, ![r].live = @ - 1, ![r].pc = Broken(@)]
  /\ UNCHANGED <<job, runs, campaign, target, hand, delivered>>

Telegram(r, c, answer, n) ==
  /\ hand[r][c] = "begun"
  /\ hand' = [hand EXCEPT ![r][c] = answer]
  /\ delivered' = [delivered EXCEPT ![r][c] = @ + n]
  /\ UNCHANGED <<job, runs, campaign, target, dispatch>>

DeliverSend(r, c) == Telegram(r, c, "ok", 1) /\ UNCHANGED faults
\* Refused, or delivered and the answer lost.
DeliverSendFail(r, c) == Fault("telegram") /\ \E n \in {0, 1} : Telegram(r, c, "error", n)

DeliverRecord(r, c) ==
  /\ hand[r][c] \in {"ok", "error"}
  /\ target' = [target EXCEPT ![r][c] = IF hand[r][c] = "ok" THEN "sent" ELSE "failed"]
  /\ hand' = [hand EXCEPT ![r][c] = "idle"]
  /\ UNCHANGED <<job, runs, campaign, dispatch, delivered, faults>>

\* The update to `sent` fails inside the try: the catch records a failure.
DeliverSentFail(r, c) ==
  /\ hand[r][c] = "ok" /\ Fault("db")
  /\ hand' = [hand EXCEPT ![r][c] = "error"]
  /\ UNCHANGED <<job, runs, campaign, target, dispatch, delivered>>

\* The update to `failed` fails: the sender ends.
DeliverFailedFail(r, c) ==
  /\ hand[r][c] = "error" /\ Fault("db")
  /\ hand' = [hand EXCEPT ![r][c] = "idle"]
  /\ dispatch' = [dispatch EXCEPT ![r].live = @ - 1, ![r].pc = Broken(@)]
  /\ UNCHANGED <<job, runs, campaign, target, delivered>>

Having(r, status) == {c \in Chats : target[r][c] = status}
\* Mutant: any success completes.
StatusOptimistic(r) ==
  IF Having(r, "queued") \cup Having(r, "sending") # {} THEN "running"
  ELSE IF Having(r, "sent") # {} THEN "completed" ELSE "failed"
\* refreshCampaignStatus
StatusOf(r) ==
  IF Having(r, "queued") \cup Having(r, "sending") # {} THEN "running"
  ELSE IF Having(r, "sent") = {} THEN "failed"
  ELSE IF Having(r, "failed") = {} THEN "completed" ELSE "partial_failed"

\* All senders are done.
DispatchEnd(r) ==
  /\ SendersDone(r)
  /\ campaign' = [campaign EXCEPT ![r] = StatusOf(r)]
  /\ dispatch' = [dispatch EXCEPT ![r].pc = "over"]
  /\ UNCHANGED <<job, runs, target, hand, delivered, faults>>

\* The catch of dispatchCampaign.
DispatchFailed(r) ==
  /\ dispatch[r].pc = "broken"
  /\ campaign' = [campaign EXCEPT ![r] = "failed"]
  /\ dispatch' = [dispatch EXCEPT ![r].pc = "failed"]
  /\ UNCHANGED <<job, runs, target, hand, delivered, faults>>

\* An instance dies, and its job and its dispatches with it.
Crash(a) ==
  /\ Fault("crash")
  /\ job[a].pc # "idle" \/ \E r \in Runs : dispatch[r].by = a /\ dispatch[r].pc # "over"
  /\ job' = [job EXCEPT ![a] = IdleJob]
  /\ dispatch' = [r \in Runs |-> IF dispatch[r].by = a THEN NoDispatch ELSE dispatch[r]]
  /\ hand' = [r \in Runs |-> IF dispatch[r].by = a THEN [c \in Chats |-> "idle"] ELSE hand[r]]
  /\ UNCHANGED <<runs, campaign, target, delivered>>
----------------------------------------------------------------------------
RunStep(a) == RunCreate(a) \/ RunResolve(a) \/ CampaignCreate(a) \/ TargetsCreate(a) \/ RunRecord(a) \/ RunMark(a)
DeliverStep(r, c) == DeliverBegin(r, c) \/ DeliverSend(r, c) \/ DeliverRecord(r, c)
DispatchStep(r) == DispatchStart(r) \/ DispatchRead(r) \/ DispatchEnd(r) \/ DispatchFailed(r)
FaultStep(r, c) == DeliverBeginFail(r, c) \/ DeliverSendFail(r, c) \/ DeliverSentFail(r, c) \/ DeliverFailedFail(r, c)

Next ==
  \/ \E a \in Instances : \/ JobFire(a) \/ JobDue(a) \/ RunStep(a) \/ JobFail(a) \/ RunFail(a) \/ Crash(a)
                          \/ \E r \in Manuals : runNow(a, r)
  \/ \E r \in Runs : \/ DispatchStep(r) \/ DispatchError(r)
                     \/ \E c \in Chats : DeliverStep(r, c) \/ FaultStep(r, c)

Spec == Init /\ [][Next]_vars

----------------------------------------------------------------------------
(* Properties *)

TypeOK ==
  /\ job \in [Instances -> [pc : {"idle", "fired", "due", "resolve", "none", "campaign", "targets", "queued", "mark"},
                            run : Runs \cup {NoRun}, chats : SUBSET Chats]]
  /\ runs \in [Runs -> {"absent", "running", "no_targets", "queued", "failed"}]
  /\ campaign \in [Runs -> {"absent", "pending", "running", "completed", "partial_failed", "failed"}]
  /\ target \in [Runs -> [Chats -> {"none", "queued", "sending", "sent", "failed"}]]
  /\ dispatch \in [Runs -> [pc : {"none", "begun", "read", "sending", "broken", "failed", "over"},
                            by : Instances \cup {NoInstance}, todo : SUBSET Chats, live : 0..Senders]]
  /\ hand \in [Runs -> [Chats -> {"idle", "begun", "ok", "error"}]]
  /\ delivered \in [Runs -> [Chats -> Nat]] /\ faults \in 0..MaxFaults
  /\ \A r \in Runs : /\ \A c \in dispatch[r].todo : target[r][c] = "queued"
                     /\ Cardinality(InFlight(r)) <= dispatch[r].live

\* No chat gets a reminder of the same run twice, and all scheduled runs of a local
\* date are one run, whatever instances fire in that minute or later that day,
\* crash and fail: of RunCreate's unique key and the senders' shared cursor.
RemindedOnce == \A r \in Runs, c \in Chats : delivered[r][c] <= 1

\* A campaign is reported completed only when every target's message was
\* delivered, and partial_failed only when some were and some are recorded as
\* failed, although queries fail while several senders work (refreshCampaignStatus).
HonestReport ==
  \A r \in Runs :
    /\ campaign[r] = "completed" => \A c \in Chats : target[r][c] # "none" => delivered[r][c] = 1
    /\ campaign[r] = "partial_failed" => /\ \E c \in Chats : delivered[r][c] = 1
                                         /\ \E c \in Chats : target[r][c] = "failed"

\* The rows of a run and what Telegram delivered, as ReminderPromise sees them.
Wanted(r) == {c \in Chats : target[r][c] # "none"}
Outcome(status) == IF status \in {"absent", "pending", "running"} THEN "open" ELSE status
Promise == INSTANCE ReminderPromise
             WITH wanted <- [r \in Runs |-> Wanted(r)], got <- delivered,
                  outcome <- [r \in Runs |-> Outcome(campaign[r])]

\* A run chooses its chats once, sends each at most one message and reports one
\* outcome, which stays; nothing is sent after `completed` or `partial_failed`:
\* whatever instances, failing queries and the senders that survive a failed dispatch
\* do (executeSchedule, dispatchCampaign, runWithConcurrency, refreshCampaignStatus).
KeepsPromise == Promise!Spec
=============================================================================
