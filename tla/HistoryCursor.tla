--------------------------- MODULE HistoryCursor ---------------------------
(***************************************************************************)
(* One chat's history and the cursor group_state.last_message_id: live and  *)
(* edited messages, the manual backfill and the reconciliation run all       *)
(* record messages and move the cursor.  A handler reads the cursor and      *)
(* writes it in two queries; the reconciliation run rewinds a snapshot of    *)
(* it, pages through the history and checkpoints after each page.            *)
(*                                                                          *)
(* Any update may be lost: a message no handler ever takes is one.  Message  *)
(* ids are 1..MaxMessage.  Burst, MaxEvents and MaxCuts bound a behaviour.   *)
(***************************************************************************)
EXTENDS Integers, FiniteSets

CONSTANTS
  MaxMessage,    \* bound: messages posted in the chat
  Service,       \* ids of service messages
  PageSize,      \* RECONCILIATION_HISTORY_PAGE_SIZE
  HistoryCap,    \* the 100 rows of one history read
  MaxPages,      \* RECONCILIATION_MAX_PAGES_PER_CHAT
  Lookbacks,     \* {RECONCILIATION_NORMAL_LOOKBACK_MESSAGES, ..._RECOVERY_...}
  Live,          \* concurrent handlers of live and edited messages
  Backfillers,   \* concurrent manual backfills
  Burst,         \* bound: messages posted after one that is not yet recorded
  MaxEvents,     \* bound: messages taken by handlers
  MaxCuts,       \* bound: runs cut short
  MayDeactivate  \* whether an administrator switches the group off

Handlers == Live \cup Backfillers
Messages == 1..MaxMessage
Ids == 0..MaxMessage

ASSUME SizesAssumption == /\ MaxMessage \in Nat /\ PageSize \in Nat \ {0}
                          /\ HistoryCap \in Nat /\ PageSize <= HistoryCap
                          /\ MaxPages \in Nat \ {0} /\ Burst \in Nat
                          /\ MaxEvents \in Nat /\ MaxCuts \in Nat
ASSUME LookbacksAssumption == Lookbacks \subseteq Nat
ASSUME ServiceAssumption == Service \subseteq Messages /\ MayDeactivate \in BOOLEAN

VARIABLES
  posted,   \* the newest message id
  cursor,   \* group_state.last_message_id, 0 without a row
  active,   \* group_state.is_active
  allowed,  \* what the administrator last set is_active to
  stored,   \* messages whose media have their media_item rows
  hand,     \* processIncomingMessage, per handler
  run,      \* reconcileGroup
  events, cuts

vars == <<posted, cursor, active, allowed, stored, hand, run, events, cuts>>

Media == Messages \ Service
Larger(a, b) == IF a > b THEN a ELSE b

IdleHandler == [pc |-> "idle", msg |-> 0, next |-> 0]
IdleRun == [pc |-> "idle", from |-> 0, after |-> 0, todo |-> {}, maxSeen |-> 0,
            hasMore |-> FALSE, pages |-> 0]

Init ==
  /\ posted = 0 /\ cursor = 0 /\ active = TRUE /\ allowed = TRUE /\ stored = {}
  /\ hand = [h \in Handlers |-> IdleHandler]
  /\ run = IdleRun
  /\ events = MaxEvents /\ cuts = MaxCuts
----------------------------------------------------------------------------
(* The chat *)

Unrecorded == (Media \cap 1..posted) \ stored

Post ==
  /\ posted < MaxMessage
  /\ \A m \in Unrecorded : posted + 1 - m <= Burst
  /\ posted' = posted + 1
  /\ UNCHANGED <<cursor, active, allowed, stored, hand, run, events, cuts>>

Deactivate ==
  /\ MayDeactivate /\ allowed
  /\ active' = FALSE /\ allowed' = FALSE
  /\ UNCHANGED <<posted, cursor, stored, hand, run, events, cuts>>
----------------------------------------------------------------------------
(* processIncomingMessage with manageGroupCursor *)

\* What a backfill goes through, in any order and whatever its dates: one read from
\* the first message on.  scanMedia lets it take a recorded message only for a
\* media item that failed, which is not modelled: any may be taken.
BackfillRows == {m \in Media : m <= posted /\ m <= HistoryCap}

\* A live, edited or backfilled message is taken; the cursor is read.
HandRead(h, m) ==
  /\ hand[h].pc = "idle" /\ events > 0
  /\ m \in Media /\ m <= posted
  /\ h \in Backfillers => m \in BackfillRows
  /\ hand' = [hand EXCEPT ![h] = [pc |-> "read", msg |-> m, next |-> Larger(cursor, m)]]
  /\ events' = events - 1
  /\ UNCHANGED <<posted, cursor, active, allowed, stored, run, cuts>>

\* The upsert of the group row; an inactive group goes no further.
HandUpsert(h) ==
  /\ hand[h].pc = "read"
  /\ cursor' = hand[h].next
  /\ hand' = [hand EXCEPT ![h] = IF active THEN [@ EXCEPT !.pc = "upserted"] ELSE IdleHandler]
  /\ UNCHANGED <<posted, active, allowed, stored, run, events, cuts>>

HandStore(h) ==
  /\ hand[h].pc = "upserted"
  /\ stored' = stored \cup {hand[h].msg}
  /\ hand' = [hand EXCEPT ![h] = IdleHandler]
  /\ UNCHANGED <<posted, cursor, active, allowed, run, events, cuts>>

\* The process dies, or a query fails and handleIncoming logs the error.
HandFail(h) ==
  /\ hand[h].pc # "idle"
  /\ hand' = [hand EXCEPT ![h] = IdleHandler]
  /\ UNCHANGED <<posted, cursor, active, allowed, stored, run, events, cuts>>
----------------------------------------------------------------------------
(* The reconciliation run of the chat *)

\* Mutant: the rewind is one message short.
RewindShort(last, lookback) ==
  IF last <= 0 \/ lookback <= 0 THEN last
  ELSE IF last > lookback THEN last - lookback + 1 ELSE 0
\* Mutant: a young chat is not clamped.
RewindNoClamp(last, lookback) == IF last <= 0 \/ lookback <= 0 THEN last ELSE last - lookback
rewindMessageCursor(last, lookback) ==
  IF last <= 0 \/ lookback <= 0 THEN last
  ELSE IF last > lookback THEN last - lookback ELSE 0

\* The snapshot the run selected: the row of an active group, or 0 when only the
\* registered users of an inactive group name the chat.
Snapshot == IF active THEN cursor ELSE 0

\* Normal or recovery lookback, by how long ago the last checkpoint was.
RunStart ==
  /\ run.pc = "idle" /\ posted > 0
  /\ \E lookback \in Lookbacks :
       LET after == rewindMessageCursor(Snapshot, lookback)
       IN  run' = [IdleRun EXCEPT !.pc = "fetch", !.from = after, !.after = after]
  /\ UNCHANGED <<posted, cursor, active, allowed, stored, hand, events, cuts>>

\* What iterMessages(minId, reverse, limit) yields: the next rows, service
\* messages among them, which are counted by the limit and then left out.
Rows == {m \in (run.after + 1)..posted : m <= run.after + PageSize}
Collected == Rows \ Service

\* Mutant: the page counts what it skipped as seen.
FetchSeesAll ==
  /\ run.pc = "fetch"
  /\ run' = [run EXCEPT !.pc = "process", !.todo = Collected,
                        !.maxSeen = posted, !.hasMore = Cardinality(Collected) >= PageSize]
  /\ UNCHANGED <<posted, cursor, active, allowed, stored, hand, events, cuts>>
RunFetch ==
  /\ run.pc = "fetch"
  /\ \E last \in Collected \cup {run.after} :
       /\ \A m \in Collected : m <= last
       /\ run' = [run EXCEPT !.pc = "process", !.todo = Collected, !.maxSeen = last,
                             !.hasMore = Cardinality(Collected) >= PageSize]
  /\ UNCHANGED <<posted, cursor, active, allowed, stored, hand, events, cuts>>

\* handleIncoming with manageGroupCursor FALSE, message by message.
RunStore ==
  /\ run.pc = "process"
  /\ \E m \in run.todo :
       /\ \A k \in run.todo : m <= k
       /\ run' = [run EXCEPT !.todo = @ \ {m}]
       /\ stored' = IF active THEN stored \cup {m} ELSE stored
  /\ UNCHANGED <<posted, cursor, active, allowed, hand, events, cuts>>

\* checkpointHistoryPage: GREATEST, and the group becomes active; then the next
\* page, unless this was the last one or the page limit is reached.
RunCheckpoint ==
  /\ run.pc = "process" /\ run.todo = {}
  /\ cursor' = Larger(cursor, run.maxSeen)
  /\ active' = TRUE
  /\ run' = IF run.hasMore /\ run.pages + 1 < MaxPages
            THEN [run EXCEPT !.pc = "fetch", !.after = run.maxSeen, !.pages = @ + 1]
            ELSE IdleRun
  /\ UNCHANGED <<posted, allowed, stored, hand, events, cuts>>

\* A request or a message fails, the deadline passes, the lease or the process
\* is lost.
RunCut ==
  /\ run.pc # "idle" /\ cuts > 0
  /\ cuts' = cuts - 1
  /\ run' = IdleRun
  /\ UNCHANGED <<posted, cursor, active, allowed, stored, hand, events>>
----------------------------------------------------------------------------
HandStep(h) == (\E m \in Messages : HandRead(h, m)) \/ HandUpsert(h) \/ HandStore(h) \/ HandFail(h)
RunStep == RunStart \/ RunFetch \/ RunStore \/ RunCheckpoint

Next == Post \/ Deactivate \/ (\E h \in Handlers : HandStep(h)) \/ RunStep \/ RunCut

Spec == Init /\ [][Next]_vars

\* The cron fires every ten minutes, and a run that is not cut goes on.
FairSpec == Spec /\ WF_vars(RunStep)
----------------------------------------------------------------------------
(* Properties *)

HandType == [pc : {"idle", "read", "upserted"}, msg : Ids, next : Ids]
RunType == [pc : {"idle", "fetch", "process"}, from : Ids, after : Ids,
            todo : SUBSET Media, maxSeen : Ids, hasMore : BOOLEAN, pages : 0..MaxPages - 1]

TypeOK ==
  /\ posted \in Ids /\ cursor \in Ids
  /\ active \in BOOLEAN /\ allowed \in BOOLEAN
  /\ stored \subseteq Media
  /\ hand \in [Handlers -> HandType] /\ run \in RunType
  /\ events \in 0..MaxEvents /\ cuts \in 0..MaxCuts

\* When a checkpoint moves the cursor of a group that was not switched off, every
\* media message from where the run began up to the new cursor is recorded: no
\* page is skipped, half processed or taken for longer than it was, whatever
\* handlers do to the cursor meanwhile.
CheckpointsCover ==
  [][RunCheckpoint /\ allowed /\ cursor' > cursor =>
       \A m \in Media : run.from < m /\ m <= cursor' => m \in stored]_vars

\* Every media message of a group that is not switched off is in the end recorded,
\* though its own update was lost, its handler failed, or later messages moved the
\* cursor past it.
EventuallyStored == \A m \in Media : m <= posted ~> m \in stored \/ ~allowed
=============================================================================
