--------------------------- MODULE ReconcileLease ---------------------------
(***************************************************************************)
(* The reconciliation cron of several ingestor instances and the Redis lease *)
(* that is to keep its runs apart.  A run fixes its deadline before it asks   *)
(* for the lease, starts work only before the deadline, renews on a timer     *)
(* and releases at the end.  Commands reach Redis and replies come back any   *)
(* time later; a reply may be lost, and the client then sends the command     *)
(* again.  One clock: only durations matter, so clocks may differ by a        *)
(* constant.  MaxTime bounds it.                                              *)
(***************************************************************************)
EXTENDS Integers

CONSTANTS
  Runs,     \* runs of all instances; each has a token of its own
  None,     \* no token
  TTL,      \* RECONCILIATION_LEASE_TTL_MS
  Budget,   \* RECONCILIATION_RUN_BUDGET_MS
  MaxTime   \* bound

ASSUME TimesAssumption == TTL \in Nat /\ Budget \in Nat /\ MaxTime \in Nat
\* getConfig throws otherwise.
ASSUME BudgetAssumption == Budget < TTL
ASSUME NoneAssumption == None \notin Runs

VARIABLES
  now,
  lease,  \* the Redis key: token and expiry
  run     \* reconcile(), per run

vars == <<now, lease, run>>

Free == [by |-> None, until |-> 0]
NewRun == [pc |-> "idle", deadline |-> 0, lost |-> FALSE, busy |-> FALSE]

Init == now = 0 /\ lease = Free /\ run = [r \in Runs |-> NewRun]

Taken == lease.by # None /\ now <= lease.until
HeldBy(r) == lease.by = r /\ Taken

Tick == now < MaxTime /\ now' = now + 1 /\ UNCHANGED <<lease, run>>
----------------------------------------------------------------------------
\* The cron fires: startedAt and deadlineAt, then SET key token PX ttl NX.
RunRequest(r) ==
  /\ run[r].pc = "idle"
  /\ run' = [run EXCEPT ![r].pc = "asked", ![r].deadline = now + Budget]
  /\ UNCHANGED <<now, lease>>

\* acquireLease in Redis.
LeaseAcquire(r) ==
  /\ run[r].pc = "asked"
  /\ lease' = IF Taken THEN lease ELSE [by |-> r, until |-> now + TTL]
  /\ run' = [run EXCEPT ![r].pc = IF Taken THEN "refused" ELSE "granted"]
  /\ UNCHANGED now

\* The connection breaks before the reply; the command is sent once more.
ReplyLost(r) ==
  /\ run[r].pc \in {"granted", "refused"}
  /\ run' = [run EXCEPT ![r].pc = "asked"]
  /\ UNCHANGED <<now, lease>>

\* Mutant: the deadline counts from the reply.
BeginFromReply(r) ==
  /\ run[r].pc = "granted"
  /\ run' = [run EXCEPT ![r].pc = "running", ![r].deadline = now + Budget]
  /\ UNCHANGED <<now, lease>>
RunBegin(r) ==
  /\ run[r].pc = "granted"
  /\ run' = [run EXCEPT ![r].pc = "running"]
  /\ UNCHANGED <<now, lease>>

RunSkip(r) ==
  /\ run[r].pc = "refused"
  /\ run' = [run EXCEPT ![r].pc = "done"]
  /\ UNCHANGED <<now, lease>>

canStartWork(r) == run[r].pc = "running" /\ ~run[r].lost /\ now < run[r].deadline

\* A recovery, a page, a message, a checkpoint; it may take any time.
StepBegin(r) ==
  /\ canStartWork(r) /\ ~run[r].busy
  /\ run' = [run EXCEPT ![r].busy = TRUE]
  /\ UNCHANGED <<now, lease>>

StepEnd(r) ==
  /\ run[r].busy
  /\ run' = [run EXCEPT ![r].busy = FALSE]
  /\ UNCHANGED <<now, lease>>

\* renewLease in Redis, whenever the timer fires.
LeaseRenew(r) ==
  /\ run[r].pc = "running" /\ HeldBy(r)
  /\ lease' = [lease EXCEPT !.until = now + TTL]
  /\ UNCHANGED <<now, run>>

\* renewReconciliationLease: the renewal was denied, or failed, perhaps though
\* Redis did it.
RenewFail(r) ==
  /\ run[r].pc = "running"
  /\ run' = [run EXCEPT ![r].lost = TRUE]
  /\ UNCHANGED <<now, lease>>

\* Mutant: the chats' work is not awaited.
EndUnawaited(r) ==
  /\ run[r].pc = "running"
  /\ run' = [run EXCEPT ![r].pc = "releasing"]
  /\ UNCHANGED <<now, lease>>
\* Work done, or none may be started any more: the timer is cleared.
RunEnd(r) ==
  /\ run[r].pc = "running" /\ ~run[r].busy
  /\ run' = [run EXCEPT ![r].pc = "releasing"]
  /\ UNCHANGED <<now, lease>>

\* Mutant: the release does not look at the token.
ReleaseAnyones(r) ==
  /\ run[r].pc = "releasing"
  /\ lease' = Free
  /\ run' = [run EXCEPT ![r].pc = "done"]
  /\ UNCHANGED now
LeaseRelease(r) ==
  /\ run[r].pc = "releasing"
  /\ lease' = IF HeldBy(r) THEN Free ELSE lease
  /\ run' = [run EXCEPT ![r].pc = "done"]
  /\ UNCHANGED now

\* The process dies, or the release fails: the key stays until it expires.
RunDie(r) ==
  /\ run[r].pc \notin {"idle", "done"}
  /\ run' = [run EXCEPT ![r].pc = "done", ![r].busy = FALSE]
  /\ UNCHANGED <<now, lease>>
----------------------------------------------------------------------------
RunAction(r) ==
  \/ RunRequest(r) \/ LeaseAcquire(r) \/ ReplyLost(r) \/ RunBegin(r) \/ RunSkip(r)
  \/ StepBegin(r) \/ StepEnd(r) \/ LeaseRenew(r) \/ RenewFail(r)
  \/ RunEnd(r) \/ LeaseRelease(r) \/ RunDie(r)

Next == Tick \/ \E r \in Runs : RunAction(r)

Spec == Init /\ [][Next]_vars
----------------------------------------------------------------------------
(* Properties *)

RunType == [pc : {"idle", "asked", "granted", "refused", "running", "releasing", "done"},
            deadline : Nat, lost : BOOLEAN, busy : BOOLEAN]

TypeOK ==
  /\ now \in 0..MaxTime
  /\ lease \in [by : Runs \cup {None}, until : Nat]
  /\ run \in [Runs -> RunType]
  /\ \A r \in Runs : run[r].busy => run[r].pc = "running"

\* No two runs may both begin work: however late commands and replies arrive,
\* a run's right to begin work ends before its lease can pass to another.
SoleWorker == \A r, s \in Runs : canStartWork(r) /\ canStartWork(s) => r = s
=============================================================================
