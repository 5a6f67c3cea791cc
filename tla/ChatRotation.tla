---------------------------- MODULE ChatRotation ----------------------------
(***************************************************************************)
(* Which chats the reconciliation cron works on.  A run orders the chats that *)
(* are due in its schedule window, starts at an index that moves with the     *)
(* window's number, keeps at most cap of them and lets a few workers take     *)
(* them in order until its time is up.  A checkpointed page makes its chat    *)
(* not due for the rest of the window.                                        *)
(*                                                                          *)
(* One run at a time (ReconcileLease).  The clock is counted modulo Cycle:    *)
(* the index depends on the window's number modulo the number of due chats.   *)
(* MaxSlips bounds the runs that overrun the next cron or are lost.           *)
(***************************************************************************)
EXTENDS Integers, FiniteSetsExt

CONSTANTS
  Chats,     \* chat ids, in the order of the sort
  Settings,  \* records: cap, interval, cron, budget, perRun, workers
  Cycle,     \* bound: the clock's modulus
  MaxSlips   \* bound

Setting == [cap : Nat \ {0},      \* RECONCILIATION_MAX_CHATS_PER_RUN
            interval : Nat \ {0}, \* RECONCILIATION_INTERVAL_MIN
            cron : Nat \ {0},     \* the ten minutes of @Cron
            budget : Nat \ {0},   \* RECONCILIATION_RUN_BUDGET_MS
            perRun : Nat \ {0},   \* chats the budget is enough for
            workers : Nat \ {0}]  \* RECONCILIATION_CHAT_CONCURRENCY

ASSUME ChatsAssumption == Chats \subseteq Nat /\ IsFiniteSet(Chats)
ASSUME SettingsAssumption ==
  /\ Settings \subseteq Setting
  \* getConfig throws otherwise.
  /\ \A s \in Settings : s.budget < s.interval
ASSUME CycleAssumption ==
  /\ Cycle \in Nat \ {0} /\ MaxSlips \in Nat
  /\ \A s \in Settings :
       /\ Cycle % s.cron = 0
       /\ \A n \in 1..Cardinality(Chats) : Cycle % (n * s.interval) = 0

VARIABLES
  set,      \* the deployment's setting
  members,  \* chats of active groups or users, aliases folded
  now,
  pending,  \* the cron is to fire
  fresh,    \* chats whose lastReconciledAt lies in the present window
  run,      \* reconcile(), after the lease
  slips

vars == <<set, members, now, pending, fresh, run, slips>>

NoRun == [on |-> FALSE, started |-> 0, todo |-> {}, turn |-> [c \in Chats |-> 0],
          busy |-> {}, taken |-> 0, over |-> FALSE]

Init ==
  /\ set \in Settings /\ members \in (SUBSET Chats) \ {{}}
  /\ now = 0 /\ pending = TRUE /\ fresh = {} /\ run = NoRun /\ slips = MaxSlips
----------------------------------------------------------------------------
Window(t) == t \div set.interval
Elapsed == (now - run.started + Cycle) % Cycle
InBudget == Elapsed < set.budget
canStartWork == run.on /\ ~run.over /\ InBudget

\* Time passes.  The budget is enough for perRun chats; a run is over before the
\* cron fires again, unless its budget or its last step lasts longer.
Tick ==
  LET t == (now + 1) % Cycle
      cronTime == t % set.cron = 0
      overrun == run.on /\ ~InBudget /\ cronTime
  IN  /\ ~pending
      /\ canStartWork /\ Elapsed + 1 >= set.budget => run.todo = {} \/ run.taken >= set.perRun
      /\ overrun => slips > 0
      /\ slips' = IF overrun THEN slips - 1 ELSE slips
      /\ now' = t /\ pending' = cronTime
      /\ fresh' = IF Window(t) = Window(now) THEN fresh ELSE {}
      /\ UNCHANGED <<set, members, run>>

\* The lease is refused while a run holds it, a dead one's until it expires.
RunSkip ==
  /\ pending /\ run.on
  /\ pending' = FALSE
  /\ UNCHANGED <<set, members, now, fresh, run, slips>>

\* A renewal fails, or the process dies.
LeaseLost ==
  /\ canStartWork /\ slips > 0
  /\ run' = [run EXCEPT !.over = TRUE]
  /\ slips' = slips - 1
  /\ UNCHANGED <<set, members, now, pending, fresh>>
----------------------------------------------------------------------------
(* selectReconciliationCandidates *)

\* Mutant: a chat reconciled in this window is due again.
DueAlways == members
Due == members \ fresh

\* Mutant: every run begins with the first chat.
StartAtFirst(n) == 0
startIndex(n) == (Window(now) * set.cap) % n

\* The place of a due chat in the rotated list.
Turn(c) ==
  LET n == Cardinality(Due)
      rank == Cardinality({d \in Due : d < c})
  IN  (rank - startIndex(n) + n) % n

Candidates == {c \in Due : Turn(c) < set.cap}

RunStart ==
  /\ pending /\ ~run.on
  /\ run' = [NoRun EXCEPT !.on = TRUE, !.started = now, !.todo = Candidates,
                          !.turn = [c \in Chats |-> IF c \in Due THEN Turn(c) ELSE 0]]
  /\ pending' = FALSE
  /\ UNCHANGED <<set, members, now, fresh, slips>>
----------------------------------------------------------------------------
(* runBounded and reconcileGroup *)

\* A free worker takes the next chat and asks for its history.
ChatStart(c) ==
  /\ canStartWork /\ Cardinality(run.busy) < set.workers
  /\ c \in run.todo /\ \A d \in run.todo : run.turn[c] <= run.turn[d]
  /\ run' = [run EXCEPT !.todo = @ \ {c}, !.busy = @ \cup {c}, !.taken = @ + 1]
  /\ UNCHANGED <<set, members, now, pending, fresh, slips>>

\* checkpointHistoryPage writes lastReconciledAt.
ChatCheckpoint(c) ==
  /\ canStartWork /\ c \in run.busy
  /\ fresh' = fresh \cup {c}
  /\ UNCHANGED <<set, members, now, pending, run, slips>>

\* The chat is completed, deferred, or failed at any point.
ChatEnd(c) ==
  /\ c \in run.busy
  /\ run' = [run EXCEPT !.busy = @ \ {c}]
  /\ UNCHANGED <<set, members, now, pending, fresh, slips>>

\* Mutant: the workers are not awaited.
EndUnawaited ==
  /\ run.on /\ (run.todo = {} \/ ~canStartWork)
  /\ run' = [NoRun EXCEPT !.busy = run.busy]
  /\ UNCHANGED <<set, members, now, pending, fresh, slips>>
RunEnd ==
  /\ run.on /\ run.busy = {} /\ (run.todo = {} \/ ~canStartWork)
  /\ run' = NoRun
  /\ UNCHANGED <<set, members, now, pending, fresh, slips>>
----------------------------------------------------------------------------
RunAction == LeaseLost \/ RunEnd \/ \E c \in Chats : ChatStart(c) \/ ChatCheckpoint(c) \/ ChatEnd(c)

Next == Tick \/ RunSkip \/ RunStart \/ RunAction

Spec == Init /\ [][Next]_vars

\* Time passes, the cron fires, and a run goes on until it ends.
FairSpec ==
  /\ Spec /\ WF_vars(Tick) /\ WF_vars(RunStart \/ RunSkip) /\ WF_vars(RunEnd)
  /\ \A c \in Chats : WF_vars(ChatStart(c)) /\ WF_vars(ChatEnd(c))
----------------------------------------------------------------------------
(* Properties *)

TypeOK ==
  /\ set \in Settings /\ members \subseteq Chats
  /\ now \in 0..Cycle - 1 /\ pending \in BOOLEAN /\ slips \in 0..MaxSlips
  /\ fresh \subseteq members
  /\ run \in [on : BOOLEAN, started : 0..Cycle - 1, todo : SUBSET members, turn : [Chats -> Nat],
              busy : SUBSET members, taken : Nat, over : BOOLEAN]
  /\ run.todo \cap run.busy = {}
  /\ ~run.on => run = NoRun

\* A chat is not taken again in a schedule window in which one of its pages was
\* already checkpointed, whatever runs the window has or shares with the last one.
OncePerWindow == [][\A c \in run'.busy \ run.busy : c \notin fresh]_vars

GCD(a, b) == Max({d \in 1..a : a % d = 0 /\ b % d = 0})
\* The step from one run's first chat to the next one's.
Stride == set.cap * (IF set.cron > set.interval THEN set.cron \div set.interval ELSE 1)
\* Successive runs begin at every multiple of the divisor: a run has to get as far
\* as where another one begins.
Enough == GCD(Cardinality(members), Stride) <= Min({set.perRun, set.cap})

\* Every chat is tried again and again, wherever the sort puts it and whichever
\* chats fail, provided that the budget is enough for the greatest common divisor
\* of the number of chats and the step between runs.
EveryChatTried == Enough => \A c \in Chats : []<>(c \in members => c \in run.busy)
=============================================================================
