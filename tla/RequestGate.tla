---------------------------- MODULE RequestGate ----------------------------
(***************************************************************************)
(* The gates every Telegram request passes: in each process a queue with a    *)
(* concurrency, a rate and a FloodWait pause, and behind it the permits the    *)
(* processes share in Redis, with the same limits for all of them together.    *)
(*                                                                            *)
(* Times are what is left of them: every Tick takes one from each, so that      *)
(* time is not bounded.  Off is a timer that is not set, no deadline, or no      *)
(* token.                                                                      *)
(***************************************************************************)
EXTENDS Integers, Sequences, FiniteSets

CONSTANTS
  Processes,
  Requests,     \* callers of TelegramRequestGate.run, again and again
  Home,         \* the process of each request
  Concurrency,  \* RECONCILIATION_CHAT_CONCURRENCY: of a gate, and of all permits
  Interval,     \* time between two requests
  SlotTtl,      \* TELEGRAM_REQUEST_SLOT_TTL_MS
  Floods,       \* FloodWait durations
  Deadlines,    \* of each request: durations until its deadline, and Off for none
  MayFail,      \* whether commands to Redis fail or lose their replies
  Off

ASSUME GateAssumption ==
  /\ Concurrency \in Nat \ {0} /\ Interval \in Nat \ {0} /\ SlotTtl \in Nat \ {0}
  /\ Floods \subseteq Nat /\ Home \in [Requests -> Processes]
  /\ Off \notin Nat /\ Deadlines \in [Requests -> SUBSET (Nat \cup {Off})] /\ MayFail \in BOOLEAN
ASSUME RequestsAssumption == IsFiniteSet(Requests)

VARIABLES
  gate,    \* TelegramRequestGate, per process
  req,     \* run(), per request: pc, time left to its deadline, FloodWait met
  slots,   \* Redis telegram:request-slots: time left of each token, 0 when it has
           \* expired and was not purged, Off for none
  shared,  \* Redis telegram:next-request-at and telegram:flood-until
  banned   \* time left of the longest FloodWait that reached Redis

vars == <<gate, req, slots, shared, banned>>
redis == <<slots, shared, banned>>

Later(a, b) == IF a > b THEN a ELSE b
\* The earlier of a time and a deadline.
Sooner(a, d) == IF d = Off \/ a < d THEN a ELSE d

\* flood is the FloodWait it met.
IdleRequest == [pc |-> "idle", left |-> Off, flood |-> 0]

Init ==
  /\ gate = [p \in Processes |-> [waiters |-> <<>>, inFlight |-> 0, next |-> 0, blocked |-> 0, wake |-> Off]]
  /\ req = [r \in Requests |-> IdleRequest]
  /\ slots = [r \in Requests |-> Off]
  /\ shared = [next |-> 0, flood |-> 0]
  /\ banned = 0

Live == {r \in Requests : slots[r] \notin {0, Off}}

Less(t) == IF t = 0 \/ t = Off THEN t ELSE t - 1
\* The whole set goes (PEXPIRE) after the last of its tokens has expired.
Tick ==
  /\ gate' = [p \in Processes |-> [gate[p] EXCEPT !.next = Less(@), !.blocked = Less(@), !.wake = Less(@)]]
  /\ req' = [r \in Requests |-> [req[r] EXCEPT !.left = Less(@)]]
  /\ slots' = [r \in Requests |-> IF Live = {} THEN Off ELSE Less(slots[r])]
  /\ shared' = [next |-> Less(shared.next), flood |-> Less(shared.flood)]
  /\ banned' = Less(banned)
----------------------------------------------------------------------------
(* drain(): from the front of the queue, rejects who is late, starts who may *)
(* start, and otherwise sets the timer.  A start moves nextRequestAt ahead,  *)
(* so one drain starts at most one request.                                  *)

\* The queue without the late ones at its front.
Awaited(ws, rs) ==
  LET timely == {i \in DOMAIN ws : rs[ws[i]].left # 0}
  IN  IF timely = {} THEN <<>>
      ELSE SubSeq(ws, CHOOSE i \in timely : \A j \in timely : i <= j, Len(ws))

ReadyIn(g) == Later(g.next, g.blocked)

\* Where a place is free: the late ones rejected, the wakeTimer set for the first.
Timed(g, rs) ==
  LET ws == Awaited(g.waiters, rs)
  IN  IF g.inFlight >= Concurrency THEN [g EXCEPT !.wake = Off]
      ELSE [g EXCEPT !.waiters = ws,
                     !.wake = IF ws = <<>> THEN Off ELSE Sooner(ReadyIn(g), rs[Head(ws)].left)]

\* Who a drain of g starts: nobody, or the first that is not late.
Started(g, rs) ==
  {r \in Requests : /\ g.inFlight < Concurrency /\ ReadyIn(g) = 0
                    /\ Awaited(g.waiters, rs) # <<>> /\ r = Head(Awaited(g.waiters, rs))}

\* Mutant: no timer while the gate is paused.
DrainNoTimer(g, rs) ==
  IF Started(g, rs) = {} THEN [Timed(g, rs) EXCEPT !.wake = IF g.blocked > 0 THEN Off ELSE @]
  ELSE Timed([g EXCEPT !.waiters = Tail(Awaited(@, rs)), !.inFlight = @ + 1, !.next = Interval], rs)
Drain(g, rs) ==
  IF Started(g, rs) = {} THEN Timed(g, rs)
  ELSE Timed([g EXCEPT !.waiters = Tail(Awaited(@, rs)), !.inFlight = @ + 1, !.next = Interval], rs)

Queue(g) == {g.waiters[i] : i \in DOMAIN g.waiters}

\* Process p's gate, g, is drained; the requests are rs but for those the drain
\* starts or rejects.
DrainTo(p, g, rs) ==
  LET after == Drain(g, rs)
  IN  /\ gate' = [gate EXCEPT ![p] = after]
      /\ req' = [r \in Requests |->
                   IF r \in Started(g, rs) THEN [rs[r] EXCEPT !.pc = "asking"]
                   ELSE IF r \in Queue(g) \ Queue(after) THEN IdleRequest
                   ELSE rs[r]]
----------------------------------------------------------------------------
(* run(), in its process *)

\* acquire(): last in the queue, and drain.
Enter(r) ==
  /\ req[r].pc = "idle"
  /\ \E d \in Deadlines[r] \ {0} :
       DrainTo(Home[r], [gate[Home[r]] EXCEPT !.waiters = Append(@, r)],
               [req EXCEPT ![r] = [IdleRequest EXCEPT !.pc = "waiting", !.left = d]])
  /\ UNCHANGED redis

\* The queue without r: indexOf and splice.
Spliced(ws, r) ==
  LET i == CHOOSE j \in DOMAIN ws : ws[j] = r
  IN  SubSeq(ws, 1, i - 1) \o SubSeq(ws, i + 1, Len(ws))

\* The deadline's own timer takes the waiter out; it does not drain.
WaiterTimeout(r) ==
  /\ req[r].pc = "waiting" /\ req[r].left = 0
  /\ gate' = [gate EXCEPT ![Home[r]].waiters = Spliced(@, r)]
  /\ req' = [req EXCEPT ![r] = IdleRequest]
  /\ UNCHANGED redis

WakeFire(p) ==
  /\ gate[p].wake = 0
  /\ DrainTo(p, gate[p], req)
  /\ UNCHANGED redis

\* finally: the place is given back, and drain.
LeaveTo(r, g) == DrainTo(Home[r], [g EXCEPT !.inFlight = @ - 1], [req EXCEPT ![r] = IdleRequest])

\* Mutant: the place is given back, but nobody is woken.
LeaveQuietly(r) ==
  /\ req[r].pc = "leaving"
  /\ gate' = [gate EXCEPT ![Home[r]].inFlight = @ - 1]
  /\ req' = [req EXCEPT ![r] = IdleRequest]
  /\ UNCHANGED redis
Leave(r) ==
  /\ req[r].pc = "leaving"
  /\ LeaveTo(r, gate[Home[r]])
  /\ UNCHANGED redis

\* Mutant: an error before the work keeps the place.
GiveUpKeepsPlace(r) ==
  /\ req[r].pc = "asking"
  /\ req[r].left = 0 \/ MayFail
  /\ req' = [req EXCEPT ![r] = IdleRequest]
  /\ UNCHANGED <<gate, redis>>
\* No permit before the deadline, or Redis fails: acquireTelegramRequestPermit throws.
PermitGiveUp(r) ==
  /\ req[r].pc = "asking"
  /\ req[r].left = 0 \/ MayFail
  /\ LeaveTo(r, gate[Home[r]])
  /\ UNCHANGED redis

WorkDone(r) ==
  /\ req[r].pc = "working"
  /\ req' = [req EXCEPT ![r].pc = "releasing"]
  /\ UNCHANGED <<gate, redis>>

\* Telegram answers with a FloodWait: deferFor pauses this process's gate.
WorkFlood(r) ==
  /\ req[r].pc = "working"
  /\ \E delay \in Floods :
       /\ DrainTo(Home[r], [gate[Home[r]] EXCEPT !.blocked = Later(@, delay)],
                  [req EXCEPT ![r] = [@ EXCEPT !.pc = "deferring", !.flood = delay]])
  /\ UNCHANGED redis
----------------------------------------------------------------------------
(* The scripts in Redis *)

\* ZREMRANGEBYSCORE: the tokens that have expired are purged.
Purged == [r \in Requests |-> IF r \in Live THEN slots[r] ELSE Off]

PermitFree == shared.flood = 0 /\ Cardinality(Live) < Concurrency /\ shared.next = 0

\* ACQUIRE: the permit, after which the deadline is not looked at again, unless its reply is lost and the script is sent again.
PermitGrant(r) ==
  /\ req[r].pc = "asking" /\ PermitFree
  /\ slots' = [Purged EXCEPT ![r] = SlotTtl]
  /\ shared' = [shared EXCEPT !.next = Interval]
  /\ req' = [req EXCEPT ![r] = [IdleRequest EXCEPT !.pc = "working"]]
  /\ UNCHANGED <<gate, banned>>

PermitGrantLost(r) ==
  /\ req[r].pc = "asking" /\ PermitFree /\ MayFail
  /\ slots' = [Purged EXCEPT ![r] = SlotTtl]
  /\ shared' = [shared EXCEPT !.next = Interval]
  /\ UNCHANGED <<gate, req, banned>>

\* No permit yet: unless there is a FloodWait, the expired tokens are purged all the same.
PermitRefused(r) ==
  /\ req[r].pc = "asking" /\ shared.flood = 0 /\ ~PermitFree
  /\ slots' = Purged
  /\ UNCHANGED <<gate, req, shared, banned>>

\* Mutant: the token is put back, whether it is still there or not.
RenewAnyToken(r) ==
  /\ req[r].pc \in {"working", "deferring", "releasing"}
  /\ slots' = [slots EXCEPT ![r] = SlotTtl]
  /\ UNCHANGED <<gate, req, shared, banned>>
\* RENEW, sent until the work is over: any token that is still there, be it expired.
PermitRenew(r) ==
  /\ req[r].pc \in {"working", "deferring", "releasing"} /\ slots[r] # Off
  /\ slots' = [slots EXCEPT ![r] = SlotTtl]
  /\ UNCHANGED <<gate, req, shared, banned>>

\* ZREM, and then the process goes on; or the command fails.
PermitRelease(r) ==
  /\ req[r].pc = "releasing"
  /\ slots' = [slots EXCEPT ![r] = Off]
  /\ req' = [req EXCEPT ![r].pc = "leaving"]
  /\ UNCHANGED <<gate, shared, banned>>

PermitReleaseFail(r) ==
  /\ req[r].pc = "releasing" /\ MayFail
  /\ req' = [req EXCEPT ![r].pc = "leaving"]
  /\ UNCHANGED <<gate, redis>>

\* Mutant: the last FloodWait counts, not the longest.
DeferLast(r) ==
  /\ req[r].pc = "deferring"
  /\ shared' = [shared EXCEPT !.flood = req[r].flood]
  /\ banned' = Later(banned, req[r].flood)
  /\ req' = [req EXCEPT ![r].pc = "releasing"]
  /\ UNCHANGED <<gate, slots>>
\* DEFER: the pause of all processes becomes at least as long.
Defer(r) ==
  /\ req[r].pc = "deferring"
  /\ shared' = [shared EXCEPT !.flood = Later(@, req[r].flood)]
  /\ banned' = Later(banned, req[r].flood)
  /\ req' = [req EXCEPT ![r].pc = "releasing"]
  /\ UNCHANGED <<gate, slots>>

DeferFail(r) ==
  /\ req[r].pc = "deferring" /\ MayFail
  /\ req' = [req EXCEPT ![r].pc = "releasing"]
  /\ UNCHANGED <<gate, redis>>
----------------------------------------------------------------------------
Answer(r) == WaiterTimeout(r) \/ WorkDone(r) \/ WorkFlood(r)
Permit(r) == PermitGrant(r) \/ PermitGrantLost(r) \/ PermitRefused(r)
Return(r) == Defer(r) \/ DeferFail(r) \/ PermitRelease(r) \/ PermitReleaseFail(r) \/ Leave(r)

\* What a request does at once, or when its deadline has passed.
GoOn(r) == Answer(r) \/ Return(r) \/ (PermitGiveUp(r) /\ req[r].left = 0)

Next ==
  \/ Tick
  \/ \E p \in Processes : WakeFire(p)
  \/ \E r \in Requests : Enter(r) \/ Answer(r) \/ Permit(r) \/ PermitGiveUp(r) \/ PermitRenew(r) \/ Return(r)

Spec == Init /\ [][Next]_vars

\* Time passes, timers fire, Telegram answers and Redis is reached; whoever polls
\* for a permit again and again meets a free one at some time.
FairSpec ==
  /\ Spec /\ WF_vars(Tick) /\ \A p \in Processes : WF_vars(WakeFire(p))
  /\ \A r \in Requests : SF_vars(PermitGrant(r)) /\ WF_vars(GoOn(r))
----------------------------------------------------------------------------
(* Properties *)

Pcs == {"idle", "waiting", "asking", "working", "deferring", "releasing", "leaving"}
InFlight(p) == {r \in Requests : Home[r] = p /\ req[r].pc \notin {"idle", "waiting"}}

\* A gate's counter and queue are the requests that hold a place or wait for one:
\* no error path loses a place.
TypeOK ==
  /\ \A p \in Processes :
       LET g == gate[p]
       IN  /\ g.inFlight = Cardinality(InFlight(p)) /\ g.inFlight <= Concurrency
           /\ g.next \in Nat /\ g.blocked \in Nat /\ g.wake \in Nat \cup {Off}
           /\ Queue(g) = {r \in Requests : Home[r] = p /\ req[r].pc = "waiting"}
           /\ Len(g.waiters) = Cardinality(Queue(g))
  /\ req \in [Requests -> [pc : Pcs, left : Nat \cup {Off}, flood : Nat]]
  /\ slots \in [Requests -> 0..SlotTtl \cup {Off}]
  /\ shared \in [next : Nat, flood : Nat] /\ banned \in Nat

\* While a place is free and somebody waits, a timer is set for when the gate
\* opens: no waiter is forgotten.
NoLostWakeup ==
  \A p \in Processes :
    LET g == gate[p]
    IN  g.waiters # <<>> /\ g.inFlight < Concurrency => g.wake # Off /\ g.wake <= ReadyIn(g)

\* All processes together hold no more permits than allowed, although holders
\* stall, their tokens expire and are given away, and they renew them late.
SlotBound == Cardinality(Live) <= Concurrency

\* No process is given a permit before the longest FloodWait any of them has
\* shared is over.
FloodHonoured ==
  [][\A r \in Requests : req[r].pc = "asking" /\ req'[r].pc = "working" => banned = 0]_vars

\* Every request that waits gets its turn or is told that it is too late.
EveryoneAnswered == \A r \in Requests : req[r].pc \in {"waiting", "asking"} ~> req[r].pc \notin {"waiting", "asking"}
=============================================================================
