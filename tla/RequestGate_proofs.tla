------------------------- MODULE RequestGate_proofs -------------------------
(***************************************************************************)
(* The permits in Redis: for any number of processes and requests and any    *)
(* durations, no more tokens than allowed are in Redis, expired ones that may *)
(* yet be renewed included (Inv), so no more permits are alive; and none is   *)
(* given before the longest shared FloodWait is over.  What the gates in the        *)
(* processes do, and what fails, plays no part: the scripts see to it alone.  *)
(*                                                                           *)
(* The gates in the processes: each queue holds whoever waits, once, the      *)
(* counter counts whoever holds a place, and a free place somebody waits for  *)
(* has a timer (Gates).  A drain starts waiters one after the other, so its   *)
(* lemmas are about the gate it leaves behind.                                *)
(***************************************************************************)
EXTENDS RequestGate, FiniteSetTheorems, TLAPS

ReqSet == [pc : Pcs, left : Nat \cup {Off}, flood : Nat]

Typed ==
  /\ req \in [Requests -> ReqSet]
  /\ slots \in [Requests -> Nat \cup {Off}]
  /\ shared \in [next : Nat, flood : Nat] /\ banned \in Nat

\* The tokens in Redis, alive or expired: what a renewal may bring back.
Held == {r \in Requests : slots[r] # Off}

\* The FloodWait in Redis lasts as long as the longest that was shared.
Inv == Typed /\ banned <= shared.flood /\ Cardinality(Held) <= Concurrency

LEMMA InitInv == Init => Inv
<1> SUFFICES ASSUME Init PROVE Inv
  OBVIOUS
<1>1. Typed /\ banned <= shared.flood
  BY DEF Init, IdleRequest, Typed, ReqSet, Pcs
<1>2. Held = {}
  BY DEF Init, Held
<1> QED BY <1>1, <1>2, FS_EmptySet, GateAssumption DEF Inv

\* A drain starts and rejects waiters, and gives no permit.
LEMMA DrainTyped ==
  ASSUME NEW p, NEW g, NEW rs \in [Requests -> ReqSet], DrainTo(p, g, rs)
  PROVE  /\ req' \in [Requests -> ReqSet]
         /\ \A r \in Requests : req'[r].pc = "working" => rs[r].pc = "working"
<1>1. req' = [r \in Requests |-> IF r \in Started(g, rs) THEN [rs[r] EXCEPT !.pc = "asking"]
                                 ELSE IF r \in Queue(g) \ Queue(Drain(g, rs)) THEN IdleRequest
                                 ELSE rs[r]]
  BY DEF DrainTo
<1>2. IdleRequest \in ReqSet /\ IdleRequest.pc = "idle"
  BY DEF IdleRequest, ReqSet, Pcs
<1>3. ASSUME NEW r \in Requests
      PROVE  /\ rs[r] \in ReqSet /\ [rs[r] EXCEPT !.pc = "asking"] \in ReqSet
             /\ [rs[r] EXCEPT !.pc = "asking"].pc = "asking"
  BY DEF ReqSet, Pcs
<1> QED BY <1>1, <1>2, <1>3

\* What happens in a process leaves Redis alone and gives no permit.
LEMMA LocalStep ==
  ASSUME Inv, NEW r \in Requests, Enter(r) \/ Answer(r) \/ Leave(r) \/ PermitGiveUp(r)
  PROVE  /\ req' \in [Requests -> ReqSet] /\ UNCHANGED redis
         /\ \A q \in Requests : req'[q].pc = "working" => req[q].pc = "working"
<1>t. req \in [Requests -> ReqSet]
  BY DEF Inv, Typed
<1>i. IdleRequest \in ReqSet /\ IdleRequest.pc = "idle"
  BY DEF IdleRequest, ReqSet, Pcs
<1>1. CASE Enter(r)
  <2>1. PICK d \in Deadlines[r] : DrainTo(Home[r], [gate[Home[r]] EXCEPT !.waiters = Append(@, r)],
                                       [req EXCEPT ![r] = [IdleRequest EXCEPT !.pc = "waiting", !.left = d]])
    BY <1>1 DEF Enter
  <2>2. d \in Nat \cup {Off}
    BY GateAssumption
  <2> DEFINE w == [IdleRequest EXCEPT !.pc = "waiting", !.left = d]
  <2>3. w \in ReqSet /\ w.pc = "waiting"
    BY <1>i, <2>2 DEF ReqSet, Pcs
  <2> HIDE DEF w
  <2>4. /\ [req EXCEPT ![r] = w] \in [Requests -> ReqSet]
        /\ \A q \in Requests : [req EXCEPT ![r] = w][q].pc = "working" => req[q].pc = "working"
    BY <1>t, <2>3
  <2>5. DrainTo(Home[r], [gate[Home[r]] EXCEPT !.waiters = Append(@, r)], [req EXCEPT ![r] = w])
    BY <2>1 DEF w
  <2>6. UNCHANGED redis
    BY <1>1 DEF Enter
  <2> QED BY <2>4, <2>5, <2>6, DrainTyped
<1>2. CASE WaiterTimeout(r)
  BY <1>t, <1>i, <1>2 DEF WaiterTimeout
<1>3. CASE WorkDone(r)
  BY <1>t, <1>3 DEF WorkDone, ReqSet, Pcs, redis
<1>4. CASE WorkFlood(r)
  <2>1. PICK delay \in Floods : DrainTo(Home[r], [gate[Home[r]] EXCEPT !.blocked = Later(@, delay)],
                                        [req EXCEPT ![r] = [@ EXCEPT !.pc = "deferring", !.flood = delay]])
    BY <1>4 DEF WorkFlood
  <2> DEFINE w == [req[r] EXCEPT !.pc = "deferring", !.flood = delay]
  <2>2. w \in ReqSet /\ w.pc = "deferring"
    BY <1>t, GateAssumption DEF ReqSet, Pcs
  <2>3. DrainTo(Home[r], [gate[Home[r]] EXCEPT !.blocked = Later(@, delay)], [req EXCEPT ![r] = w])
    BY <1>t, <2>1
  <2> HIDE DEF w
  <2>4. /\ [req EXCEPT ![r] = w] \in [Requests -> ReqSet]
        /\ \A q \in Requests : [req EXCEPT ![r] = w][q].pc = "working" => req[q].pc = "working"
    BY <1>t, <2>2
  <2>5. UNCHANGED redis
    BY <1>4 DEF WorkFlood
  <2> QED BY <2>3, <2>4, <2>5, DrainTyped
<1>5. CASE Leave(r) \/ PermitGiveUp(r)
  <2>1. DrainTo(Home[r], [gate[Home[r]] EXCEPT !.inFlight = @ - 1], [req EXCEPT ![r] = IdleRequest]) /\ UNCHANGED redis
    BY <1>5 DEF Leave, PermitGiveUp, LeaveTo
  <2>2. /\ [req EXCEPT ![r] = IdleRequest] \in [Requests -> ReqSet]
        /\ \A q \in Requests : [req EXCEPT ![r] = IdleRequest][q].pc = "working" => req[q].pc = "working"
    BY <1>t, <1>i
  <2> QED BY <2>1, <2>2, DrainTyped
<1> QED BY <1>1, <1>2, <1>3, <1>4, <1>5 DEF Answer

\* Tokens are few enough when none is added.
LEMMA FewerHeld == ASSUME Inv, Held' \subseteq Held PROVE Cardinality(Held') <= Concurrency
<1>1. IsFiniteSet(Held)
  BY RequestsAssumption, FS_Subset DEF Held
<1>2. IsFiniteSet(Held') /\ Cardinality(Held') <= Cardinality(Held)
  BY <1>1, FS_Subset
<1>3. Cardinality(Held) \in Nat /\ Cardinality(Held') \in Nat /\ Concurrency \in Nat
  BY <1>1, <1>2, FS_CardinalityType, GateAssumption
<1> QED BY <1>2, <1>3 DEF Inv

\* A purge keeps the live tokens only, which are too few where a permit is free.
LEMMA GrantBound ==
  ASSUME Inv, NEW r \in Requests, PermitFree, slots' = [Purged EXCEPT ![r] = SlotTtl]
  PROVE  Cardinality(Held') <= Concurrency
<1>1. IsFiniteSet(Live)
  BY RequestsAssumption, FS_Subset DEF Live
<1>2. Held' = Live \cup {r}
  BY GateAssumption DEF Held, Live, Purged
<1>3. Cardinality(Live) \in Nat /\ Cardinality(Held') <= Cardinality(Live) + 1 /\ Cardinality(Held') \in Nat
  <2>1. IsFiniteSet(Held') /\ (Cardinality(Held') = Cardinality(Live) \/ Cardinality(Held') = Cardinality(Live) + 1)
    BY <1>1, <1>2, FS_AddElement
  <2> QED BY <1>1, <2>1, FS_CardinalityType
<1> QED BY <1>3, GateAssumption DEF PermitFree

LEMMA PurgedType == ASSUME Typed PROVE Purged \in [Requests -> Nat \cup {Off}]
BY DEF Typed, Purged

LEMMA NextInv == Inv /\ [Next]_vars => Inv' /\ (\A r \in Requests : req[r].pc = "asking" /\ req'[r].pc = "working" => banned = 0)
<1> SUFFICES ASSUME Inv, [Next]_vars
             PROVE  Inv' /\ \A r \in Requests : req[r].pc = "asking" /\ req'[r].pc = "working" => banned = 0
  OBVIOUS
<1>t. Typed /\ banned <= shared.flood
  BY DEF Inv
<1>l. ASSUME req' \in [Requests -> ReqSet], UNCHANGED redis,
             \A r \in Requests : req'[r].pc = "working" => req[r].pc = "working"
      PROVE  Inv' /\ \A r \in Requests : req[r].pc = "asking" /\ req'[r].pc = "working" => banned = 0
  <2>1. Held' \subseteq Held
    BY <1>l DEF Held, redis
  <2> QED BY <1>t, <1>l, <2>1, FewerHeld DEF Inv, Typed, redis
<1>1. CASE Tick
  <2>1. \A t \in Nat : Less(t) \in Nat /\ Less(t) <= t /\ \A u \in Nat : u <= t => Less(u) <= Less(t)
    <3>1. \A t \in Nat : Less(t) = IF t = 0 THEN 0 ELSE t - 1
      BY GateAssumption DEF Less
    <3> QED BY <3>1
  <2>2. Held' \subseteq Held /\ slots' \in [Requests -> Nat \cup {Off}]
    <3>1. slots' = [r \in Requests |-> IF Live = {} THEN Off ELSE Less(slots[r])]
      BY <1>1 DEF Tick
    <3>2. \A r \in Requests : /\ slots'[r] \in Nat \cup {Off}
                              /\ slots'[r] # Off => slots[r] # Off
      BY <1>t, <2>1, <3>1 DEF Typed, Less
    <3> QED BY <3>1, <3>2 DEF Held
  <2>3. \A q \in ReqSet : [q EXCEPT !.left = Less(@)] \in ReqSet /\ [q EXCEPT !.left = Less(@)].pc = q.pc
    <3> TAKE q \in ReqSet
    <3>1. Less(q.left) \in Nat \cup {Off}
      BY <2>1 DEF Less, ReqSet
    <3> QED BY <3>1 DEF ReqSet
  <2>4. req' \in [Requests -> ReqSet] /\ \A r \in Requests : req'[r].pc = req[r].pc
    BY <1>t, <1>1, <2>3 DEF Tick, Typed
  <2>5. shared' \in [next : Nat, flood : Nat] /\ banned' \in Nat
    BY <1>t, <1>1, <2>1 DEF Tick, Typed
  <2>6. banned' <= shared'.flood
    <3>1. banned' = Less(banned) /\ shared'.flood = Less(shared.flood)
      BY <1>1 DEF Tick
    <3> QED BY <1>t, <2>1, <3>1 DEF Typed
  <2> QED BY <2>2, <2>4, <2>5, <2>6, FewerHeld DEF Inv, Typed
<1>2. CASE \E p \in Processes : WakeFire(p)
  <2>1. PICK p \in Processes : DrainTo(p, gate[p], req) /\ UNCHANGED redis
    BY <1>2 DEF WakeFire
  <2> QED BY <1>t, <1>l, <2>1, DrainTyped DEF Typed
<1>3. ASSUME NEW r \in Requests, Enter(r) \/ Answer(r) \/ Leave(r) \/ PermitGiveUp(r)
      PROVE  Inv' /\ \A q \in Requests : req[q].pc = "asking" /\ req'[q].pc = "working" => banned = 0
  BY <1>l, <1>3, LocalStep
<1>4. ASSUME NEW r \in Requests, PermitGrant(r) \/ PermitGrantLost(r)
      PROVE  Inv' /\ \A q \in Requests : req[q].pc = "asking" /\ req'[q].pc = "working" => banned = 0
  <2>1. /\ PermitFree /\ slots' = [Purged EXCEPT ![r] = SlotTtl] /\ shared' = [shared EXCEPT !.next = Interval]
        /\ banned' = banned
    BY <1>4 DEF PermitGrant, PermitGrantLost
  <2>2. req' \in [Requests -> ReqSet]
    BY <1>t, <1>4 DEF PermitGrant, PermitGrantLost, IdleRequest, Typed, ReqSet, Pcs
  <2>3. banned = 0
    BY <1>t, <2>1 DEF PermitFree, Typed
  <2>4. Cardinality(Held') <= Concurrency
    BY <2>1, GrantBound
  <2>5. Typed'
    BY <1>t, <2>1, <2>2, PurgedType, GateAssumption DEF Typed
  <2>6. banned' <= shared'.flood
    BY <1>t, <2>1 DEF Typed
  <2> QED BY <2>3, <2>4, <2>5, <2>6 DEF Inv
<1>5. ASSUME NEW r \in Requests, PermitRenew(r)
      PROVE  Inv' /\ \A q \in Requests : req[q].pc = "asking" /\ req'[q].pc = "working" => banned = 0
  <2>1. Held' \subseteq Held
    BY <1>t, <1>5 DEF PermitRenew, Held, Typed
  <2> QED BY <1>t, <1>5, <2>1, FewerHeld, GateAssumption DEF PermitRenew, Inv, Typed
<1>6. ASSUME NEW r \in Requests, DeferFail(r) \/ PermitReleaseFail(r)
      PROVE  Inv' /\ \A q \in Requests : req[q].pc = "asking" /\ req'[q].pc = "working" => banned = 0
  <2>1. req' \in [Requests -> ReqSet] /\ \A q \in Requests : req'[q].pc = "working" => req[q].pc = "working"
    BY <1>t, <1>6 DEF DeferFail, PermitReleaseFail, Typed, ReqSet, Pcs
  <2>2. UNCHANGED redis
    BY <1>6 DEF DeferFail, PermitReleaseFail
  <2> QED BY <1>l, <2>1, <2>2
<1>7. ASSUME NEW r \in Requests, PermitRelease(r)
      PROVE  Inv' /\ \A q \in Requests : req[q].pc = "asking" /\ req'[q].pc = "working" => banned = 0
  <2>1. Held' \subseteq Held
    BY <1>t, <1>7 DEF PermitRelease, Held, Typed
  <2>2. Typed' /\ \A q \in Requests : req'[q].pc = "working" => req[q].pc = "working"
    BY <1>t, <1>7 DEF PermitRelease, Typed, ReqSet, Pcs
  <2> QED BY <1>t, <1>7, <2>1, <2>2, FewerHeld DEF PermitRelease, Inv
<1>8. ASSUME NEW r \in Requests, Defer(r)
      PROVE  Inv' /\ \A q \in Requests : req[q].pc = "asking" /\ req'[q].pc = "working" => banned = 0
  <2>1. Held' \subseteq Held
    BY <1>8 DEF Defer, Held
  <2>2. req' \in [Requests -> ReqSet] /\ \A q \in Requests : req'[q].pc = "working" => req[q].pc = "working"
    BY <1>t, <1>8 DEF Defer, Typed, ReqSet, Pcs
  <2>3. req[r].flood \in Nat
    BY <1>t DEF Typed, ReqSet
  <2>4. /\ shared' \in [next : Nat, flood : Nat] /\ banned' \in Nat /\ slots' = slots
        /\ banned' <= shared'.flood
    BY <1>t, <1>8, <2>3 DEF Defer, Later, Typed
  <2> QED BY <1>t, <2>1, <2>2, <2>4, FewerHeld DEF Inv, Typed
<1>10. ASSUME NEW r \in Requests, PermitRefused(r)
       PROVE  Inv' /\ \A q \in Requests : req[q].pc = "asking" /\ req'[q].pc = "working" => banned = 0
  <2>1. slots' = Purged /\ req' = req /\ shared' = shared /\ banned' = banned
    BY <1>10 DEF PermitRefused
  <2>2. Held' \subseteq Held
    BY <2>1 DEF Purged, Held, Live
  <2>3. slots' \in [Requests -> Nat \cup {Off}]
    BY <1>t, <2>1, PurgedType
  <2> QED BY <1>t, <2>1, <2>2, <2>3, FewerHeld DEF Inv, Typed
<1>9. CASE UNCHANGED vars
  <2>1. UNCHANGED redis /\ req' = req
    BY <1>9 DEF vars, redis
  <2> QED BY <1>t, <1>l, <2>1 DEF Typed
<1> QED BY <1>1, <1>2, <1>3, <1>4, <1>5, <1>6, <1>7, <1>8, <1>9, <1>10 DEF Next, Permit, Return

LEMMA GateInv == Spec => []Inv
<1>1. Inv /\ [Next]_vars => Inv'
  BY NextInv
<1> QED BY <1>1, InitInv, PTL DEF Spec

\* All processes together never hold more permits than RECONCILIATION_CHAT_CONCURRENCY
\* (ACQUIRE_TELEGRAM_REQUEST_SCRIPT), although tokens expire under stalled holders,
\* are given away, come back when they are renewed late and before a purge
\* (RENEW_TELEGRAM_REQUEST_SCRIPT), and are given twice to one request.
THEOREM PermitsBounded == Spec => []SlotBound
<1>1. Inv => SlotBound
  <2> SUFFICES ASSUME Inv PROVE SlotBound
    OBVIOUS
  <2>1. IsFiniteSet(Held) /\ Live \subseteq Held
    BY RequestsAssumption, FS_Subset DEF Held, Live
  <2>2. IsFiniteSet(Live) /\ Cardinality(Live) <= Cardinality(Held)
    BY <2>1, FS_Subset
  <2>3. Cardinality(Held) \in Nat /\ Cardinality(Live) \in Nat /\ Concurrency \in Nat
    BY <2>1, <2>2, FS_CardinalityType, GateAssumption
  <2> QED BY <2>2, <2>3 DEF Inv, SlotBound
<1> QED BY <1>1, GateInv, PTL

\* No permit is given before the longest FloodWait shared by any process is over
\* (DEFER_TELEGRAM_REQUESTS_SCRIPT), whatever order the pauses arrive in.
THEOREM FloodWaitsHonoured == Spec => FloodHonoured
<1>1. Inv /\ [Next]_vars => [\A r \in Requests : req[r].pc = "asking" /\ req'[r].pc = "working" => banned = 0]_vars
  BY NextInv
<1> QED BY <1>1, GateInv, PTL DEF Spec, FloodHonoured
----------------------------------------------------------------------------
(* The gates in the processes: the queue of a gate is who waits for it, each *)
(* once, its counter is who holds a place, and its timer is set for when it  *)
(* opens.  What a drain leaves of a queue is an end of it.                    *)

GateSet == [waiters : Seq(Requests), inFlight : Int, next : Nat, blocked : Nat, wake : Nat \cup {Off}]
Once(ws) == \A i, j \in 1..Len(ws) : ws[i] = ws[j] => i = j
Waits(p, rs) == {r \in Requests : Home[r] = p /\ rs[r].pc = "waiting"}
Holds(p, rs) == {r \in Requests : Home[r] = p /\ rs[r].pc \notin {"idle", "waiting"}}

GateOK(p, g, rs) ==
  /\ g \in GateSet /\ Once(g.waiters) /\ Queue(g) = Waits(p, rs)
  /\ g.inFlight = Cardinality(Holds(p, rs)) /\ g.inFlight <= Concurrency
WakeOK(g) == g.waiters # <<>> /\ g.inFlight < Concurrency => g.wake # Off /\ g.wake <= ReadyIn(g)

Gates == /\ gate \in [Processes -> GateSet]
         /\ \A p \in Processes : GateOK(p, gate[p], req) /\ WakeOK(gate[p])

\* t is an end of the sequence s.
EndOf(t, s) == \E k \in 0..Len(s) : /\ Len(t) = Len(s) - k
                                    /\ \A i \in 1..Len(t) : t[i] = s[i + k]

LEMMA Least == ASSUME NEW S \in SUBSET Nat, S # {} PROVE \E i \in S : \A j \in S : i <= j
<1>1. PICK i \in S : \A j \in S : ~ (<<j, i>> \in OpToRel(<, Nat))
  BY NatLessThanWellFounded, WFMin
<1>2. \A j \in S : ~(j < i)
  BY <1>1 DEF OpToRel
<1> QED BY <1>2

LEMMA EndOfEnd ==
  ASSUME NEW s \in Seq(Requests), NEW t \in Seq(Requests), NEW u \in Seq(Requests), EndOf(t, s), EndOf(u, t)
  PROVE  EndOf(u, s)
<1>1. PICK k \in 0..Len(s) : Len(t) = Len(s) - k /\ \A i \in 1..Len(t) : t[i] = s[i + k]
  BY DEF EndOf
<1>2. PICK l \in 0..Len(t) : Len(u) = Len(t) - l /\ \A i \in 1..Len(u) : u[i] = t[i + l]
  BY DEF EndOf
<1>3. k + l \in 0..Len(s) /\ Len(u) = Len(s) - (k + l)
  BY <1>1, <1>2
<1>4. \A i \in 1..Len(u) : u[i] = s[i + (k + l)]
  <2> TAKE i \in 1..Len(u)
  <2>1. i + l \in 1..Len(t) /\ (i + l) + k = i + (k + l)
    BY <1>1, <1>2
  <2> QED BY <1>1, <1>2, <2>1
<1> QED BY <1>3, <1>4 DEF EndOf

LEMMA EndOnce ==
  ASSUME NEW s \in Seq(Requests), NEW t \in Seq(Requests), EndOf(t, s), Once(s)
  PROVE  /\ Once(t) /\ \A i \in 1..Len(t) : \E j \in 1..Len(s) : t[i] = s[j]
<1>1. PICK k \in 0..Len(s) : Len(t) = Len(s) - k /\ \A i \in 1..Len(t) : t[i] = s[i + k]
  BY DEF EndOf
<1>2. \A i \in 1..Len(t) : i + k \in 1..Len(s)
  BY <1>1
<1>3. Once(t)
  BY <1>1, <1>2 DEF Once
<1> QED BY <1>1, <1>2, <1>3

LEMMA AwaitedEnd ==
  ASSUME NEW ws \in Seq(Requests), NEW rs
  PROVE  Awaited(ws, rs) \in Seq(Requests) /\ EndOf(Awaited(ws, rs), ws)
<1> DEFINE timely == {i \in DOMAIN ws : rs[ws[i]].left # 0}
<1>1. CASE timely = {}
  <2>1. Awaited(ws, rs) = <<>> /\ Len(<<>>) = 0
    BY <1>1 DEF Awaited
  <2>2. Len(ws) \in 0..Len(ws) /\ Len(<<>>) = Len(ws) - Len(ws)
    BY <2>1
  <2>3. EndOf(<<>>, ws)
    BY <2>1, <2>2 DEF EndOf
  <2> QED BY <2>1, <2>3
<1>2. CASE timely # {}
  <2>1. timely \in SUBSET Nat
    OBVIOUS
  <2>2. \E i \in timely : \A j \in timely : i <= j
    BY <1>2, <2>1, Least
  <2>3. PICK k \in timely : Awaited(ws, rs) = SubSeq(ws, k, Len(ws))
    BY <1>2, <2>2 DEF Awaited
  <2>4. k \in 1..Len(ws)
    OBVIOUS
  <2> DEFINE t == SubSeq(ws, k, Len(ws))
  <2>5. t \in Seq(Requests) /\ Len(t) = Len(ws) - (k - 1) /\ \A i \in 1..Len(t) : t[i] = ws[i + (k - 1)]
    BY <2>4
  <2>6. k - 1 \in 0..Len(ws)
    BY <2>4
  <2> HIDE DEF t
  <2>7. EndOf(t, ws)
    BY <2>5, <2>6 DEF EndOf
  <2> QED BY <2>3, <2>5, <2>7 DEF t
<1> QED BY <1>1, <1>2

LEMMA QueueOf ==
  ASSUME NEW g, g.waiters \in Seq(Requests)
  PROVE  \A r : r \in Queue(g) <=> \E i \in 1..Len(g.waiters) : g.waiters[i] = r
<1>1. DOMAIN g.waiters = 1..Len(g.waiters)
  OBVIOUS
<1> QED BY <1>1 DEF Queue

\* The timer is set when somebody waits for a place that is free.
LEMMA TimedGate ==
  ASSUME NEW g \in GateSet, NEW rs \in [Requests -> ReqSet]
  PROVE  LET d == Timed(g, rs)
         IN  /\ d \in GateSet /\ EndOf(d.waiters, g.waiters) /\ d.inFlight = g.inFlight /\ WakeOK(d)
<1> DEFINE ws == Awaited(g.waiters, rs)
<1>1. /\ g.waiters \in Seq(Requests) /\ g.inFlight \in Int /\ g.next \in Nat /\ g.blocked \in Nat
      /\ ws \in Seq(Requests) /\ EndOf(ws, g.waiters)
  BY AwaitedEnd DEF GateSet
<1>2. CASE g.inFlight >= Concurrency
  <2> DEFINE d == [g EXCEPT !.wake = Off]
  <2>1. d \in GateSet /\ d.inFlight = g.inFlight /\ d.waiters = g.waiters
    BY DEF GateSet
  <2>2. EndOf(g.waiters, g.waiters)
    <3>1. 0 \in 0..Len(g.waiters) /\ Len(g.waiters) = Len(g.waiters) - 0 /\ \A i \in 1..Len(g.waiters) : i + 0 = i
      BY <1>1
    <3> QED BY <3>1 DEF EndOf
  <2>3. WakeOK(d)
    BY <1>1, <1>2, <2>1, GateAssumption DEF WakeOK
  <2>4. Timed(g, rs) = d
    BY <1>2 DEF Timed
  <2> QED BY <2>1, <2>2, <2>3, <2>4
<1>3. CASE ~(g.inFlight >= Concurrency)
  <2> DEFINE w == IF ws = <<>> THEN Off ELSE Sooner(ReadyIn(g), rs[Head(ws)].left)
             d == [g EXCEPT !.waiters = ws, !.wake = w]
  <2>1. Timed(g, rs) = d
    BY <1>3 DEF Timed
  <2>2. ReadyIn(g) \in Nat
    BY <1>1 DEF ReadyIn, Later
  <2>3. ws # <<>> => w \in Nat /\ w <= ReadyIn(g)
    <3> SUFFICES ASSUME ws # <<>> PROVE w \in Nat /\ w <= ReadyIn(g)
      OBVIOUS
    <3>1. Head(ws) \in Requests
      BY <1>1
    <3>2. rs[Head(ws)].left \in Nat \cup {Off}
      BY <3>1 DEF ReqSet
    <3> QED BY <2>2, <3>2, GateAssumption DEF Sooner
  <2>4. w \in Nat \cup {Off}
    BY <2>3
  <2> HIDE DEF w, ws
  <2>5. /\ d \in GateSet /\ d.inFlight = g.inFlight /\ d.waiters = ws /\ d.wake = w
        /\ d.next = g.next /\ d.blocked = g.blocked
    BY <1>1, <2>4 DEF GateSet
  <2>6. ReadyIn(d) = ReadyIn(g)
    BY <2>5 DEF ReadyIn
  <2>7. WakeOK(d)
    BY <2>3, <2>5, <2>6, GateAssumption DEF WakeOK
  <2> QED BY <1>1, <2>1, <2>5, <2>7
<1> QED BY <1>2, <1>3, GateAssumption

\* What a drain makes of a gate, and whom it starts.
LEMMA DrainGate ==
  ASSUME NEW g \in GateSet, Once(g.waiters), NEW rs \in [Requests -> ReqSet]
  PROVE  LET d == Drain(g, rs)
         IN  /\ d \in GateSet /\ Once(d.waiters) /\ Queue(d) \subseteq Queue(g) /\ WakeOK(d)
             /\ \/ Started(g, rs) = {} /\ d.inFlight = g.inFlight
                \/ \E r \in Requests : /\ Started(g, rs) = {r} /\ r \in Queue(g) \ Queue(d)
                                       /\ d.inFlight = g.inFlight + 1 /\ g.inFlight < Concurrency
<1> DEFINE ws == Awaited(g.waiters, rs)
<1>1. /\ g.waiters \in Seq(Requests) /\ g.inFlight \in Int /\ ws \in Seq(Requests) /\ EndOf(ws, g.waiters)
  BY AwaitedEnd DEF GateSet
<1>q. ASSUME NEW h \in GateSet, EndOf(h.waiters, g.waiters)
      PROVE  Once(h.waiters) /\ Queue(h) \subseteq Queue(g)
  <2>1. h.waiters \in Seq(Requests)
    BY DEF GateSet
  <2>2. Once(h.waiters) /\ \A i \in 1..Len(h.waiters) : \E j \in 1..Len(g.waiters) : h.waiters[i] = g.waiters[j]
    BY <1>1, <1>q, <2>1, EndOnce
  <2> QED BY <1>1, <2>1, <2>2, QueueOf
<1>2. CASE Started(g, rs) = {}
  <2>1. Drain(g, rs) = Timed(g, rs)
    BY <1>2 DEF Drain
  <2> QED BY <1>2, <1>q, <2>1, TimedGate
<1>3. CASE Started(g, rs) # {}
  <2>1. PICK r \in Requests : Started(g, rs) = {r}
    <3>1. PICK r \in Started(g, rs) : TRUE
      BY <1>3
    <3> QED BY <3>1 DEF Started
  <2>2. ws # <<>> /\ r = Head(ws) /\ g.inFlight < Concurrency
    BY <2>1 DEF Started
  <2> DEFINE h == [g EXCEPT !.waiters = Tail(ws), !.inFlight = @ + 1, !.next = Interval]
  <2>3. Drain(g, rs) = Timed(h, rs)
    BY <1>3 DEF Drain
  <2> HIDE DEF ws
  <2>4. /\ Tail(ws) \in Seq(Requests) /\ Len(Tail(ws)) = Len(ws) - 1 /\ Len(ws) \in Nat \ {0}
        /\ \A i \in 1..Len(Tail(ws)) : Tail(ws)[i] = ws[i + 1]
        /\ r = ws[1]
    BY <1>1, <2>2
  <2>5. h \in GateSet /\ h.waiters = Tail(ws) /\ h.inFlight = g.inFlight + 1
    <3>1. PICK n \in Int : n = g.inFlight + 1
      BY <1>1
    <3>2. PICK t \in Seq(Requests) : t = Tail(ws)
      BY <2>4
    <3>3. PICK u : u = [g EXCEPT !.waiters = t, !.inFlight = n, !.next = Interval]
      OBVIOUS
    <3>4. h = u
      BY <3>1, <3>2, <3>3
    <3>5. u \in GateSet /\ u.waiters = t /\ u.inFlight = n
      BY <3>3, GateAssumption DEF GateSet
    <3> QED BY <3>1, <3>2, <3>4, <3>5
  <2> HIDE DEF h
  <2>6. EndOf(Tail(ws), ws)
    <3>1. 1 \in 0..Len(ws)
      BY <2>4
    <3> QED BY <2>4, <3>1 DEF EndOf
  <2>7. Once(ws) /\ \A i \in 1..Len(ws) : \E j \in 1..Len(g.waiters) : ws[i] = g.waiters[j]
    BY <1>1, EndOnce
  <2>8. \A i \in 1..Len(Tail(ws)) : Tail(ws)[i] # r
    BY <2>4, <2>7 DEF Once
  <2>9. r \in Queue(g)
    <3>1. 1 \in 1..Len(ws)
      BY <2>4
    <3> QED BY <1>1, <2>4, <2>7, <3>1, QueueOf
  <2> DEFINE d == Timed(h, rs)
  <2>10. d \in GateSet /\ EndOf(d.waiters, h.waiters) /\ d.inFlight = h.inFlight /\ WakeOK(d)
    BY <2>5, TimedGate
  <2>11. d.waiters \in Seq(Requests)
    BY <2>10 DEF GateSet
  <2> HIDE DEF d
  <2>12. EndOf(d.waiters, g.waiters)
    <3>1. EndOf(d.waiters, ws)
      BY <1>1, <2>4, <2>5, <2>6, <2>10, <2>11, EndOfEnd
    <3> QED BY <1>1, <2>11, <3>1, EndOfEnd
  <2>13. r \notin Queue(d)
    <3>1. Once(Tail(ws))
      BY <1>1, <2>4, <2>6, <2>7, EndOnce
    <3>2. \A i \in 1..Len(d.waiters) : \E j \in 1..Len(Tail(ws)) : d.waiters[i] = Tail(ws)[j]
      BY <2>4, <2>5, <2>10, <2>11, <3>1, EndOnce
    <3>3. r \in Queue(d) => \E i \in 1..Len(d.waiters) : d.waiters[i] = r
      BY <2>11, QueueOf
    <3> QED BY <2>8, <3>2, <3>3
  <2>14. Drain(g, rs) = d
    BY <2>3 DEF d
  <2> QED BY <1>q, <2>1, <2>2, <2>5, <2>9, <2>10, <2>12, <2>13, <2>14
<1> QED BY <1>2, <1>3

LEMMA HoldsFinite == \A p, rs : IsFiniteSet(Holds(p, rs)) /\ Cardinality(Holds(p, rs)) \in Nat
<1> TAKE p, rs
<1>1. Holds(p, rs) \subseteq Requests
  BY DEF Holds
<1> QED BY <1>1, RequestsAssumption, FS_Subset, FS_CardinalityType

\* The gates after a drain of one of them, g, the requests being rs before it.
LEMMA DrainGates ==
  ASSUME NEW p \in Processes, gate \in [Processes -> GateSet], NEW g, NEW rs \in [Requests -> ReqSet],
         GateOK(p, g, rs), \A q \in Processes : q # p => GateOK(q, gate[q], rs) /\ WakeOK(gate[q]),
         DrainTo(p, g, rs)
  PROVE  Gates'
<1> DEFINE d == Drain(g, rs)
<1>1. /\ g \in GateSet /\ Once(g.waiters) /\ Queue(g) = Waits(p, rs)
      /\ g.inFlight = Cardinality(Holds(p, rs)) /\ g.inFlight <= Concurrency
  BY DEF GateOK
<1>2. /\ d \in GateSet /\ Once(d.waiters) /\ Queue(d) \subseteq Queue(g) /\ WakeOK(d)
      /\ \/ Started(g, rs) = {} /\ d.inFlight = g.inFlight
         \/ \E r \in Requests : /\ Started(g, rs) = {r} /\ r \in Queue(g) \ Queue(d)
                                /\ d.inFlight = g.inFlight + 1 /\ g.inFlight < Concurrency
  BY <1>1, DrainGate
<1>3. /\ gate' = [gate EXCEPT ![p] = d]
      /\ \A r \in Requests : req'[r] = IF r \in Started(g, rs) THEN [rs[r] EXCEPT !.pc = "asking"]
                                       ELSE IF r \in Queue(g) \ Queue(d) THEN IdleRequest
                                       ELSE rs[r]
  BY DEF DrainTo
<1> HIDE DEF d
<1>4. /\ \A r \in Requests : [rs[r] EXCEPT !.pc = "asking"].pc = "asking"
      /\ IdleRequest.pc = "idle"
  <2>1. \A q \in ReqSet : [q EXCEPT !.pc = "asking"].pc = "asking"
    BY DEF ReqSet
  <2>2. IdleRequest.pc = "idle"
    BY DEF IdleRequest
  <2>3. \A r \in Requests : rs[r] \in ReqSet
    OBVIOUS
  <2> QED BY <2>1, <2>2, <2>3
<1>5. /\ gate' \in [Processes -> GateSet] /\ gate'[p] = d /\ \A q \in Processes : q # p => gate'[q] = gate[q]
  BY <1>2, <1>3
<1>6. Started(g, rs) \subseteq Queue(g) \ Queue(d)
  BY <1>2
<1>7. \A r \in Requests : r \in Queue(g) <=> Home[r] = p /\ rs[r].pc = "waiting"
  BY <1>1 DEF Waits
<1>8. Queue(d) = Waits(p, req')
  <2>1. ASSUME NEW r \in Queue(d) PROVE r \in Waits(p, req')
    <3>1. r \in Requests /\ Home[r] = p /\ rs[r].pc = "waiting"
      BY <1>1, <1>2 DEF Waits
    <3>2. req'[r] = rs[r]
      BY <1>3, <1>6, <3>1
    <3> QED BY <3>1, <3>2 DEF Waits
  <2>2. ASSUME NEW r \in Waits(p, req') PROVE r \in Queue(d)
    <3>1. r \in Requests /\ Home[r] = p /\ req'[r].pc = "waiting"
      BY DEF Waits
    <3>2. r \notin Started(g, rs) /\ r \notin Queue(g) \ Queue(d)
      BY <1>3, <1>4, <3>1
    <3>3. req'[r] = rs[r]
      BY <1>3, <3>1, <3>2
    <3> QED BY <1>7, <3>1, <3>2, <3>3
  <2> QED BY <2>1, <2>2
<1>9. Holds(p, req') = Holds(p, rs) \cup Started(g, rs)
  <2>1. \A r \in Started(g, rs) : r \in Requests
    BY DEF Started
  <2> QED BY <1>3, <1>4, <1>6, <1>7, <2>1 DEF Holds
<1>10. d.inFlight = Cardinality(Holds(p, req')) /\ d.inFlight <= Concurrency
  <2>1. CASE Started(g, rs) = {}
    BY <1>1, <1>2, <1>9, <2>1
  <2>2. CASE Started(g, rs) # {}
    <3>1. PICK r \in Requests : /\ Started(g, rs) = {r} /\ r \in Queue(g) \ Queue(d)
                                /\ d.inFlight = g.inFlight + 1 /\ g.inFlight < Concurrency
      BY <1>2, <2>2
    <3>2. r \notin Holds(p, rs) /\ Holds(p, req') = Holds(p, rs) \cup {r}
      BY <1>7, <1>9, <3>1 DEF Holds
    <3>3. Cardinality(Holds(p, req')) = Cardinality(Holds(p, rs)) + 1
      BY <3>2, HoldsFinite, FS_AddElement
    <3>4. Cardinality(Holds(p, rs)) \in Nat /\ Concurrency \in Nat
      BY HoldsFinite, GateAssumption
    <3> QED BY <1>1, <3>1, <3>3, <3>4
  <2> QED BY <2>1, <2>2
<1>11. GateOK(p, gate'[p], req') /\ WakeOK(gate'[p])
  BY <1>2, <1>5, <1>8, <1>10 DEF GateOK
<1>12. ASSUME NEW q \in Processes, q # p PROVE GateOK(q, gate'[q], req') /\ WakeOK(gate'[q])
  <2>1. \A r \in Requests : Home[r] = q => req'[r] = rs[r]
    BY <1>3, <1>6, <1>7, <1>12
  <2>2. Waits(q, req') = Waits(q, rs) /\ Holds(q, req') = Holds(q, rs)
    BY <2>1 DEF Waits, Holds
  <2>3. gate'[q] = gate[q] /\ GateOK(q, gate[q], rs) /\ WakeOK(gate[q])
    BY <1>5, <1>12
  <2> QED BY <2>2, <2>3 DEF GateOK
<1>13. ASSUME NEW q \in Processes PROVE GateOK(q, gate[q], req)' /\ WakeOK(gate[q])'
  <2>1. GateOK(q, gate'[q], req') /\ WakeOK(gate'[q])
    BY <1>11, <1>12
  <2> QED BY <2>1 DEF GateOK, WakeOK, GateSet, Once, Queue, Waits, Holds, ReadyIn, Later
<1> QED BY <1>5, <1>13 DEF Gates, GateSet

LEMMA InitGates == Init => Gates
<1> SUFFICES ASSUME Init PROVE Gates
  OBVIOUS
<1> DEFINE g == [waiters |-> <<>>, inFlight |-> 0, next |-> 0, blocked |-> 0, wake |-> Off]
<1>1. gate = [p \in Processes |-> g] /\ \A r \in Requests : req[r].pc = "idle"
  BY DEF Init, IdleRequest
<1>2. g \in GateSet /\ g.waiters = <<>> /\ g.inFlight = 0
  BY DEF GateSet
<1> HIDE DEF g
<1>3. ASSUME NEW p \in Processes PROVE GateOK(p, gate[p], req) /\ WakeOK(gate[p])
  <2>1. gate[p] = g
    BY <1>1
  <2>2. Waits(p, req) = {} /\ Holds(p, req) = {}
    BY <1>1 DEF Waits, Holds
  <2>3. Queue(g) = {}
    BY <1>2 DEF Queue
  <2> QED BY <1>2, <2>1, <2>2, <2>3, FS_EmptySet, GateAssumption DEF GateOK, WakeOK, Once
<1> QED BY <1>1, <1>2, <1>3 DEF Gates

\* One request changes: the gates of the other processes stand as they did.
LEMMA Elsewhere ==
  ASSUME Gates, NEW r \in Requests, NEW rs, \A s \in Requests : s # r => rs[s] = req[s]
  PROVE  \A q \in Processes : q # Home[r] => GateOK(q, gate[q], rs) /\ WakeOK(gate[q])
<1> SUFFICES ASSUME NEW q \in Processes, q # Home[r] PROVE GateOK(q, gate[q], rs) /\ WakeOK(gate[q])
  OBVIOUS
<1>1. \A s \in Requests : Home[s] = q => rs[s] = req[s]
  OBVIOUS
<1>2. Waits(q, rs) = Waits(q, req) /\ Holds(q, rs) = Holds(q, req)
  BY <1>1 DEF Waits, Holds
<1> QED BY <1>2 DEF Gates, GateOK

LEMMA EnterGates == ASSUME Inv, Gates, NEW r \in Requests, Enter(r) PROVE Gates'
<1>1. PICK d \in Deadlines[r] : DrainTo(Home[r], [gate[Home[r]] EXCEPT !.waiters = Append(@, r)],
                                        [req EXCEPT ![r] = [IdleRequest EXCEPT !.pc = "waiting", !.left = d]])
  BY DEF Enter
<1>2. PICK w : w = [IdleRequest EXCEPT !.pc = "waiting", !.left = d]
  OBVIOUS
<1>3. w \in ReqSet /\ w.pc = "waiting"
  <2>1. d \in Nat \cup {Off}
    BY GateAssumption
  <2> QED BY <1>2, <2>1 DEF ReqSet, Pcs, IdleRequest
<1>4. PICK rs : rs = [req EXCEPT ![r] = w]
  OBVIOUS
<1>5. rs \in [Requests -> ReqSet] /\ rs[r] = w /\ \A s \in Requests : s # r => rs[s] = req[s]
  BY <1>3, <1>4 DEF Inv, Typed
<1>6. PICK p \in Processes : p = Home[r]
  BY GateAssumption
<1>7. gate[p] \in GateSet /\ GateOK(p, gate[p], req)
  BY DEF Gates
<1>8. PICK ws \in Seq(Requests) : ws = gate[p].waiters
  BY <1>7 DEF GateSet
<1>9. PICK g : g = [gate[p] EXCEPT !.waiters = Append(ws, r)]
  OBVIOUS
<1>10. g \in GateSet /\ g.waiters = Append(ws, r) /\ g.inFlight = gate[p].inFlight
  <2>1. Append(ws, r) \in Seq(Requests)
    OBVIOUS
  <2>2. PICK xs \in Seq(Requests) : xs = Append(ws, r)
    BY <2>1
  <2>3. g = [gate[p] EXCEPT !.waiters = xs]
    BY <1>9, <2>2
  <2>4. g \in GateSet /\ g.waiters = xs /\ g.inFlight = gate[p].inFlight
    BY <1>7, <2>3 DEF GateSet
  <2> QED BY <2>2, <2>4
<1>11. req[r].pc = "idle"
  BY DEF Enter
<1>12. GateOK(p, g, rs)
  <2>1. Once(ws) /\ Queue(gate[p]) = Waits(p, req)
    BY <1>7, <1>8 DEF GateOK
  <2>2. \A i \in 1..Len(ws) : ws[i] # r
    BY <1>7, <1>8, <1>11, <2>1, QueueOf DEF Waits
  <2>3. /\ Append(ws, r) \in Seq(Requests) /\ Len(Append(ws, r)) = Len(ws) + 1 /\ Len(ws) \in Nat
        /\ \A i \in 1..Len(ws) : Append(ws, r)[i] = ws[i]
        /\ Append(ws, r)[Len(ws) + 1] = r
    OBVIOUS
  <2>4. \A i \in 1..(Len(ws) + 1) : i \in 1..Len(ws) \/ i = Len(ws) + 1
    BY <2>3
  <2>5. Once(g.waiters)
    BY <1>10, <2>1, <2>2, <2>3, <2>4 DEF Once
  <2>6. Queue(g) = Queue(gate[p]) \cup {r}
    <3>1. \A q : q \in Queue(g) <=> \E i \in 1..(Len(ws) + 1) : Append(ws, r)[i] = q
      <4>1. g.waiters \in Seq(Requests) /\ Len(g.waiters) = Len(ws) + 1
        BY <1>10, <2>3
      <4>2. \A q : q \in Queue(g) <=> \E i \in 1..Len(g.waiters) : g.waiters[i] = q
        BY <4>1, QueueOf
      <4> QED BY <1>10, <4>1, <4>2
    <3>2. \A q : q \in Queue(gate[p]) <=> \E i \in 1..Len(ws) : ws[i] = q
      BY <1>8, QueueOf
    <3>3. Len(ws) + 1 \in 1..(Len(ws) + 1) /\ \A i \in 1..Len(ws) : i \in 1..(Len(ws) + 1)
      BY <2>3
    <3> QED BY <2>3, <2>4, <3>1, <3>2, <3>3
  <2>7. Waits(p, rs) = Waits(p, req) \cup {r} /\ Holds(p, rs) = Holds(p, req)
    BY <1>3, <1>5, <1>6, <1>11 DEF Waits, Holds
  <2> QED BY <1>7, <1>10, <2>1, <2>5, <2>6, <2>7 DEF GateOK
<1>13. DrainTo(p, g, rs)
  BY <1>1, <1>2, <1>4, <1>6, <1>8, <1>9
<1>14. \A q \in Processes : q # p => GateOK(q, gate[q], rs) /\ WakeOK(gate[q])
  BY <1>5, <1>6, Elsewhere
<1> QED BY <1>5, <1>12, <1>13, <1>14, DrainGates DEF Gates

\* The place of r is given back.
LEMMA LeaveGates ==
  ASSUME Inv, Gates, NEW r \in Requests, req[r].pc \notin {"idle", "waiting"}, LeaveTo(r, gate[Home[r]])
  PROVE  Gates'
<1>1. PICK p \in Processes : p = Home[r]
  BY GateAssumption
<1>2. gate[p] \in GateSet /\ GateOK(p, gate[p], req)
  BY DEF Gates
<1>3. PICK g, n : g = [gate[p] EXCEPT !.inFlight = n] /\ n = gate[p].inFlight - 1
  OBVIOUS
<1>4. n \in Int
  BY <1>2, <1>3 DEF GateSet
<1>5. g \in GateSet /\ g.waiters = gate[p].waiters /\ g.inFlight = n
  BY <1>2, <1>3, <1>4 DEF GateSet
<1>6. PICK rs : rs = [req EXCEPT ![r] = IdleRequest]
  OBVIOUS
<1>7. rs \in [Requests -> ReqSet] /\ rs[r].pc = "idle" /\ \A s \in Requests : s # r => rs[s] = req[s]
  BY <1>6 DEF Inv, Typed, IdleRequest, ReqSet, Pcs
<1>8. DrainTo(p, g, rs)
  BY <1>1, <1>3, <1>6 DEF LeaveTo
<1>9. GateOK(p, g, rs)
  <2>1. Waits(p, rs) = Waits(p, req)
    BY <1>7 DEF Waits
  <2>2. Holds(p, rs) = Holds(p, req) \ {r} /\ r \in Holds(p, req)
    BY <1>1, <1>7 DEF Holds
  <2>3. Cardinality(Holds(p, rs)) = Cardinality(Holds(p, req)) - 1
    BY <2>2, HoldsFinite, FS_RemoveElement
  <2>4. Queue(g) = Queue(gate[p])
    BY <1>5 DEF Queue
  <2>5. gate[p].inFlight = Cardinality(Holds(p, req)) /\ gate[p].inFlight <= Concurrency /\ Concurrency \in Nat
    BY <1>2, GateAssumption DEF GateOK
  <2>6. Cardinality(Holds(p, req)) \in Nat
    BY HoldsFinite
  <2>7. g.inFlight = Cardinality(Holds(p, rs)) /\ g.inFlight <= Concurrency
    BY <1>3, <1>5, <2>3, <2>5, <2>6
  <2> QED BY <1>2, <1>5, <2>1, <2>4, <2>7 DEF GateOK
<1>10. \A q \in Processes : q # p => GateOK(q, gate[q], rs) /\ WakeOK(gate[q])
  BY <1>1, <1>7, Elsewhere
<1> QED BY <1>7, <1>8, <1>9, <1>10, DrainGates DEF Gates

LEMMA FloodGates == ASSUME Inv, Gates, NEW r \in Requests, WorkFlood(r) PROVE Gates'
<1>1. PICK p \in Processes : p = Home[r]
  BY GateAssumption
<1>2. gate[p] \in GateSet /\ GateOK(p, gate[p], req)
  BY DEF Gates
<1>3. PICK delay \in Floods : DrainTo(p, [gate[p] EXCEPT !.blocked = Later(@, delay)],
                                      [req EXCEPT ![r] = [@ EXCEPT !.pc = "deferring", !.flood = delay]])
  BY <1>1 DEF WorkFlood
<1>4. PICK b \in Nat : b = Later(gate[p].blocked, delay)
  <2>1. gate[p].blocked \in Nat /\ delay \in Nat
    BY <1>2, GateAssumption DEF GateSet
  <2> QED BY <2>1 DEF Later
<1>5. PICK g : g = [gate[p] EXCEPT !.blocked = b]
  OBVIOUS
<1>6. g \in GateSet /\ g.waiters = gate[p].waiters /\ g.inFlight = gate[p].inFlight
  BY <1>2, <1>5 DEF GateSet
<1>7. PICK w : w = [req[r] EXCEPT !.pc = "deferring", !.flood = delay]
  OBVIOUS
<1>8. w \in ReqSet /\ w.pc = "deferring"
  <2>1. req[r] \in ReqSet /\ delay \in Nat
    BY GateAssumption DEF Inv, Typed
  <2> QED BY <1>7, <2>1 DEF ReqSet, Pcs
<1>9. PICK rs : rs = [req EXCEPT ![r] = w]
  OBVIOUS
<1>10. rs \in [Requests -> ReqSet] /\ rs[r] = w /\ \A s \in Requests : s # r => rs[s] = req[s]
  BY <1>8, <1>9 DEF Inv, Typed
<1>11. DrainTo(p, g, rs)
  <2>1. rs = [req EXCEPT ![r] = [@ EXCEPT !.pc = "deferring", !.flood = delay]]
    BY <1>7, <1>9 DEF Inv, Typed
  <2>2. g = [gate[p] EXCEPT !.blocked = Later(@, delay)]
    BY <1>4, <1>5
  <2> QED BY <1>3, <2>1, <2>2
<1>12. GateOK(p, g, rs)
  <2>1. req[r].pc = "working"
    BY DEF WorkFlood
  <2>2. Waits(p, rs) = Waits(p, req) /\ Holds(p, rs) = Holds(p, req)
    BY <1>8, <1>10, <2>1 DEF Waits, Holds
  <2>3. Queue(g) = Queue(gate[p])
    BY <1>6 DEF Queue
  <2> QED BY <1>2, <1>6, <2>2, <2>3 DEF GateOK
<1>13. \A q \in Processes : q # p => GateOK(q, gate[q], rs) /\ WakeOK(gate[q])
  BY <1>1, <1>10, Elsewhere
<1> QED BY <1>10, <1>11, <1>12, <1>13, DrainGates DEF Gates

\* t holds what s does, but for r.
Leaves(t, s, r) == \A q : (\E i \in 1..Len(t) : t[i] = q) <=> q # r /\ \E i \in 1..Len(s) : s[i] = q

\* A waiter taken out of the queue.
LEMMA SplicedOut ==
  ASSUME NEW ws \in Seq(Requests), Once(ws), NEW k \in 1..Len(ws), NEW t, t = Spliced(ws, ws[k])
  PROVE  t \in Seq(Requests) /\ Once(t) /\ Leaves(t, ws, ws[k])
<1>1. t = SubSeq(ws, 1, k - 1) \o SubSeq(ws, k + 1, Len(ws))
  <2>1. \A j \in DOMAIN ws : ws[j] = ws[k] => j = k
    BY DEF Once
  <2>2. (CHOOSE j \in DOMAIN ws : ws[j] = ws[k]) = k
    BY <2>1
  <2> QED BY <2>2 DEF Spliced
<1>a. PICK a, b : a = SubSeq(ws, 1, k - 1) /\ b = SubSeq(ws, k + 1, Len(ws))
  OBVIOUS
<1>2. a \in Seq(Requests) /\ Len(a) = k - 1 /\ \A i \in 1..(k - 1) : a[i] = ws[i]
  BY <1>a
<1>3. b \in Seq(Requests) /\ Len(b) = Len(ws) - k /\ \A i \in 1..(Len(ws) - k) : b[i] = ws[i + k]
  <2>1. b \in Seq(Requests) /\ Len(b) = Len(ws) - k
    BY <1>a
  <2>2. \A i \in 1..(Len(ws) - k) : b[i] = ws[i + k]
    BY <1>a
  <2> QED BY <2>1, <2>2
<1>4. /\ t \in Seq(Requests) /\ Len(t) = Len(a) + Len(b)
      /\ \A i \in 1..(Len(a) + Len(b)) : t[i] = IF i <= Len(a) THEN a[i] ELSE b[i - Len(a)]
  <2>1. t = a \o b /\ a \in Seq(Requests) /\ b \in Seq(Requests)
    BY <1>1, <1>a, <1>2, <1>3
  <2> QED BY <2>1
<1>5. t \in Seq(Requests) /\ Len(t) = Len(ws) - 1
  BY <1>2, <1>3, <1>4
<1>6. \A i \in 1..(Len(ws) - 1) : t[i] = IF i < k THEN ws[i] ELSE ws[i + 1]
  <2> TAKE i \in 1..(Len(ws) - 1)
  <2>1. i \in 1..(Len(a) + Len(b))
    BY <1>2, <1>3
  <2>2. CASE i < k
    <3>1. i <= Len(a) /\ i \in 1..(k - 1)
      BY <1>2, <2>2
    <3> QED BY <1>2, <1>4, <2>1, <2>2, <3>1
  <2>3. CASE ~(i < k)
    <3>1. i - (k - 1) \in 1..(Len(ws) - k) /\ (i - (k - 1)) + k = i + 1 /\ ~(i <= Len(a))
      BY <1>2, <2>3
    <3>2. t[i] = b[i - (k - 1)]
      BY <1>2, <1>4, <2>1, <3>1
    <3> QED BY <1>3, <2>3, <3>1, <3>2
  <2> QED BY <2>2, <2>3
<1>7. \A i \in 1..(Len(ws) - 1) : i \in 1..Len(ws) /\ i + 1 \in 1..Len(ws)
  OBVIOUS
<1>8. Once(t)
  <2> SUFFICES ASSUME NEW i \in 1..Len(t), NEW j \in 1..Len(t), t[i] = t[j] PROVE i = j
    BY DEF Once
  <2> DEFINE At(n) == IF n < k THEN n ELSE n + 1
  <2>1. At(i) \in 1..Len(ws) /\ At(j) \in 1..Len(ws) /\ t[i] = ws[At(i)] /\ t[j] = ws[At(j)]
    BY <1>5, <1>6, <1>7
  <2>2. At(i) = At(j)
    BY <2>1 DEF Once
  <2> QED BY <1>5, <2>2
<1>9. ASSUME NEW i \in 1..Len(t) PROVE t[i] # ws[k] /\ \E j \in 1..Len(ws) : ws[j] = t[i]
  <2> DEFINE j == IF i < k THEN i ELSE i + 1
  <2>1. j \in 1..Len(ws) /\ t[i] = ws[j] /\ j # k
    BY <1>5, <1>6, <1>7
  <2> QED BY <2>1 DEF Once
<1>10. ASSUME NEW j \in 1..Len(ws), ws[j] # ws[k] PROVE \E i \in 1..Len(t) : t[i] = ws[j]
  <2>1. CASE j < k
    <3>1. j \in 1..(Len(ws) - 1)
      BY <2>1
    <3> QED BY <1>5, <1>6, <2>1, <3>1
  <2>2. CASE j > k
    <3>1. j - 1 \in 1..(Len(ws) - 1) /\ ~(j - 1 < k) /\ (j - 1) + 1 = j
      BY <2>2
    <3>2. t[j - 1] = ws[j]
      BY <1>6, <3>1
    <3> QED BY <1>5, <3>1, <3>2
  <2> QED BY <1>10, <2>1, <2>2
<1>11. ASSUME NEW q
       PROVE  (\E i \in 1..Len(t) : t[i] = q) <=> q # ws[k] /\ \E i \in 1..Len(ws) : ws[i] = q
  <2>1. (\E i \in 1..Len(t) : t[i] = q) => q # ws[k] /\ \E i \in 1..Len(ws) : ws[i] = q
    BY <1>9
  <2>2. q # ws[k] /\ (\E i \in 1..Len(ws) : ws[i] = q) => \E i \in 1..Len(t) : t[i] = q
    BY <1>10
  <2> QED BY <2>1, <2>2
<1> QED BY <1>5, <1>8, <1>11 DEF Leaves

LEMMA TimeoutGates == ASSUME Inv, Gates, NEW r \in Requests, WaiterTimeout(r) PROVE Gates'
<1>1. PICK p \in Processes : p = Home[r]
  BY GateAssumption
<1>2. gate \in [Processes -> GateSet] /\ gate[p] \in GateSet /\ GateOK(p, gate[p], req) /\ WakeOK(gate[p])
  BY DEF Gates
<1>3. PICK ws \in Seq(Requests) : ws = gate[p].waiters
  BY <1>2 DEF GateSet
<1>4. /\ req[r].pc = "waiting" /\ gate' = [gate EXCEPT ![p].waiters = Spliced(ws, r)]
      /\ req' = [req EXCEPT ![r] = IdleRequest]
  BY <1>1, <1>2, <1>3 DEF WaiterTimeout
<1>5. PICK k \in 1..Len(ws) : ws[k] = r
  <2>1. r \in Queue(gate[p])
    BY <1>1, <1>2, <1>4 DEF GateOK, Waits
  <2> QED BY <1>3, <2>1, QueueOf
<1>6. PICK t \in Seq(Requests) : t = Spliced(ws, r) /\ Once(t) /\ Leaves(t, ws, r)
  <2>1. Once(ws)
    BY <1>2, <1>3 DEF GateOK
  <2>2. PICK t : t = Spliced(ws, ws[k])
    OBVIOUS
  <2>3. t \in Seq(Requests) /\ Once(t) /\ Leaves(t, ws, ws[k])
    BY <2>1, <2>2, SplicedOut
  <2>4. t = Spliced(ws, r) /\ ws[k] = r
    BY <1>5, <2>2
  <2> QED BY <2>3, <2>4
<1>7. PICK g : g = [gate[p] EXCEPT !.waiters = t]
  OBVIOUS
<1>8. g \in GateSet /\ g.waiters = t /\ g.inFlight = gate[p].inFlight /\ g.wake = gate[p].wake /\ ReadyIn(g) = ReadyIn(gate[p])
  BY <1>2, <1>7 DEF GateSet, ReadyIn
<1>9. gate' = [gate EXCEPT ![p] = g]
  BY <1>2, <1>4, <1>6, <1>7
<1>10. /\ gate' \in [Processes -> GateSet] /\ gate'[p] = g /\ \A q \in Processes : q # p => gate'[q] = gate[q]
  BY <1>2, <1>8, <1>9
<1>11. req'[r].pc = "idle" /\ \A s \in Requests : s # r => req'[s] = req[s]
  BY <1>4 DEF Inv, Typed, IdleRequest
<1>12. GateOK(p, g, req') /\ WakeOK(g)
  <2>1. Queue(g) = Queue(gate[p]) \ {r}
    <3>1. \A q : q \in Queue(g) <=> \E i \in 1..Len(t) : t[i] = q
      BY <1>8, QueueOf
    <3>2. \A q : q \in Queue(gate[p]) <=> \E i \in 1..Len(ws) : ws[i] = q
      BY <1>3, QueueOf
    <3> QED BY <1>6, <3>1, <3>2 DEF Leaves
  <2>2. Waits(p, req') = Waits(p, req) \ {r} /\ Holds(p, req') = Holds(p, req)
    BY <1>4, <1>11 DEF Waits, Holds
  <2>3. ws # <<>>
    BY <1>5
  <2> QED BY <1>2, <1>3, <1>6, <1>8, <2>1, <2>2, <2>3 DEF GateOK, WakeOK
<1>13. ASSUME NEW q \in Processes PROVE GateOK(q, gate'[q], req') /\ WakeOK(gate'[q])
  <2>1. q # p => GateOK(q, gate[q], req') /\ WakeOK(gate[q])
    BY <1>1, <1>11, Elsewhere
  <2> QED BY <1>10, <1>12, <2>1
<1>14. ASSUME NEW q \in Processes PROVE GateOK(q, gate[q], req)' /\ WakeOK(gate[q])'
  BY <1>13 DEF GateOK, WakeOK, GateSet, Once, Queue, Waits, Holds, ReadyIn, Later
<1> QED BY <1>10, <1>14 DEF Gates, GateSet

LEMMA TickGates == ASSUME Inv, Gates, Tick PROVE Gates'
<1>1. \A t \in Nat : Less(t) \in Nat /\ Less(t) = IF t = 0 THEN 0 ELSE t - 1
  BY GateAssumption DEF Less
<1>2. Less(Off) = Off
  BY DEF Less
<1>3. \A r \in Requests : req'[r].pc = req[r].pc
  BY DEF Tick, Inv, Typed, ReqSet
<1>4. ASSUME NEW p \in Processes
      PROVE  gate'[p] \in GateSet /\ GateOK(p, gate'[p], req') /\ WakeOK(gate'[p])
  <2>1. gate[p] \in GateSet /\ GateOK(p, gate[p], req) /\ WakeOK(gate[p])
    BY DEF Gates
  <2>2. gate'[p] = [gate[p] EXCEPT !.next = Less(@), !.blocked = Less(@), !.wake = Less(@)]
    BY DEF Tick
  <2>3. PICK x \in Nat, b \in Nat, w \in Nat \cup {Off} :
          /\ x = Less(gate[p].next) /\ b = Less(gate[p].blocked) /\ w = Less(gate[p].wake)
    BY <1>1, <1>2, <2>1 DEF GateSet
  <2>4. PICK g : g = [gate[p] EXCEPT !.next = x, !.blocked = b, !.wake = w]
    OBVIOUS
  <2>5. gate'[p] = g
    BY <2>2, <2>3, <2>4
  <2>6. /\ g \in GateSet /\ g.waiters = gate[p].waiters /\ g.inFlight = gate[p].inFlight
        /\ g.next = x /\ g.blocked = b /\ g.wake = w
    BY <2>1, <2>4 DEF GateSet
  <2>7. Waits(p, req') = Waits(p, req) /\ Holds(p, req') = Holds(p, req)
    BY <1>3 DEF Waits, Holds
  <2>8. Queue(g) = Queue(gate[p])
    BY <2>6 DEF Queue
  <2>9. GateOK(p, g, req')
    BY <2>1, <2>6, <2>7, <2>8 DEF GateOK
  <2>10. WakeOK(g)
    <3> SUFFICES ASSUME g.waiters # <<>>, g.inFlight < Concurrency PROVE g.wake # Off /\ g.wake <= ReadyIn(g)
      BY DEF WakeOK
    <3>1. gate[p].wake # Off /\ gate[p].wake <= ReadyIn(gate[p])
      BY <2>1, <2>6 DEF WakeOK
    <3>2. gate[p].wake \in Nat /\ gate[p].next \in Nat /\ gate[p].blocked \in Nat
      BY <2>1, <3>1 DEF GateSet
    <3>3. w \in Nat /\ (gate[p].wake <= gate[p].next => w <= x) /\ (gate[p].wake <= gate[p].blocked => w <= b)
      <4>1. \A y \in Nat, z \in Nat : y <= z => Less(y) <= Less(z)
        BY <1>1
      <4>2. w \in Nat
        BY <1>1, <2>3, <3>2
      <4> QED BY <2>3, <3>2, <4>1, <4>2
    <3>4. gate[p].wake <= gate[p].next \/ gate[p].wake <= gate[p].blocked
      BY <3>1 DEF ReadyIn, Later
    <3>5. x <= Later(x, b) /\ b <= Later(x, b) /\ Later(x, b) \in Nat
      BY DEF Later
    <3>6. w <= Later(x, b)
      BY <3>3, <3>4, <3>5
    <3> QED BY <2>6, <3>3, <3>6, GateAssumption DEF ReadyIn
  <2> QED BY <2>5, <2>6, <2>9, <2>10
<1>5. gate' \in [Processes -> GateSet]
  <2>1. gate' = [p \in Processes |-> gate'[p]]
    BY DEF Tick
  <2> QED BY <1>4, <2>1
<1>6. ASSUME NEW q \in Processes PROVE GateOK(q, gate[q], req)' /\ WakeOK(gate[q])'
  BY <1>4 DEF GateOK, WakeOK, GateSet, Once, Queue, Waits, Holds, ReadyIn, Later
<1> QED BY <1>5, <1>6 DEF Gates, GateSet

\* What leaves the gates alone, and who holds a place and who waits for one.
LEMMA SameGates ==
  ASSUME Gates, gate' = gate,
         \A r \in Requests : \/ req'[r].pc = req[r].pc
                             \/ req[r].pc \notin {"idle", "waiting"} /\ req'[r].pc \notin {"idle", "waiting"}
  PROVE  Gates'
<1>1. ASSUME NEW p \in Processes PROVE GateOK(p, gate'[p], req') /\ WakeOK(gate'[p])
  <2>1. Waits(p, req') = Waits(p, req) /\ Holds(p, req') = Holds(p, req)
    BY DEF Waits, Holds
  <2> QED BY <2>1 DEF Gates, GateOK
<1>2. ASSUME NEW q \in Processes PROVE GateOK(q, gate[q], req)' /\ WakeOK(gate[q])'
  BY <1>1 DEF GateOK, WakeOK, GateSet, Once, Queue, Waits, Holds, ReadyIn, Later
<1> QED BY <1>2 DEF Gates, GateSet

LEMMA NextGates == Inv /\ Gates /\ [Next]_vars => Gates'
<1> SUFFICES ASSUME Inv, Gates, [Next]_vars PROVE Gates'
  OBVIOUS
<1>t. req \in [Requests -> ReqSet]
  BY DEF Inv, Typed
<1>1. CASE \E p \in Processes : WakeFire(p)
  <2>1. PICK p \in Processes : DrainTo(p, gate[p], req)
    BY <1>1 DEF WakeFire
  <2> QED BY <1>t, <2>1, DrainGates DEF Gates
<1>2. ASSUME NEW r \in Requests, WorkDone(r) \/ Permit(r) \/ PermitRenew(r) \/ Defer(r) \/ DeferFail(r)
                                 \/ PermitRelease(r) \/ PermitReleaseFail(r)
      PROVE  Gates'
  <2>1. CASE PermitGrantLost(r) \/ PermitRefused(r) \/ PermitRenew(r)
    BY <2>1, SameGates DEF PermitGrantLost, PermitRefused, PermitRenew
  <2>2. CASE ~(PermitGrantLost(r) \/ PermitRefused(r) \/ PermitRenew(r))
    <3>1. req'[r].pc \in {"working", "releasing", "leaving"} /\ \A s \in Requests : s # r => req'[s] = req[s]
      <4>1. \A v \in ReqSet : [v EXCEPT !.pc = "releasing"].pc = "releasing" /\ [v EXCEPT !.pc = "leaving"].pc = "leaving"
        BY DEF ReqSet
      <4>2. [IdleRequest EXCEPT !.pc = "working"].pc = "working"
        BY DEF IdleRequest
      <4>3. req[r] \in ReqSet
        BY <1>t
      <4>4. CASE PermitGrant(r)
        <5>1. req' = [req EXCEPT ![r] = [IdleRequest EXCEPT !.pc = "working"]]
          BY <4>4 DEF PermitGrant
        <5> QED BY <1>t, <4>2, <5>1
      <4>5. CASE WorkDone(r) \/ Defer(r) \/ DeferFail(r)
        <5>1. req' = [req EXCEPT ![r] = [req[r] EXCEPT !.pc = "releasing"]]
          BY <1>t, <4>5 DEF WorkDone, Defer, DeferFail
        <5> QED BY <1>t, <4>1, <4>3, <5>1
      <4>6. CASE PermitRelease(r) \/ PermitReleaseFail(r)
        <5>1. req' = [req EXCEPT ![r] = [req[r] EXCEPT !.pc = "leaving"]]
          BY <1>t, <4>6 DEF PermitRelease, PermitReleaseFail
        <5> QED BY <1>t, <4>1, <4>3, <5>1
      <4> QED BY <1>2, <2>2, <4>4, <4>5, <4>6 DEF Permit
    <3>2. gate' = gate /\ req[r].pc \notin {"idle", "waiting"}
      BY <1>2, <2>2 DEF WorkDone, Permit, PermitGrant, Defer, DeferFail, PermitRelease, PermitReleaseFail
    <3> QED BY <3>1, <3>2, SameGates
  <2> QED BY <2>1, <2>2
<1>3. ASSUME NEW r \in Requests, Leave(r) \/ PermitGiveUp(r) PROVE Gates'
  BY <1>3, LeaveGates DEF Leave, PermitGiveUp
<1>4. CASE UNCHANGED vars
  BY <1>4, SameGates DEF vars
<1> QED BY <1>1, <1>2, <1>3, <1>4, EnterGates, FloodGates, TimeoutGates, TickGates DEF Next, Answer, Return

LEMMA GatesInv == Spec => []Gates
<1> QED BY InitInv, InitGates, NextGates, GateInv, PTL DEF Spec

\* While a place is free and somebody waits, the gate's timer is set for when it
\* opens, whatever comes in between, a FloodWait and a waiter's own timeout
\* included (drain clears wakeTimer first; WaiterTimeout does not drain).
THEOREM WakeupsAreKept == Spec => []NoLostWakeup
<1>1. Gates => NoLostWakeup
  BY DEF Gates, WakeOK, NoLostWakeup
<1> QED BY <1>1, GatesInv, PTL

\* A token is there no longer than it was last given for.
Tokens == \A r \in Requests : slots[r] \in 0..SlotTtl \cup {Off}

LEMMA NextTokens == Inv /\ Tokens /\ [Next]_vars => Tokens'
<1> SUFFICES ASSUME Inv, Tokens, [Next]_vars PROVE Tokens'
  OBVIOUS
<1>t. slots \in [Requests -> Nat \cup {Off}] /\ SlotTtl \in Nat
  BY GateAssumption DEF Inv, Typed
<1>1. CASE Tick
  <2>1. \A t \in Nat : Less(t) <= t /\ Less(t) \in Nat
    BY GateAssumption DEF Less
  <2>2. ASSUME NEW r \in Requests PROVE slots'[r] \in 0..SlotTtl \cup {Off}
    <3>1. slots'[r] = Off \/ slots'[r] = Less(slots[r])
      BY <1>1 DEF Tick
    <3>2. slots[r] = Off \/ slots[r] \in 0..SlotTtl
      BY DEF Tokens
    <3>3. Less(Off) = Off /\ \A s \in 0..SlotTtl : Less(s) \in 0..SlotTtl
      BY <1>t, <2>1 DEF Less
    <3> QED BY <3>1, <3>2, <3>3
  <2> QED BY <2>2 DEF Tokens
<1>2. CASE \E p \in Processes : WakeFire(p)
  BY <1>2 DEF WakeFire, redis, Tokens
<1>3. ASSUME NEW r \in Requests, Enter(r) \/ Answer(r) \/ Leave(r) \/ PermitGiveUp(r) PROVE Tokens'
  BY <1>3, LocalStep DEF redis, Tokens
<1>4. ASSUME NEW r \in Requests, Permit(r) \/ PermitRenew(r) PROVE Tokens'
  <2>1. \A q \in Requests : Purged[q] \in 0..SlotTtl \cup {Off}
    BY DEF Tokens, Purged
  <2>2. \/ slots' = Purged \/ slots' = [Purged EXCEPT ![r] = SlotTtl] \/ slots' = [slots EXCEPT ![r] = SlotTtl]
    BY <1>4 DEF Permit, PermitGrant, PermitGrantLost, PermitRefused, PermitRenew
  <2>3. Purged \in [Requests -> Nat \cup {Off}]
    BY PurgedType DEF Inv
  <2> QED BY <1>t, <2>1, <2>2, <2>3 DEF Tokens
<1>5. ASSUME NEW r \in Requests, Defer(r) \/ DeferFail(r) \/ PermitRelease(r) \/ PermitReleaseFail(r) PROVE Tokens'
  BY <1>t, <1>5 DEF Defer, DeferFail, PermitRelease, PermitReleaseFail, redis, Tokens
<1>6. CASE UNCHANGED vars
  BY <1>6 DEF vars, Tokens
<1> QED BY <1>1, <1>2, <1>3, <1>4, <1>5, <1>6 DEF Next, Return

LEMMA OnceCounts ==
  ASSUME NEW g \in GateSet, Once(g.waiters)
  PROVE  Len(g.waiters) = Cardinality(Queue(g))
<1>1. PICK ws \in Seq(Requests) : ws = g.waiters
  BY DEF GateSet
<1>2. PICK n \in Nat : n = Len(ws)
  BY <1>1
<1>3. \A q : q \in Queue(g) <=> \E i \in 1..n : ws[i] = q
  BY <1>1, <1>2, QueueOf
<1>4. ws \in [1..n -> Queue(g)]
  BY <1>1, <1>2, <1>3
<1>5. ws \in Bijection(1..n, Queue(g))
  <2>1. \A i, j \in 1..n : ws[i] = ws[j] => i = j
    BY <1>1, <1>2 DEF Once
  <2>2. \A q \in Queue(g) : \E i \in 1..n : ws[i] = q
    BY <1>3
  <2> QED BY <1>4, <2>1, <2>2 DEF Bijection, Injection, Surjection, IsInjective
<1> QED BY <1>1, <1>2, <1>5, FS_CountingElements DEF ExistsBijection

\* The types; and the queue and the counter of each gate are who waits for a place
\* and who holds one: no error path of run, and no timeout, loses or adds one.
THEOREM PlacesAreKept == Spec => []TypeOK
<1>1. Init => Tokens
  BY GateAssumption DEF Init, Tokens
<1>2. Spec => []Tokens
  BY <1>1, NextTokens, GateInv, PTL DEF Spec
<1>3. Inv /\ Gates /\ Tokens => TypeOK
  <2> SUFFICES ASSUME Inv, Gates, Tokens PROVE TypeOK
    OBVIOUS
  <2>1. /\ req \in [Requests -> [pc : Pcs, left : Nat \cup {Off}, flood : Nat]]
        /\ slots \in [Requests -> 0..SlotTtl \cup {Off}] /\ shared \in [next : Nat, flood : Nat] /\ banned \in Nat
    BY GateAssumption DEF Inv, Typed, ReqSet, Tokens
  <2>2. ASSUME NEW p \in Processes
        PROVE  LET g == gate[p]
               IN  /\ g.inFlight = Cardinality(InFlight(p)) /\ g.inFlight <= Concurrency
                   /\ g.next \in Nat /\ g.blocked \in Nat /\ g.wake \in Nat \cup {Off}
                   /\ Queue(g) = {r \in Requests : Home[r] = p /\ req[r].pc = "waiting"}
                   /\ Len(g.waiters) = Cardinality(Queue(g))
    <3>1. gate[p] \in GateSet /\ GateOK(p, gate[p], req)
      BY DEF Gates
    <3>2. Holds(p, req) = InFlight(p) /\ Waits(p, req) = {r \in Requests : Home[r] = p /\ req[r].pc = "waiting"}
      BY DEF Holds, Waits, InFlight
    <3>3. Len(gate[p].waiters) = Cardinality(Queue(gate[p]))
      BY <3>1, OnceCounts DEF GateOK
    <3>4. gate[p].next \in Nat /\ gate[p].blocked \in Nat /\ gate[p].wake \in Nat \cup {Off}
      BY <3>1 DEF GateSet
    <3> QED BY <3>1, <3>2, <3>3, <3>4 DEF GateOK
  <2> QED BY <2>1, <2>2 DEF TypeOK
<1> QED BY <1>2, <1>3, GateInv, GatesInv, PTL
=============================================================================
