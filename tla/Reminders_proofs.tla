-------------------------- MODULE Reminders_proofs --------------------------
(***************************************************************************)
(* No chat is reminded twice by one run, for any number of instances, chats, *)
(* senders and faults.                                                       *)
(*                                                                           *)
(* The invariant follows a message back to where it comes from.  Nothing was  *)
(* sent to a chat that is still to be sent to (Unsent).  What is to be sent   *)
(* to was queued by the one dispatch of a run, which does not begin before    *)
(* its job made the targets (NotBegun), and the unique key gives a run one    *)
(* job (OneJob).                                                              *)
(*                                                                           *)
(* What is reported is what happened (Report): a target marked sent was       *)
(* delivered to, only a dispatch that is over reports completion, and no      *)
(* more messages are in flight than there are senders.                        *)
(*                                                                           *)
(* And a run keeps the promise of ReminderPromise (Told): it has targets once *)
(* it is dispatched, and its campaign is open until its dispatch ends.        *)
(***************************************************************************)
EXTENDS Reminders, FiniteSetTheorems, TLAPS

Creating == {"resolve", "none", "campaign", "targets", "queued", "mark"}

JobSet == [pc : {"idle", "fired", "due"} \cup Creating, run : Runs \cup {NoRun}, chats : SUBSET Chats]
DispatchPCs == {"none", "begun", "read", "sending", "broken", "failed", "over"}
DispatchSet == [pc : DispatchPCs,
                by : Instances \cup {NoInstance}, todo : SUBSET Chats, live : Int]

JobShape == job \in [Instances -> JobSet] /\ \A a \in Instances : job[a].pc # "idle" => job[a].run \in Runs
DispatchShape == dispatch \in [Runs -> DispatchSet]
SendShape == /\ hand \in [Runs -> [Chats -> {"idle", "begun", "ok", "error"}]]
             /\ delivered \in [Runs -> [Chats -> Nat]]
RunShape == runs \in [Runs -> {"absent", "running", "no_targets", "queued", "failed"}]
Shape == JobShape /\ DispatchShape /\ SendShape /\ RunShape

\* A job past the unique key has the row of its run, alone.
OneJob ==
  \A a \in Instances : job[a].pc \in Creating =>
    /\ runs[job[a].run] # "absent"
    /\ \A b \in Instances : job[b].pc \in Creating /\ job[b].run = job[a].run => b = a

Untouched(r) == \A c \in Chats : delivered[r][c] = 0 /\ hand[r][c] = "idle" /\ c \notin dispatch[r].todo

\* Before the targets are made nothing is dispatched, and before they are read nothing is sent.
NotBegun ==
  /\ \A r \in Runs : runs[r] = "absent" => dispatch[r].pc = "none" /\ Untouched(r)
  /\ \A a \in Instances : job[a].pc \in {"resolve", "campaign", "targets"} =>
       dispatch[job[a].run].pc = "none" /\ Untouched(job[a].run)
  /\ \A r \in Runs : dispatch[r].pc \in {"begun", "read"} => Untouched(r)
  /\ \A r \in Runs : dispatch[r].pc = "none" => dispatch[r].todo = {} /\ \A c \in Chats : hand[r][c] = "idle"

\* Nothing was sent yet to a chat that is to be sent to.
UnsentTo(r, c) ==
  /\ delivered[r][c] <= 1
  /\ hand[r][c] = "begun" => delivered[r][c] = 0
  /\ c \in dispatch[r].todo => delivered[r][c] = 0 /\ hand[r][c] = "idle"
Unsent == \A r \in Runs, c \in Chats : UnsentTo(r, c)

Inv == Shape /\ OneJob /\ NotBegun /\ Unsent

LEMMA InitInv == Init => Inv
BY NamesAssumption DEF Init, Inv, Shape, JobShape, JobSet, DispatchShape, DispatchSet, DispatchPCs, SendShape, RunShape, OneJob, NotBegun, Unsent, UnsentTo, Untouched, IdleJob, NoDispatch, Creating

LEMMA DispatchEdit ==
  ASSUME NEW d \in DispatchSet, NEW t \in SUBSET Chats, NEW l \in Int, NEW p \in DispatchPCs
  PROVE  /\ [d EXCEPT !.todo = t] \in DispatchSet
         /\ [d EXCEPT !.live = l, !.pc = p] \in DispatchSet
         /\ [d EXCEPT !.todo = t, !.live = l, !.pc = p] \in DispatchSet
BY DEF DispatchSet

\* The dispatch of one run changes to another one.
LEMMA DispatchOne ==
  ASSUME DispatchShape, NEW r \in Runs, NEW d \in DispatchSet, dispatch' = [dispatch EXCEPT ![r] = d]
  PROVE  DispatchShape' /\ dispatch'[r] = d /\ \A s \in Runs : s # r => dispatch'[s] = dispatch[s]
BY DEF DispatchShape

\* A step of a job that is not the dispatch's.
LEMMA JobFrame ==
  ASSUME Inv, JobShape', RunShape', OneJob', UNCHANGED <<dispatch, hand, delivered>>,
         \A r \in Runs : runs'[r] = "absent" => runs[r] = "absent",
         \A a \in Instances : job'[a].pc \in {"resolve", "campaign", "targets"} =>
           dispatch[job'[a].run].pc = "none" /\ Untouched(job'[a].run)
  PROVE  Inv'
<1>1. NotBegun'
  BY DEF Inv, Shape, JobShape, JobSet, DispatchShape, DispatchSet, DispatchPCs, SendShape, RunShape, NotBegun, Untouched, Creating
<1>2. Unsent'
  BY DEF Inv, Unsent, UnsentTo
<1>3. Shape'
  BY DEF Inv, Shape, DispatchShape, SendShape
<1> QED BY <1>1, <1>2, <1>3 DEF Inv

\* What only the job of an instance does.
LEMMA JobInv == ASSUME Inv, NEW a \in Instances,
                       JobFire(a) \/ JobDue(a) \/ RunStep(a) \/ JobFail(a) \/ RunFail(a) \/ (\E r \in Manuals : runNow(a, r))
                PROVE  Inv'
<1>t. Shape /\ OneJob /\ NotBegun /\ Unsent
  BY DEF Inv
<1>r. Today \in Runs /\ Manuals \subseteq Runs /\ NoRun \notin Runs
  BY NamesAssumption DEF Runs
<1>i. ASSUME job' = [job EXCEPT ![a] = IdleJob], UNCHANGED <<dispatch, hand, delivered>>,
             \A r \in Runs : runs'[r] = "absent" <=> runs[r] = "absent", RunShape'
      PROVE  Inv'
  <2>1. JobShape' /\ RunShape' /\ OneJob'
    <3>1. JobShape'
      BY <1>t, <1>r, <1>i DEF IdleJob, Shape, JobShape, JobSet
    <3>2. OneJob'
      BY <1>t, <1>i DEF IdleJob, Shape, JobShape, JobSet, OneJob, Creating
    <3> QED BY <1>i, <3>1, <3>2
  <2>2. \A b \in Instances : job'[b].pc \in {"resolve", "campaign", "targets"} => job'[b] = job[b]
    BY <1>t, <1>i DEF IdleJob, Shape, JobShape, JobSet, RunShape
  <2> QED BY <1>t, <1>i, <2>1, <2>2, JobFrame DEF NotBegun
<1>1. CASE JobFire(a) \/ \E r \in Manuals : runNow(a, r)
  <2>1. PICK r \in Runs, pc \in {"fired", "due"} : job' = [job EXCEPT ![a] = [IdleJob EXCEPT !.pc = pc, !.run = r]]
    BY <1>r, <1>1 DEF JobFire, runNow
  <2>2. UNCHANGED <<runs, dispatch, hand, delivered>>
    BY <1>1 DEF JobFire, runNow, sending
  <2>3. JobShape' /\ RunShape' /\ OneJob'
    BY <1>t, <2>1, <2>2 DEF IdleJob, Shape, JobShape, JobSet, RunShape, OneJob, Creating
  <2>4. \A b \in Instances : job'[b].pc \in {"resolve", "campaign", "targets"} => job'[b] = job[b]
    BY <1>t, <2>1 DEF IdleJob, Shape, JobShape, JobSet, RunShape
  <2> QED BY <1>t, <2>2, <2>3, <2>4, JobFrame DEF NotBegun
<1>2. CASE JobDue(a)
  <2>1. PICK due \in BOOLEAN : job' = [job EXCEPT ![a] = IF due THEN [@ EXCEPT !.pc = "due"] ELSE IdleJob]
    BY <1>2 DEF JobDue
  <2>2. UNCHANGED <<runs, dispatch, hand, delivered>>
    BY <1>2 DEF JobDue, sending
  <2>3. CASE due
    <3>1. job' = [job EXCEPT ![a].pc = "due"] /\ job[a].pc = "fired"
      BY <1>2, <2>1, <2>3 DEF JobDue
    <3>2. JobShape' /\ RunShape' /\ OneJob'
      BY <1>t, <3>1, <2>2 DEF Shape, JobShape, JobSet, RunShape, OneJob, Creating
    <3>3. \A b \in Instances : job'[b].pc \in {"resolve", "campaign", "targets"} => job'[b] = job[b]
      BY <1>t, <3>1 DEF Shape, JobShape, JobSet, RunShape
    <3> QED BY <1>t, <2>2, <3>2, <3>3, JobFrame DEF NotBegun
  <2>4. CASE ~due
    BY <1>t, <1>i, <2>1, <2>2, <2>4 DEF Shape, JobShape, JobSet, RunShape
  <2> QED BY <2>3, <2>4
<1>3. CASE RunCreate(a)
  <2>1. CASE runs[job[a].run] = "absent"
    <3> DEFINE r == job[a].run
    <3>1. /\ runs' = [runs EXCEPT ![r] = "running"] /\ job' = [job EXCEPT ![a].pc = "resolve"]
          /\ job[a].pc = "due" /\ UNCHANGED <<dispatch, hand, delivered>>
      BY <1>3, <2>1 DEF RunCreate, sending
    <3>2. r \in Runs
      BY <1>t, <3>1 DEF Shape, JobShape, JobSet, RunShape
    <3>3. JobShape' /\ RunShape' /\ OneJob'
      BY <1>t, <2>1, <3>1, <3>2 DEF Shape, JobShape, JobSet, RunShape, OneJob, Creating
    <3>4. \A b \in Instances \ {a} : job'[b] = job[b]
      BY <1>t, <3>1 DEF Shape, JobShape, JobSet, RunShape
    <3>5. job'[a].run = r /\ dispatch[r].pc = "none" /\ Untouched(r)
      BY <1>t, <2>1, <3>1, <3>2 DEF Shape, JobShape, JobSet, RunShape, NotBegun
    <3>6. \A b \in Instances : job'[b].pc \in {"resolve", "campaign", "targets"} =>
            dispatch[job'[b].run].pc = "none" /\ Untouched(job'[b].run)
      BY <1>t, <3>4, <3>5 DEF NotBegun
    <3>7. \A s \in Runs : runs'[s] = "absent" => runs[s] = "absent"
      BY <1>t, <3>1 DEF Shape, JobShape, JobSet, RunShape
    <3> QED BY <3>1, <3>3, <3>6, <3>7, JobFrame
  <2>2. CASE runs[job[a].run] # "absent"
    BY <1>t, <1>i, <1>3, <2>2 DEF RunCreate, sending, Shape, JobShape, JobSet, RunShape
  <2> QED BY <2>1, <2>2
<1>4. CASE RunResolve(a) \/ CampaignCreate(a) \/ RunRecord(a)
  <2>1. /\ UNCHANGED <<dispatch, hand, delivered>> /\ job[a].pc \in Creating
        /\ \A b \in Instances : b # a => job'[b] = job[b]
        /\ RunShape' /\ \A s \in Runs : runs'[s] = "absent" => runs[s] = "absent"
        /\ \A s \in Runs : runs[s] # "absent" => runs'[s] # "absent"
    BY <1>t, <1>4 DEF RunResolve, CampaignCreate, RunRecord, sending, Shape, JobShape, JobSet, RunShape, Creating
  <2>2. /\ job'[a].run = job[a].run /\ job'[a].pc \in Creating
        /\ job'[a].pc \in {"campaign", "targets"} => job[a].pc \in {"resolve", "campaign"}
        /\ job'[a].pc # "resolve"
    BY <1>t, <1>4 DEF RunResolve, CampaignCreate, RunRecord, Shape, JobShape, JobSet, RunShape, Creating
  <2>3. job' \in [Instances -> [pc : {"idle", "fired", "due"} \cup Creating, run : Runs \cup {NoRun}, chats : SUBSET Chats]]
    BY <1>t, <1>4 DEF RunResolve, CampaignCreate, RunRecord, Shape, JobShape, JobSet, RunShape, Creating
  <2>4. JobShape' /\ RunShape' /\ OneJob'
    BY <1>t, <2>1, <2>2, <2>3 DEF Shape, JobShape, JobSet, RunShape, OneJob, Creating
  <2>5. \A b \in Instances : job'[b].pc \in {"resolve", "campaign", "targets"} =>
          dispatch[job'[b].run].pc = "none" /\ Untouched(job'[b].run)
    BY <1>t, <2>1, <2>2 DEF NotBegun
  <2> QED BY <2>1, <2>4, <2>5, JobFrame
<1>5. CASE TargetsCreate(a)
  <2> DEFINE r == job[a].run
  <2>1. /\ job[a].pc = "targets" /\ r \in Runs /\ UNCHANGED <<runs, hand, delivered>>
        /\ job' = [job EXCEPT ![a].pc = "queued"]
        /\ dispatch' = [dispatch EXCEPT ![r] = [NoDispatch EXCEPT !.pc = "begun", !.by = a]]
    BY <1>t, <1>5 DEF TargetsCreate, Shape, JobShape, JobSet, RunShape
  <2>2. JobShape' /\ RunShape' /\ OneJob'
    BY <1>t, <2>1 DEF Shape, JobShape, JobSet, RunShape, OneJob, Creating
  <2>s. DispatchShape' /\ SendShape'
    <3>1. [NoDispatch EXCEPT !.pc = "begun", !.by = a] \in DispatchSet
      <4>1. NoDispatch \in DispatchSet
        BY DEF NoDispatch, DispatchSet, DispatchPCs
      <4> QED BY <4>1 DEF DispatchSet, DispatchPCs
    <3> QED BY <1>t, <2>1, <3>1, DispatchOne DEF Shape, SendShape
  <2>3. runs[r] # "absent" /\ Untouched(r)
        /\ \A b \in Instances : b # a /\ job[b].pc \in {"resolve", "campaign", "targets"} => job[b].run # r
    BY <1>t, <2>1 DEF OneJob, NotBegun, Creating
  <2>4. dispatch'[r].pc = "begun" /\ dispatch'[r].todo = {} /\ \A s \in Runs : s # r => dispatch'[s] = dispatch[s]
    BY <1>t, <2>1 DEF NoDispatch, Shape, DispatchShape, DispatchSet, DispatchPCs
  <2>5. Untouched(r)'
    BY <2>1, <2>3, <2>4 DEF Untouched
  <2>6. \A s \in Runs : s # r => (Untouched(s)' <=> Untouched(s))
    BY <2>1, <2>4 DEF Untouched
  <2>7. NotBegun'
    <3>1. \A b \in Instances : job'[b].pc \in {"resolve", "campaign", "targets"} => b # a /\ job'[b] = job[b]
      BY <1>t, <2>1 DEF Shape, JobShape, JobSet, RunShape
    <3> QED BY <1>t, <2>1, <2>3, <2>4, <2>5, <2>6, <3>1 DEF NotBegun, Shape, JobShape, JobSet, RunShape, Creating
  <2>8. Unsent'
    BY <1>t, <2>1, <2>3, <2>4 DEF Unsent, UnsentTo, Untouched
  <2> QED BY <2>2, <2>s, <2>7, <2>8 DEF Inv, Shape
<1>6. CASE RunMark(a) \/ JobFail(a)
  BY <1>t, <1>i, <1>6 DEF RunMark, JobFail, sending, Shape, JobShape, JobSet, RunShape
<1>7. CASE RunFail(a)
  <2>1. job[a].run \in Runs /\ runs[job[a].run] # "absent"
    BY <1>t, <1>7 DEF RunFail, Shape, JobShape, JobSet, RunShape, OneJob, Creating
  <2> QED BY <1>t, <1>i, <1>7, <2>1 DEF RunFail, sending, Shape, JobShape, JobSet, RunShape
<1> QED
  BY <1>1, <1>2, <1>3, <1>4, <1>5, <1>6, <1>7 DEF RunStep

\* A step of the dispatch of a run.
LEMMA DispatchFrame ==
  ASSUME Inv, DispatchShape', SendShape', UNCHANGED <<job, runs>>, NEW r \in Runs,
         dispatch[r].pc # "none", dispatch'[r].pc # "none",
         \A s \in Runs : s # r => dispatch'[s] = dispatch[s] /\ hand'[s] = hand[s] /\ delivered'[s] = delivered[s],
         dispatch'[r].pc \in {"begun", "read"} => Untouched(r)',
         \A c \in Chats : UnsentTo(r, c)'
  PROVE  Inv'
<1>1. OneJob'
  BY DEF Inv, OneJob
<1>2. \A s \in Runs : s # r => Untouched(s)' = Untouched(s)
  BY DEF Untouched
<1>3. NotBegun'
  BY <1>2 DEF Inv, Shape, JobShape, JobSet, NotBegun, Creating
<1>4. Unsent'
  BY DEF Inv, Unsent, UnsentTo
<1>5. Shape'
  BY DEF Inv, Shape, JobShape, RunShape
<1> QED BY <1>1, <1>3, <1>4, <1>5 DEF Inv

LEMMA DispatchInv == ASSUME Inv, NEW r \in Runs, DispatchStep(r) \/ DispatchError(r)
                     PROVE  Inv'
<1>t. Shape /\ NotBegun /\ Unsent
  BY DEF Inv
<1>1. CASE DispatchStart(r) \/ DispatchEnd(r) \/ DispatchFailed(r) \/ DispatchError(r)
  <2>1. PICK pc \in {"read", "over", "failed", "broken"} : dispatch' = [dispatch EXCEPT ![r].pc = pc]
    BY <1>1 DEF DispatchStart, DispatchEnd, DispatchFailed, DispatchError
  <2>2. /\ UNCHANGED <<job, runs, hand, delivered>> /\ dispatch[r].pc # "none"
        /\ pc = "read" => dispatch[r].pc = "begun"
    BY <1>t, <1>1, <2>1 DEF DispatchStart, DispatchEnd, DispatchFailed, DispatchError, SendersDone, Shape, DispatchShape, DispatchSet, DispatchPCs, SendShape
  <2>3. /\ dispatch'[r].pc = pc /\ dispatch'[r].todo = dispatch[r].todo
        /\ \A s \in Runs : s # r => dispatch'[s] = dispatch[s]
    BY <1>t, <2>1 DEF Shape, DispatchShape, DispatchSet, DispatchPCs, SendShape
  <2>4. DispatchShape' /\ SendShape'
    BY <1>t, <2>1, <2>2 DEF Shape, DispatchShape, DispatchSet, DispatchPCs, SendShape
  <2>5. dispatch'[r].pc \in {"begun", "read"} => Untouched(r)'
    BY <1>t, <2>2, <2>3 DEF NotBegun, Untouched
  <2>6. \A c \in Chats : UnsentTo(r, c)'
    BY <1>t, <2>2, <2>3 DEF Unsent, UnsentTo
  <2> QED BY <2>2, <2>3, <2>4, <2>5, <2>6, DispatchFrame
<1>2. CASE DispatchRead(r)
  <2>1. /\ UNCHANGED <<job, runs, hand, delivered>> /\ dispatch[r].pc = "read"
        /\ dispatch'[r].pc = "sending" /\ \A s \in Runs : s # r => dispatch'[s] = dispatch[s]
    BY <1>t, <1>2 DEF DispatchRead, Shape, DispatchShape, DispatchSet, DispatchPCs, SendShape
  <2>2. DispatchShape' /\ SendShape'
    <3> DEFINE d == [dispatch[r] EXCEPT !.todo = {c \in Chats : target[r][c] = "queued"}, !.live = Senders, !.pc = "sending"]
    <3>1. dispatch' = [dispatch EXCEPT ![r] = d] /\ UNCHANGED <<hand, delivered>>
      BY <1>t, <1>2 DEF DispatchRead, Shape, DispatchShape
    <3>2. d \in DispatchSet
      <4>1. dispatch[r] \in DispatchSet /\ Senders \in Int /\ "sending" \in DispatchPCs
        BY <1>t, BoundsAssumption DEF Shape, DispatchShape, DispatchPCs
      <4>2. {c \in Chats : target[r][c] = "queued"} \in SUBSET Chats
        OBVIOUS
      <4> QED BY <4>1, <4>2, DispatchEdit
    <3> HIDE DEF d
    <3> QED BY <1>t, <3>1, <3>2, DispatchOne DEF Shape, SendShape
  <2>3. \A c \in Chats : UnsentTo(r, c)'
    BY <1>t, <2>1 DEF NotBegun, Untouched, Unsent, UnsentTo
  <2> QED BY <2>1, <2>2, <2>3, DispatchFrame
<1> QED
  BY <1>1, <1>2 DEF DispatchStep

\* What a sender does with a target.
LEMMA DeliverInv == ASSUME Inv, NEW r \in Runs, NEW c \in Chats, DeliverStep(r, c) \/ FaultStep(r, c)
                    PROVE  Inv'
<1>t. Shape /\ NotBegun /\ Unsent
  BY DEF Inv
<1>d. /\ dispatch[r] \in DispatchSet /\ dispatch[r].live - 1 \in Int
      /\ dispatch[r].todo \ {c} \in SUBSET Chats /\ Broken(dispatch[r].pc) \in DispatchPCs
  BY <1>t DEF Broken, Shape, DispatchShape, DispatchSet, DispatchPCs
<1>b. dispatch[r].pc \notin {"none", "begun", "read"}
  BY <1>t DEF DeliverStep, FaultStep, DeliverBegin, DeliverSend, DeliverRecord, DeliverBeginFail, DeliverSendFail,
              DeliverSentFail, DeliverFailedFail, Telegram, SenderFree, NotBegun, Untouched, Shape, DispatchShape, DispatchSet, DispatchPCs, SendShape
<1>1. CASE DeliverBegin(r, c) \/ DeliverBeginFail(r, c)
  <2>1. /\ UNCHANGED <<job, runs, delivered>> /\ c \in dispatch[r].todo
        /\ \A s \in Runs : s # r => dispatch'[s] = dispatch[s] /\ hand'[s] = hand[s]
        /\ \A d \in Chats : d # c => hand'[r][d] = hand[r][d]
        /\ hand'[r][c] \in {hand[r][c], "begun"}
    BY <1>t, <1>1 DEF DeliverBegin, DeliverBeginFail, Broken, Shape, DispatchShape, DispatchSet, DispatchPCs, SendShape
  <2>2. /\ dispatch'[r].todo = dispatch[r].todo \ {c}
        /\ dispatch'[r].pc \in {dispatch[r].pc, "broken"}
    BY <1>t, <1>1 DEF DeliverBegin, DeliverBeginFail, Broken, Shape, DispatchShape, DispatchSet, DispatchPCs, SendShape
  <2>3. DispatchShape' /\ SendShape'
    <3> DEFINE d == [dispatch[r] EXCEPT !.todo = @ \ {c}]
               e == [dispatch[r] EXCEPT !.todo = @ \ {c}, !.live = @ - 1, !.pc = Broken(@)]
    <3>1. dispatch' = [dispatch EXCEPT ![r] = d] \/ dispatch' = [dispatch EXCEPT ![r] = e]
      BY <1>t, <1>1 DEF DeliverBegin, DeliverBeginFail, Shape, DispatchShape
    <3>2. d \in DispatchSet /\ e \in DispatchSet
      BY <1>d, DispatchEdit
    <3>3. SendShape'
      <4>1. hand' = hand \/ hand' = [hand EXCEPT ![r][c] = "begun"]
        BY <1>1 DEF DeliverBegin, DeliverBeginFail
      <4>2. hand \in [Runs -> [Chats -> {"idle", "begun", "ok", "error"}]] /\ SendShape /\ delivered' = delivered
        BY <1>t, <2>1 DEF Shape, SendShape
      <4>3. hand' \in [Runs -> [Chats -> {"idle", "begun", "ok", "error"}]]
        BY <4>1, <4>2
      <4> QED BY <4>2, <4>3 DEF SendShape
    <3> HIDE DEF d, e
    <3> QED BY <1>t, <3>1, <3>2, <3>3, DispatchOne DEF Shape
  <2>4. \A d \in Chats : UnsentTo(r, d)'
    BY <1>t, <2>1, <2>2 DEF Unsent, UnsentTo
  <2> QED BY <1>b, <2>1, <2>2, <2>3, <2>4, DispatchFrame
<1>2. CASE DeliverSend(r, c) \/ DeliverSendFail(r, c)
  <2>1. PICK answer \in {"ok", "error"}, n \in {0, 1} : Telegram(r, c, answer, n)
    BY <1>2 DEF DeliverSend, DeliverSendFail
  <2>2. /\ UNCHANGED <<job, runs, dispatch>> /\ hand[r][c] = "begun"
        /\ \A s \in Runs : s # r => hand'[s] = hand[s] /\ delivered'[s] = delivered[s]
        /\ \A d \in Chats : d # c => hand'[r][d] = hand[r][d] /\ delivered'[r][d] = delivered[r][d]
        /\ hand'[r][c] = answer /\ delivered'[r][c] = delivered[r][c] + n
    BY <1>t, <2>1 DEF Telegram, Shape, DispatchShape, DispatchSet, DispatchPCs, SendShape
  <2>3. DispatchShape' /\ SendShape'
    BY <1>t, <2>1 DEF Telegram, Shape, DispatchShape, DispatchSet, DispatchPCs, SendShape
  <2>4. \A d \in Chats : UnsentTo(r, d)'
    BY <1>t, <2>2 DEF Unsent, UnsentTo
  <2> QED BY <1>b, <2>2, <2>3, <2>4, DispatchFrame
<1>3. CASE DeliverRecord(r, c) \/ DeliverSentFail(r, c) \/ DeliverFailedFail(r, c)
  <2>1. /\ UNCHANGED <<job, runs, delivered>> /\ hand[r][c] # "idle"
        /\ \A s \in Runs : s # r => dispatch'[s] = dispatch[s] /\ hand'[s] = hand[s]
        /\ \A d \in Chats : d # c => hand'[r][d] = hand[r][d]
        /\ hand'[r][c] \in {"idle", "error"}
    BY <1>t, <1>3 DEF DeliverRecord, DeliverSentFail, DeliverFailedFail, Broken, Shape, DispatchShape, DispatchSet, DispatchPCs, SendShape
  <2>2. /\ dispatch'[r].todo = dispatch[r].todo
        /\ dispatch'[r].pc \in {dispatch[r].pc, "broken"}
    BY <1>t, <1>3 DEF DeliverRecord, DeliverSentFail, DeliverFailedFail, Broken, Shape, DispatchShape, DispatchSet, DispatchPCs, SendShape
  <2>3. DispatchShape' /\ SendShape'
    <3> DEFINE d == [dispatch[r] EXCEPT !.live = @ - 1, !.pc = Broken(@)]
    <3>1. dispatch' = dispatch \/ dispatch' = [dispatch EXCEPT ![r] = d]
      BY <1>t, <1>3 DEF DeliverRecord, DeliverSentFail, DeliverFailedFail, Shape, DispatchShape
    <3>2. d \in DispatchSet
      BY <1>d, DispatchEdit
    <3>3. SendShape'
      <4>1. PICK h \in {"begun", "idle", "error"} : hand' = [hand EXCEPT ![r][c] = h] \/ hand' = hand
        BY <1>3 DEF DeliverRecord, DeliverSentFail, DeliverFailedFail
      <4> QED BY <1>t, <2>1, <4>1 DEF Shape, SendShape
    <3> HIDE DEF d
    <3> QED BY <1>t, <3>1, <3>2, <3>3, DispatchOne DEF Shape, DispatchShape
  <2>4. \A d \in Chats : UnsentTo(r, d)'
    BY <1>t, <2>1, <2>2 DEF Unsent, UnsentTo
  <2> QED BY <1>b, <2>1, <2>2, <2>3, <2>4, DispatchFrame
<1> QED
  BY <1>1, <1>2, <1>3 DEF DeliverStep, FaultStep

LEMMA CrashInv == ASSUME Inv, NEW a \in Instances, Crash(a) PROVE Inv'
BY NamesAssumption DEF Crash, IdleJob, NoDispatch, Inv, Shape, JobShape, JobSet, DispatchShape, DispatchSet, DispatchPCs, SendShape, RunShape, OneJob, NotBegun, Unsent, UnsentTo, Untouched, Creating

LEMMA NextInv == Inv /\ [Next]_vars => Inv'
<1> SUFFICES ASSUME Inv, [Next]_vars PROVE Inv'
  OBVIOUS
<1>1. CASE UNCHANGED vars
  BY <1>1 DEF vars, Inv, Shape, JobShape, JobSet, DispatchShape, DispatchSet, DispatchPCs, SendShape, RunShape, OneJob, NotBegun, Unsent, UnsentTo, Untouched
<1>2. CASE Next
  BY <1>2, JobInv, CrashInv, DispatchInv, DeliverInv DEF Next
<1> QED BY <1>1, <1>2

\* Each run reminds a chat at most once, whatever number of instances fire its
\* minute, whichever of their queries and Telegram calls fail, and whenever they
\* die (executeSchedule's unique key, runWithConcurrency's cursor).
THEOREM ReminderSentOnce == Spec => []RemindedOnce
<1>1. Inv => RemindedOnce
  BY DEF Inv, Unsent, UnsentTo, RemindedOnce
<1> QED BY <1>1, InitInv, NextInv, PTL DEF Spec
----------------------------------------------------------------------------
(* What is reported, and the senders at work.  A status is final only when   *)
(* the dispatch is over (or gone with its process) and nothing is in flight; *)
(* a target is recorded as sent only after its message was delivered.        *)

Early(r) ==
  runs[r] = "absent" \/ \E a \in Instances : job[a].pc \in {"resolve", "campaign", "targets"} /\ job[a].run = r

HonestRun(r) ==
  /\ campaign[r] \in {"completed", "partial_failed"} => dispatch[r].pc \in {"over", "none"}
  /\ dispatch[r].pc = "over" => \A c \in Chats : hand[r][c] = "idle"
  /\ \A c \in Chats : target[r][c] = "sent" \/ hand[r][c] = "ok" => delivered[r][c] = 1
  /\ Early(r) => campaign[r] \in {"absent", "pending"}
  /\ campaign[r] = "completed" => \A c \in Chats : target[r][c] # "none" => delivered[r][c] = 1
  /\ campaign[r] = "partial_failed" => /\ \E c \in Chats : delivered[r][c] = 1
                                       /\ \E c \in Chats : target[r][c] = "failed"

CountRun(r) ==
  /\ dispatch[r].live \in 0..Senders
  /\ \A c \in dispatch[r].todo : target[r][c] = "queued"
  /\ Cardinality(InFlight(r)) <= dispatch[r].live

CampaignStatus == {"absent", "pending", "running", "completed", "partial_failed", "failed"}
TargetStatus == {"none", "queued", "sending", "sent", "failed"}
ReportShape == /\ campaign \in [Runs -> CampaignStatus]
               /\ target \in [Runs -> [Chats -> TargetStatus]]
               /\ faults \in 0..MaxFaults

Report == ReportShape /\ \A r \in Runs : HonestRun(r) /\ CountRun(r)

LEMMA FlightFinite ==
  \A r \in Runs : IsFiniteSet(InFlight(r)) /\ Cardinality(InFlight(r)) \in Nat
<1> SUFFICES ASSUME NEW r \in Runs PROVE IsFiniteSet(InFlight(r)) /\ Cardinality(InFlight(r)) \in Nat
  OBVIOUS
<1>1. InFlight(r) \subseteq Chats
  BY DEF InFlight
<1> QED BY <1>1, NamesAssumption, FS_Subset, FS_CardinalityType

LEMMA InitReport == Init => Report
<1> SUFFICES ASSUME Init PROVE Report
  OBVIOUS
<1>1. \A r \in Runs : InFlight(r) = {}
  BY DEF Init, InFlight
<1>2. Cardinality({}) = 0
  BY FS_EmptySet
<1>3. ReportShape
  BY BoundsAssumption DEF Init, ReportShape, CampaignStatus, TargetStatus
<1>4. \A r \in Runs : CountRun(r)
  <2>1. \A r \in Runs : dispatch[r].live = 0 /\ dispatch[r].todo = {}
    BY DEF Init, NoDispatch
  <2>2. 0 \in 0..Senders
    BY BoundsAssumption
  <2> QED BY <1>1, <1>2, <2>1, <2>2 DEF CountRun
<1>5. \A r \in Runs : HonestRun(r)
  BY DEF Init, HonestRun, NoDispatch
<1> QED BY <1>3, <1>4, <1>5 DEF Report

\* A run that a step leaves alone.
LEMMA RunFrame ==
  ASSUME NEW r \in Runs, HonestRun(r), CountRun(r),
         campaign'[r] = campaign[r], target'[r] = target[r], dispatch'[r] = dispatch[r],
         hand'[r] = hand[r], delivered'[r] = delivered[r], Early(r)' => Early(r)
  PROVE  HonestRun(r)' /\ CountRun(r)'
<1>1. InFlight(r)' = InFlight(r)
  BY DEF InFlight
<1> QED BY <1>1 DEF HonestRun, CountRun

LEMMA FaultType ==
  ASSUME faults \in 0..MaxFaults, faults' = faults \/ \E kind \in {"db", "telegram", "crash"} : Fault(kind)
  PROVE  faults' \in 0..MaxFaults
BY BoundsAssumption DEF Fault

\* No step takes a run back to before its dispatch.
LEMMA JobEarly ==
  ASSUME Inv, NEW a \in Instances,
         JobFire(a) \/ JobDue(a) \/ RunStep(a) \/ JobFail(a) \/ RunFail(a) \/ (\E r \in Manuals : runNow(a, r))
  PROVE  \A r \in Runs : Early(r)' => Early(r)
<1>t. JobShape /\ RunShape /\ OneJob
  BY DEF Inv, Shape
<1>r. Today \in Runs /\ Manuals \subseteq Runs
  BY DEF Runs
<1>1. CASE JobFire(a) \/ JobDue(a) \/ JobFail(a) \/ \E r \in Manuals : runNow(a, r)
  <2>1. /\ runs' = runs /\ job'[a].pc \in {"idle", "fired", "due"}
        /\ \A b \in Instances : b # a => job'[b] = job[b]
    <3>1. PICK j \in JobSet : job' = [job EXCEPT ![a] = j] /\ j.pc \in {"idle", "fired", "due"}
      <4>1. CASE JobFire(a) \/ \E r \in Manuals : runNow(a, r)
        <5>1. PICK r \in Runs, pc \in {"fired", "due"} : job' = [job EXCEPT ![a] = [IdleJob EXCEPT !.pc = pc, !.run = r]]
          BY <1>r, <4>1 DEF JobFire, runNow
        <5>2. [IdleJob EXCEPT !.pc = pc, !.run = r] \in JobSet /\ [IdleJob EXCEPT !.pc = pc, !.run = r].pc = pc
          BY DEF IdleJob, JobSet
        <5> QED BY <5>1, <5>2
      <4>2. IdleJob \in JobSet /\ IdleJob.pc = "idle"
        BY DEF IdleJob, JobSet
      <4>3. CASE JobDue(a)
        <5>1. [job[a] EXCEPT !.pc = "due"] \in JobSet /\ [job[a] EXCEPT !.pc = "due"].pc = "due"
          BY <1>t DEF JobShape, JobSet
        <5>2. \/ job' = [job EXCEPT ![a] = [job[a] EXCEPT !.pc = "due"]]
              \/ job' = [job EXCEPT ![a] = IdleJob]
          BY <1>t, <4>3 DEF JobDue, JobShape
        <5> QED BY <4>2, <5>1, <5>2
      <4>4. CASE JobFail(a)
        BY <4>2, <4>4 DEF JobFail
      <4> QED BY <1>1, <4>1, <4>3, <4>4
    <3> QED BY <1>t, <1>1, <3>1 DEF JobFire, JobDue, JobFail, runNow, JobShape
  <2> QED BY <2>1 DEF Early
<1>2. CASE RunCreate(a)
  <2>1. /\ \A b \in Instances : b # a => job'[b] = job[b]
        /\ job[a].run \in Runs
        /\ job'[a].pc # "idle" => runs[job[a].run] = "absent" /\ job'[a].run = job[a].run
        /\ \A r \in Runs : runs'[r] = "absent" => runs[r] = "absent"
    BY <1>t, <1>2 DEF RunCreate, IdleJob, JobShape, JobSet, RunShape
  <2> QED BY <2>1 DEF Early
<1>3. CASE RunResolve(a) \/ RunRecord(a) \/ RunMark(a) \/ RunFail(a)
  <2>1. /\ \A b \in Instances : b # a => job'[b] = job[b]
        /\ job'[a].pc \in {"resolve", "campaign", "targets"} =>
             job[a].pc = "resolve" /\ job'[a].run = job[a].run
    BY <1>t, <1>3 DEF RunResolve, RunRecord, RunMark, RunFail, IdleJob, JobShape, JobSet
  <2>2. job[a].pc \in Creating /\ job[a].run \in Runs
    BY <1>t, <1>3 DEF RunResolve, RunRecord, RunMark, RunFail, JobShape, Creating
  <2>3. \A r \in Runs : runs'[r] = "absent" => runs[r] = "absent"
    BY <1>t, <1>3, <2>2 DEF RunResolve, RunRecord, RunMark, RunFail, RunShape, OneJob
  <2> QED BY <2>1, <2>3 DEF Early
<1>4. CASE CampaignCreate(a) \/ TargetsCreate(a)
  <2>1. /\ runs' = runs /\ \A b \in Instances : b # a => job'[b] = job[b]
        /\ job'[a].run = job[a].run /\ job[a].pc \in {"campaign", "targets"}
    BY <1>t, <1>4 DEF CampaignCreate, TargetsCreate, JobShape, JobSet
  <2> QED BY <2>1 DEF Early
<1> QED BY <1>1, <1>2, <1>3, <1>4 DEF RunStep

\* What only the job of an instance does.
LEMMA JobReport ==
  ASSUME Inv, Report, NEW a \in Instances,
         JobFire(a) \/ JobDue(a) \/ RunStep(a) \/ JobFail(a) \/ RunFail(a) \/ (\E r \in Manuals : runNow(a, r))
  PROVE  Report'
<1>t. /\ JobShape /\ RunShape /\ DispatchShape /\ NotBegun /\ OneJob
      /\ ReportShape /\ \A r \in Runs : HonestRun(r) /\ CountRun(r)
  BY DEF Inv, Shape, Report
<1>f. faults' \in 0..MaxFaults
  <2>1. faults' = faults \/ Fault("db")
    BY DEF JobFire, JobDue, RunStep, RunCreate, RunResolve, CampaignCreate, TargetsCreate, RunRecord, RunMark,
           JobFail, RunFail, runNow
  <2> QED BY <1>t, <2>1, FaultType DEF ReportShape
<1>1. CASE UNCHANGED sending
  <2>1. \A r \in Runs : Early(r)' => Early(r)
    BY JobEarly
  <2>2. \A r \in Runs : HonestRun(r)' /\ CountRun(r)'
    BY <1>t, <1>1, <2>1, RunFrame DEF sending
  <2> QED BY <1>t, <1>f, <1>1, <2>2 DEF Report, ReportShape, sending
<1>2. CASE CampaignCreate(a)
  <2>1. PICK r \in Runs : r = job[a].run /\ job[a].pc = "campaign"
    BY <1>t, <1>2 DEF CampaignCreate, JobShape
  <2>2. /\ campaign' = [campaign EXCEPT ![r] = "pending"]
        /\ UNCHANGED <<runs, target, dispatch, hand, delivered>>
        /\ job'[a].run = r /\ \A b \in Instances : b # a => job'[b] = job[b]
    BY <1>t, <1>2, <2>1 DEF CampaignCreate, JobShape, JobSet
  <2>3. \A s \in Runs : Early(s)' => Early(s)
    BY <2>1, <2>2 DEF Early
  <2>4. \A s \in Runs : s # r => HonestRun(s)' /\ CountRun(s)'
    BY <1>t, <2>1, <2>2, <2>3, RunFrame DEF ReportShape
  <2>5. campaign'[r] = "pending" /\ ReportShape'
    BY <1>t, <1>f, <2>1, <2>2 DEF ReportShape, CampaignStatus
  <2>6. InFlight(r)' = InFlight(r)
    BY <2>2 DEF InFlight
  <2>7. HonestRun(r)' /\ CountRun(r)'
    BY <1>t, <2>1, <2>2, <2>5, <2>6 DEF HonestRun, CountRun
  <2> QED BY <2>4, <2>5, <2>7 DEF Report
<1>3. CASE TargetsCreate(a)
  <2>1. PICK r \in Runs : r = job[a].run /\ job[a].pc = "targets"
    BY <1>t, <1>3 DEF TargetsCreate, JobShape
  <2>c. PICK chats : chats = job[a].chats
    OBVIOUS
  <2>g. PICK t : t = [c \in Chats |-> IF c \in chats THEN "queued" ELSE target[r][c]]
    OBVIOUS
  <2>d. PICK d : d = [NoDispatch EXCEPT !.pc = "begun", !.by = a]
    OBVIOUS
  <2>2. /\ target' = [target EXCEPT ![r] = t] /\ dispatch' = [dispatch EXCEPT ![r] = d]
        /\ UNCHANGED <<runs, campaign, hand, delivered>>
        /\ job'[a].run = r /\ \A b \in Instances : b # a => job'[b] = job[b]
    BY <1>t, <1>3, <2>1, <2>c, <2>g, <2>d DEF TargetsCreate, JobShape, JobSet
  <2>3. \A s \in Runs : Early(s)' => Early(s)
    BY <2>1, <2>2 DEF Early
  <2>4. d.pc = "begun" /\ d.todo = {} /\ d.live = 0
    BY <2>d DEF NoDispatch
  <2>5. t \in [Chats -> TargetStatus] /\ \A c \in Chats : t[c] # "sent" \/ t[c] = target[r][c]
    BY <1>t, <2>1, <2>g DEF ReportShape, TargetStatus
  <2>6. Early(r) /\ Untouched(r)
    BY <1>t, <2>1 DEF Early, NotBegun
  <2>7. \A s \in Runs : s # r => HonestRun(s)' /\ CountRun(s)'
    BY <1>t, <2>1, <2>2, <2>3, RunFrame DEF ReportShape, DispatchShape
  <2>8. ReportShape' /\ target'[r] = t /\ dispatch'[r] = d
    BY <1>t, <1>f, <2>1, <2>2, <2>5 DEF ReportShape, DispatchShape
  <2>9. InFlight(r)' = {}
    BY <2>2, <2>6 DEF InFlight, Untouched
  <2>10. CountRun(r)'
    BY <2>4, <2>8, <2>9, FS_EmptySet, BoundsAssumption DEF CountRun
  <2>11. HonestRun(r)'
    BY <1>t, <2>1, <2>2, <2>4, <2>5, <2>6, <2>8 DEF HonestRun, Untouched
  <2> QED BY <2>7, <2>8, <2>10, <2>11 DEF Report
<1> QED BY <1>1, <1>2, <1>3
     DEF JobFire, JobDue, RunStep, RunCreate, RunResolve, RunRecord, RunMark, JobFail, RunFail, runNow

\* A step of the dispatch of a run, which began after its job was done with it.
LEMMA DispatchReportFrame ==
  ASSUME Inv, Report, NEW r \in Runs, dispatch[r].pc # "none", UNCHANGED <<job, runs>>, ReportShape',
         \A s \in Runs : s # r => /\ campaign'[s] = campaign[s] /\ target'[s] = target[s] /\ dispatch'[s] = dispatch[s]
                                  /\ hand'[s] = hand[s] /\ delivered'[s] = delivered[s],
         ~Early(r)' => HonestRun(r)' /\ CountRun(r)'
  PROVE  Report'
<1>1. \A s \in Runs : Early(s)' = Early(s)
  BY DEF Early
<1>2. ~Early(r)
  BY DEF Early, Inv, NotBegun
<1>3. \A s \in Runs : s # r => HonestRun(s)' /\ CountRun(s)'
  BY <1>1, RunFrame DEF Report
<1> QED BY <1>1, <1>2, <1>3 DEF Report

LEMMA DispatchReport ==
  ASSUME Inv, Report, NEW r \in Runs, DispatchStep(r) \/ DispatchError(r)
  PROVE  Report'
<1>t. /\ DispatchShape /\ SendShape /\ NotBegun /\ ReportShape /\ HonestRun(r) /\ CountRun(r)
  BY DEF Inv, Shape, Report
<1>f. faults' \in 0..MaxFaults
  <2>1. faults' = faults \/ \E kind \in {"db", "telegram", "crash"} : Fault(kind)
    BY DEF DispatchStep, DispatchStart, DispatchRead, DispatchEnd, DispatchFailed, DispatchError
  <2> QED BY <1>t, <2>1, FaultType DEF ReportShape
<1>1. CASE DispatchStart(r) \/ DispatchEnd(r) \/ DispatchFailed(r) \/ DispatchError(r)
  <2>1. PICK pc \in {"read", "over", "failed", "broken"}, status \in CampaignStatus :
          /\ dispatch' = [dispatch EXCEPT ![r].pc = pc]
          /\ campaign' = [campaign EXCEPT ![r] = status]
          /\ UNCHANGED <<job, runs, target, hand, delivered>> /\ dispatch[r].pc # "none"
          /\ \/ pc = "read" /\ status = "running"
             \/ pc = "over" /\ status = StatusOf(r) /\ SendersDone(r)
             \/ pc = "failed" /\ status = "failed"
             \/ pc = "broken" /\ status = campaign[r] /\ (dispatch[r].pc \in {"begun", "read", "sending"})
    <3>1. CASE DispatchStart(r)
      <4>1. "running" \in CampaignStatus
        BY DEF CampaignStatus
      <4> QED BY <3>1, <4>1 DEF DispatchStart
    <3>2. CASE DispatchEnd(r)
      <4>1. StatusOf(r) \in CampaignStatus
        BY DEF StatusOf, CampaignStatus
      <4> QED BY <3>2, <4>1 DEF DispatchEnd, SendersDone
    <3>3. CASE DispatchFailed(r)
      <4>1. "failed" \in CampaignStatus
        BY DEF CampaignStatus
      <4> QED BY <3>3, <4>1 DEF DispatchFailed
    <3>4. CASE DispatchError(r)
      <4>1. campaign[r] \in CampaignStatus /\ campaign = [campaign EXCEPT ![r] = campaign[r]]
        BY <1>t DEF ReportShape
      <4> QED BY <3>4, <4>1 DEF DispatchError, SendersDone
    <3> QED BY <1>1, <3>1, <3>2, <3>3, <3>4
  <2>2. /\ dispatch'[r].pc = pc /\ dispatch'[r].todo = dispatch[r].todo /\ dispatch'[r].live = dispatch[r].live
        /\ campaign'[r] = status
        /\ \A s \in Runs : s # r => dispatch'[s] = dispatch[s] /\ campaign'[s] = campaign[s]
    BY <1>t, <2>1 DEF DispatchShape, DispatchSet, ReportShape
  <2>3. ReportShape'
    BY <1>t, <1>f, <2>1 DEF ReportShape
  <2>4. CountRun(r)'
    <3>1. InFlight(r)' = InFlight(r)
      BY <2>1 DEF InFlight
    <3> QED BY <1>t, <2>1, <2>2, <3>1 DEF CountRun
  <2>5. ~Early(r)' => HonestRun(r)'
    <3> SUFFICES ASSUME ~Early(r)' PROVE HonestRun(r)'
      OBVIOUS
    <3>1. CASE pc = "over"
      <4>1. \A c \in Chats : hand[r][c] = "idle"
        BY <2>1, <3>1 DEF SendersDone, InFlight
      <4>2. status = "completed" => \A c \in Chats : target[r][c] \in {"none", "sent"}
        BY <1>t, <2>1, <3>1 DEF StatusOf, Having, ReportShape, TargetStatus
      <4>3. status = "partial_failed" =>
              (\E c \in Chats : target[r][c] = "sent") /\ (\E c \in Chats : target[r][c] = "failed")
        BY <2>1, <3>1 DEF StatusOf, Having
      <4> QED BY <1>t, <2>1, <2>2, <3>1, <4>1, <4>2, <4>3 DEF HonestRun
    <3>2. CASE pc # "over"
      <4>1. status \notin {"completed", "partial_failed"}
        BY <1>t, <2>1, <3>2 DEF HonestRun
      <4> QED BY <1>t, <2>1, <2>2, <3>2, <4>1 DEF HonestRun
    <3> QED BY <3>1, <3>2
  <2> QED BY <2>1, <2>2, <2>3, <2>4, <2>5, DispatchReportFrame
<1>2. CASE DispatchRead(r)
  <2>1. PICK d : /\ d = [dispatch[r] EXCEPT !.todo = {c \in Chats : target[r][c] = "queued"}, !.live = Senders, !.pc = "sending"]
                 /\ dispatch' = [dispatch EXCEPT ![r] = d]
                 /\ UNCHANGED <<job, runs, campaign, target, hand, delivered>> /\ dispatch[r].pc = "read"
    BY <1>t, <1>2 DEF DispatchRead, DispatchShape
  <2>2. d.pc = "sending" /\ d.live = Senders /\ d.todo = {c \in Chats : target[r][c] = "queued"}
    BY <1>t, <2>1 DEF DispatchShape, DispatchSet
  <2>3. dispatch'[r] = d /\ \A s \in Runs : s # r => dispatch'[s] = dispatch[s]
    BY <1>t, <2>1 DEF DispatchShape
  <2>4. ReportShape'
    BY <1>t, <1>f, <2>1 DEF ReportShape
  <2>5. CountRun(r)'
    <3>1. InFlight(r)' = {}
      BY <1>t, <2>1 DEF InFlight, NotBegun, Untouched
    <3>2. Senders \in 0..Senders /\ 0 <= Senders
      BY BoundsAssumption
    <3> QED BY <2>1, <2>2, <2>3, <3>1, <3>2, FS_EmptySet DEF CountRun
  <2>6. HonestRun(r)' \/ Early(r)'
    BY <1>t, <2>1, <2>2, <2>3 DEF HonestRun
  <2> QED BY <2>1, <2>3, <2>4, <2>5, <2>6, DispatchReportFrame
<1> QED BY <1>1, <1>2 DEF DispatchStep

\* The messages in flight, as one of them is begun, answered or recorded.
LEMMA FlightOne ==
  ASSUME NEW r \in Runs, NEW c \in Chats, \A d \in Chats : d # c => hand'[r][d] = hand[r][d]
  PROVE  /\ Cardinality(InFlight(r)) \in Nat
         /\ (hand[r][c] = "idle" <=> hand'[r][c] = "idle") => Cardinality(InFlight(r)') = Cardinality(InFlight(r))
         /\ hand[r][c] = "idle" /\ hand'[r][c] # "idle" => Cardinality(InFlight(r)') = Cardinality(InFlight(r)) + 1
         /\ hand[r][c] # "idle" /\ hand'[r][c] = "idle" => Cardinality(InFlight(r)') = Cardinality(InFlight(r)) - 1
<1>1. IsFiniteSet(InFlight(r)) /\ Cardinality(InFlight(r)) \in Nat
  BY FlightFinite
<1>2. CASE hand[r][c] = "idle" <=> hand'[r][c] = "idle"
  <2>1. InFlight(r)' = InFlight(r)
    BY <1>2 DEF InFlight
  <2> QED BY <1>1, <1>2, <2>1
<1>3. CASE hand[r][c] = "idle" /\ hand'[r][c] # "idle"
  <2>1. InFlight(r)' = InFlight(r) \cup {c} /\ c \notin InFlight(r)
    BY <1>3 DEF InFlight
  <2> QED BY <1>1, <1>3, <2>1, FS_AddElement
<1>4. CASE hand[r][c] # "idle" /\ hand'[r][c] = "idle"
  <2>1. InFlight(r)' = InFlight(r) \ {c} /\ c \in InFlight(r)
    BY <1>4 DEF InFlight
  <2> QED BY <1>1, <1>4, <2>1, FS_RemoveElement
<1> QED BY <1>2, <1>3, <1>4

Sending == {"sending", "broken", "failed"}

\* What a sender does with one target of a dispatch.
LEMMA DeliverFrame ==
  ASSUME Inv, Report, NEW r \in Runs, NEW c \in Chats, UNCHANGED <<job, runs, campaign>>, ReportShape',
         dispatch[r].pc \in Sending, dispatch'[r].pc \in Sending,
         \A s \in Runs : s # r => /\ target'[s] = target[s] /\ dispatch'[s] = dispatch[s]
                                  /\ hand'[s] = hand[s] /\ delivered'[s] = delivered[s],
         \A d \in Chats : d # c => /\ target'[r][d] = target[r][d] /\ hand'[r][d] = hand[r][d]
                                   /\ delivered'[r][d] = delivered[r][d],
         target'[r][c] = "sent" \/ hand'[r][c] = "ok" => delivered'[r][c] = 1,
         dispatch'[r].todo \subseteq dispatch[r].todo, c \notin dispatch'[r].todo,
         dispatch'[r].live \in 0..Senders, Cardinality(InFlight(r)') <= dispatch'[r].live
  PROVE  Report'
<1>t. DispatchShape /\ HonestRun(r) /\ CountRun(r)
  BY DEF Inv, Shape, Report
<1>1. \A d \in dispatch'[r].todo : target'[r][d] = "queued"
  <2>1. \A d \in dispatch[r].todo : d \in Chats /\ target[r][d] = "queued"
    BY <1>t DEF DispatchShape, DispatchSet, CountRun
  <2> QED BY <2>1
<1>2. CountRun(r)'
  BY <1>1 DEF CountRun
<1>3. ~Early(r)' => HonestRun(r)'
  BY <1>t DEF HonestRun, Sending
<1>4. dispatch[r].pc # "none"
  BY DEF Sending
<1> QED BY <1>2, <1>3, <1>4, DispatchReportFrame

LEMMA DeliverReport ==
  ASSUME Inv, Report, NEW r \in Runs, NEW c \in Chats, DeliverStep(r, c) \/ FaultStep(r, c)
  PROVE  Report'
<1>t. /\ DispatchShape /\ SendShape /\ NotBegun /\ UnsentTo(r, c)
      /\ ReportShape /\ HonestRun(r) /\ CountRun(r)
  BY DEF Inv, Shape, Report, Unsent
<1>f. faults' \in 0..MaxFaults
  <2>1. faults' = faults \/ \E kind \in {"db", "telegram", "crash"} : Fault(kind)
    BY DEF DeliverStep, FaultStep, DeliverBegin, DeliverSend, DeliverRecord, DeliverBeginFail, DeliverSendFail,
           DeliverSentFail, DeliverFailedFail
  <2> QED BY <1>t, <2>1, FaultType DEF ReportShape
<1>l. Senders \in Nat /\ dispatch[r].live \in 0..Senders /\ Cardinality(InFlight(r)) <= dispatch[r].live
  BY <1>t, BoundsAssumption DEF CountRun
<1>h. hand[r][c] # "idle" => dispatch[r].pc \in Sending /\ c \notin dispatch[r].todo
  BY <1>t DEF DispatchShape, DispatchSet, DispatchPCs, NotBegun, Untouched, HonestRun, UnsentTo, Sending
<1>1. CASE DeliverBegin(r, c)
  <2>1. /\ UNCHANGED <<job, runs, campaign, delivered>> /\ dispatch[r].pc \in Sending
        /\ hand[r][c] = "idle" /\ Cardinality(InFlight(r)) < dispatch[r].live
    BY <1>t, <1>1 DEF DeliverBegin, SenderFree, Sending, UnsentTo
  <2>2. /\ target' = [target EXCEPT ![r][c] = "sending"] /\ hand' = [hand EXCEPT ![r][c] = "begun"]
        /\ dispatch' = [dispatch EXCEPT ![r].todo = @ \ {c}]
    BY <1>1 DEF DeliverBegin
  <2>3. /\ target'[r][c] = "sending" /\ hand'[r][c] = "begun"
        /\ \A d \in Chats : d # c => target'[r][d] = target[r][d] /\ hand'[r][d] = hand[r][d]
        /\ \A s \in Runs : s # r => target'[s] = target[s] /\ hand'[s] = hand[s] /\ dispatch'[s] = dispatch[s]
    BY <1>t, <2>2 DEF ReportShape, SendShape, DispatchShape
  <2>4. /\ dispatch'[r].pc = dispatch[r].pc /\ dispatch'[r].live = dispatch[r].live
        /\ dispatch'[r].todo = dispatch[r].todo \ {c}
    BY <1>t, <2>2 DEF DispatchShape, DispatchSet
  <2>5. ReportShape'
    BY <1>t, <1>f, <2>1, <2>2 DEF ReportShape, TargetStatus
  <2>6. Cardinality(InFlight(r)') <= dispatch'[r].live
    BY <1>l, <2>1, <2>3, <2>4, FlightOne
  <2> QED BY <1>l, <2>1, <2>3, <2>4, <2>5, <2>6, DeliverFrame
<1>2. CASE DeliverBeginFail(r, c)
  <2>1. /\ UNCHANGED <<job, runs, campaign, target, hand, delivered>> /\ dispatch[r].pc \in Sending
        /\ hand[r][c] = "idle" /\ Cardinality(InFlight(r)) < dispatch[r].live /\ target[r][c] = "queued"
    BY <1>t, <1>2 DEF DeliverBeginFail, SenderFree, Sending, UnsentTo, CountRun
  <2>2. dispatch' = [dispatch EXCEPT ![r].todo = @ \ {c}, ![r].live = @ - 1, ![r].pc = Broken(@)]
    BY <1>2 DEF DeliverBeginFail
  <2>3. /\ dispatch'[r].pc = Broken(dispatch[r].pc) /\ dispatch'[r].live = dispatch[r].live - 1
        /\ dispatch'[r].todo = dispatch[r].todo \ {c}
        /\ \A s \in Runs : s # r => dispatch'[s] = dispatch[s]
    BY <1>t, <2>2 DEF DispatchShape, DispatchSet
  <2>4. dispatch'[r].pc \in Sending
    BY <2>1, <2>3 DEF Broken, Sending
  <2>5. ReportShape'
    BY <1>t, <1>f, <2>1 DEF ReportShape
  <2>6. Cardinality(InFlight(r)') <= dispatch'[r].live /\ dispatch'[r].live \in 0..Senders
    BY <1>l, <2>1, <2>3, FlightOne
  <2> QED BY <2>1, <2>3, <2>4, <2>5, <2>6, DeliverFrame
<1>3. CASE DeliverSend(r, c) \/ DeliverSendFail(r, c)
  <2>1. PICK answer \in {"ok", "error"}, n \in {0, 1} : Telegram(r, c, answer, n) /\ (answer = "ok" => n = 1)
    BY <1>3 DEF DeliverSend, DeliverSendFail
  <2>2. /\ UNCHANGED <<job, runs, campaign, target, dispatch>> /\ hand[r][c] = "begun" /\ delivered[r][c] = 0
        /\ hand' = [hand EXCEPT ![r][c] = answer] /\ delivered' = [delivered EXCEPT ![r][c] = @ + n]
    BY <1>t, <2>1 DEF Telegram, UnsentTo
  <2>3. /\ hand'[r][c] = answer /\ delivered'[r][c] = n
        /\ \A d \in Chats : d # c => hand'[r][d] = hand[r][d] /\ delivered'[r][d] = delivered[r][d]
        /\ \A s \in Runs : s # r => hand'[s] = hand[s] /\ delivered'[s] = delivered[s]
    BY <1>t, <2>2 DEF SendShape
  <2>4. target[r][c] # "sent"
    BY <1>t, <2>2 DEF HonestRun
  <2>5. ReportShape'
    BY <1>t, <1>f, <2>2 DEF ReportShape
  <2>6. Cardinality(InFlight(r)') <= dispatch'[r].live
    BY <1>l, <2>1, <2>2, <2>3, FlightOne
  <2> QED BY <1>l, <1>h, <2>1, <2>2, <2>3, <2>4, <2>5, <2>6, DeliverFrame
<1>4. CASE DeliverRecord(r, c)
  <2>1. PICK status \in {"sent", "failed"} :
          /\ target' = [target EXCEPT ![r][c] = status] /\ hand' = [hand EXCEPT ![r][c] = "idle"]
          /\ status = "sent" => hand[r][c] = "ok"
          /\ UNCHANGED <<job, runs, campaign, dispatch, delivered>> /\ hand[r][c] # "idle"
    BY <1>4 DEF DeliverRecord
  <2>2. /\ target'[r][c] = status /\ hand'[r][c] = "idle"
        /\ \A d \in Chats : d # c => target'[r][d] = target[r][d] /\ hand'[r][d] = hand[r][d]
        /\ \A s \in Runs : s # r => target'[s] = target[s] /\ hand'[s] = hand[s]
    BY <1>t, <2>1 DEF ReportShape, SendShape
  <2>3. status = "sent" => delivered[r][c] = 1
    BY <1>t, <2>1 DEF HonestRun
  <2>4. ReportShape'
    BY <1>t, <1>f, <2>1 DEF ReportShape, TargetStatus
  <2>5. Cardinality(InFlight(r)') <= dispatch'[r].live
    BY <1>l, <2>1, <2>2, FlightOne
  <2> QED BY <1>l, <1>h, <2>1, <2>2, <2>3, <2>4, <2>5, DeliverFrame
<1>5. CASE DeliverSentFail(r, c)
  <2>1. /\ UNCHANGED <<job, runs, campaign, target, dispatch, delivered>> /\ hand[r][c] = "ok"
        /\ hand' = [hand EXCEPT ![r][c] = "error"]
    BY <1>5 DEF DeliverSentFail
  <2>2. /\ hand'[r][c] = "error" /\ \A d \in Chats : d # c => hand'[r][d] = hand[r][d]
        /\ \A s \in Runs : s # r => hand'[s] = hand[s]
    BY <1>t, <2>1 DEF SendShape
  <2>3. target[r][c] = "sent" => delivered[r][c] = 1
    BY <1>t DEF HonestRun
  <2>4. ReportShape'
    BY <1>t, <1>f, <2>1 DEF ReportShape
  <2>5. Cardinality(InFlight(r)') <= dispatch'[r].live
    BY <1>l, <2>1, <2>2, FlightOne
  <2> QED BY <1>l, <1>h, <2>1, <2>2, <2>3, <2>4, <2>5, DeliverFrame
<1>6. CASE DeliverFailedFail(r, c)
  <2>1. /\ UNCHANGED <<job, runs, campaign, target, delivered>> /\ hand[r][c] = "error"
        /\ hand' = [hand EXCEPT ![r][c] = "idle"]
        /\ dispatch' = [dispatch EXCEPT ![r].live = @ - 1, ![r].pc = Broken(@)]
    BY <1>6 DEF DeliverFailedFail
  <2>2. /\ hand'[r][c] = "idle" /\ \A d \in Chats : d # c => hand'[r][d] = hand[r][d]
        /\ \A s \in Runs : s # r => hand'[s] = hand[s] /\ dispatch'[s] = dispatch[s]
    BY <1>t, <2>1 DEF SendShape, DispatchShape
  <2>3. /\ dispatch'[r].pc = Broken(dispatch[r].pc) /\ dispatch'[r].live = dispatch[r].live - 1
        /\ dispatch'[r].todo = dispatch[r].todo
    BY <1>t, <2>1 DEF DispatchShape, DispatchSet
  <2>4. dispatch'[r].pc \in Sending
    BY <1>h, <2>1, <2>3 DEF Broken, Sending
  <2>5. target[r][c] = "sent" => delivered[r][c] = 1
    BY <1>t DEF HonestRun
  <2>6. ReportShape'
    BY <1>t, <1>f, <2>1 DEF ReportShape
  <2>7. Cardinality(InFlight(r)') <= dispatch'[r].live /\ dispatch'[r].live \in 0..Senders
    <3>1. Cardinality(InFlight(r)') = Cardinality(InFlight(r)) - 1 /\ Cardinality(InFlight(r)) \in Nat
      BY <2>1, <2>2, FlightOne
    <3>2. Cardinality(InFlight(r)') \in Nat
      <4>1. InFlight(r)' = InFlight(r) \ {c}
        BY <2>2 DEF InFlight
      <4> QED BY <4>1, FlightFinite, FS_RemoveElement, FS_CardinalityType
    <3> QED BY <1>l, <2>3, <3>1, <3>2
  <2> QED BY <1>h, <2>1, <2>2, <2>3, <2>4, <2>5, <2>6, <2>7, DeliverFrame
<1> QED BY <1>1, <1>2, <1>3, <1>4, <1>5, <1>6 DEF DeliverStep, FaultStep

LEMMA CrashReport ==
  ASSUME Inv, Report, NEW a \in Instances, Crash(a)
  PROVE  Report'
<1>t. /\ JobShape /\ DispatchShape /\ ReportShape /\ \A r \in Runs : HonestRun(r) /\ CountRun(r)
  BY DEF Inv, Shape, Report
<1>1. /\ UNCHANGED <<runs, campaign, target, delivered>> /\ job'[a] = IdleJob
      /\ \A b \in Instances : b # a => job'[b] = job[b]
      /\ \A r \in Runs : dispatch[r].by = a => dispatch'[r] = NoDispatch /\ hand'[r] = [c \in Chats |-> "idle"]
      /\ \A r \in Runs : dispatch[r].by # a => dispatch'[r] = dispatch[r] /\ hand'[r] = hand[r]
  BY <1>t DEF Crash, JobShape
<1>2. \A r \in Runs : Early(r)' => Early(r)
  BY <1>1 DEF Early, IdleJob
<1>3. ReportShape'
  <2>1. faults' \in 0..MaxFaults
    BY <1>t, FaultType DEF Crash, ReportShape
  <2> QED BY <1>t, <1>1, <2>1 DEF ReportShape
<1>4. ASSUME NEW r \in Runs PROVE HonestRun(r)' /\ CountRun(r)'
  <2>1. CASE dispatch[r].by = a
    <3>1. dispatch'[r].pc = "none" /\ dispatch'[r].todo = {} /\ dispatch'[r].live = 0
      BY <1>1, <2>1 DEF NoDispatch
    <3>2. InFlight(r)' = {} /\ \A c \in Chats : hand'[r][c] = "idle"
      BY <1>1, <2>1 DEF InFlight
    <3>3. 0 \in 0..Senders
      BY BoundsAssumption
    <3>4. CountRun(r)'
      BY <3>1, <3>2, <3>3, FS_EmptySet DEF CountRun
    <3>5. HonestRun(r)'
      BY <1>t, <1>1, <1>2, <3>1, <3>2 DEF HonestRun
    <3> QED BY <3>4, <3>5
  <2>2. CASE dispatch[r].by # a
    BY <1>t, <1>1, <1>2, <2>2, RunFrame
  <2> QED BY <2>1, <2>2
<1> QED BY <1>3, <1>4 DEF Report

LEMMA NextReport == Inv /\ Report /\ [Next]_vars => Report'
<1> SUFFICES ASSUME Inv, Report, [Next]_vars PROVE Report'
  OBVIOUS
<1>1. CASE UNCHANGED vars
  <2>1. \A r \in Runs : HonestRun(r)' /\ CountRun(r)'
    BY <1>1, RunFrame DEF Report, Early, vars
  <2> QED BY <1>1, <2>1 DEF Report, ReportShape, vars
<1>2. CASE Next
  BY <1>2, JobReport, CrashReport, DispatchReport, DeliverReport DEF Next
<1> QED BY <1>1, <1>2

\* A campaign is reported completed only when every target's message was delivered,
\* partial_failed only when some were and some are recorded as failed, although
\* queries fail and processes die while several senders work (refreshCampaignStatus
\* waits for runWithConcurrency; deliverTarget records a sent only after the answer).
THEOREM ReportIsHonest == Spec => []HonestReport
<1>1. Report => HonestReport
  BY DEF Report, HonestRun, HonestReport
<1> QED BY <1>1, InitInv, NextInv, InitReport, NextReport, PTL DEF Spec

\* The types; and what is still to be sent to is recorded as queued, and no more
\* messages are in flight than the dispatch has senders.
THEOREM Types == Spec => []TypeOK
<1>1. Inv /\ Report => TypeOK
  <2> SUFFICES ASSUME Inv, Report PROVE TypeOK
    OBVIOUS
  <2>1. job \in [Instances -> [pc : {"idle", "fired", "due", "resolve", "none", "campaign", "targets", "queued", "mark"},
                               run : Runs \cup {NoRun}, chats : SUBSET Chats]]
    <3>1. {"idle", "fired", "due"} \cup Creating =
            {"idle", "fired", "due", "resolve", "none", "campaign", "targets", "queued", "mark"}
      BY DEF Creating
    <3> QED BY <3>1 DEF Inv, Shape, JobShape, JobSet
  <2>2. dispatch \in [Runs -> [pc : DispatchPCs, by : Instances \cup {NoInstance}, todo : SUBSET Chats, live : 0..Senders]]
    BY DEF Inv, Shape, DispatchShape, DispatchSet, Report, CountRun
  <2> QED BY <2>1, <2>2 DEF TypeOK, Inv, Shape, RunShape, SendShape, Report, ReportShape, CampaignStatus, TargetStatus,
                            CountRun, DispatchPCs
<1> QED BY <1>1, InitInv, NextInv, InitReport, NextReport, PTL DEF Spec
----------------------------------------------------------------------------
(* The promise.  Between the rows and the senders: a run that is dispatched  *)
(* has targets, its campaign stays open while the dispatch can still end in  *)
(* a final status, and what is in flight is for a target.                    *)

ToldRun(r) ==
  /\ Early(r) => Wanted(r) = {}
  /\ dispatch[r].pc # "none" => Wanted(r) # {}
  /\ dispatch[r].pc \in {"begun", "read", "sending", "broken"} => Outcome(campaign[r]) = "open"
  /\ \A c \in Chats : hand[r][c] # "idle" => c \in Wanted(r)

ChatsAtHand == \A a \in Instances : job[a].pc = "targets" => job[a].chats # {}

Told == ChatsAtHand /\ \A r \in Runs : ToldRun(r)

Kept(r) == Promise!Stay(r) \/ Promise!Choose(r) \/ Promise!Deliver(r) \/ Promise!Report(r)

LEMMA InitTold == Init => Told /\ Promise!Init
<1> SUFFICES ASSUME Init PROVE Told /\ Promise!Init
  OBVIOUS
<1>1. \A r \in Runs : Wanted(r) = {} /\ Outcome(campaign[r]) = "open"
  BY DEF Init, Wanted, Outcome
<1>2. Told
  BY <1>1 DEF Init, Told, ToldRun, ChatsAtHand, NoDispatch, IdleJob
<1>3. Promise!Init
  BY <1>1 DEF Init, Promise!Init
<1> QED BY <1>2, <1>3

\* A step the promise does not see.
LEMMA Unseen ==
  ASSUME NEW r \in Runs, target'[r] = target[r], delivered'[r] = delivered[r],
         Outcome(campaign[r])' = Outcome(campaign[r])
  PROVE  Wanted(r)' = Wanted(r) /\ Kept(r)
<1>1. Wanted(r)' = Wanted(r)
  BY DEF Wanted
<1>2. Promise!Stay(r)
  BY <1>1 DEF Promise!Stay
<1> QED BY <1>1, <1>2 DEF Kept

\* A run that a step leaves alone.
LEMMA ToldFrame ==
  ASSUME NEW r \in Runs, ToldRun(r),
         campaign'[r] = campaign[r], target'[r] = target[r], dispatch'[r] = dispatch[r],
         hand'[r] = hand[r], delivered'[r] = delivered[r], Early(r)' => Early(r)
  PROVE  ToldRun(r)' /\ Kept(r)
<1>1. Outcome(campaign[r])' = Outcome(campaign[r])
  BY DEF Outcome
<1> QED BY <1>1, Unseen DEF ToldRun

\* createCampaign chose the chats before their targets are made.
LEMMA ChatsChosen ==
  ASSUME Inv, ChatsAtHand, NEW a \in Instances,
         JobFire(a) \/ JobDue(a) \/ RunStep(a) \/ JobFail(a) \/ RunFail(a) \/ (\E r \in Manuals : runNow(a, r))
  PROVE  ChatsAtHand'
<1>t. JobShape
  BY DEF Inv, Shape
<1>1. \A b \in Instances : b # a => job'[b] = job[b]
  BY <1>t DEF JobFire, JobDue, RunStep, RunCreate, RunResolve, CampaignCreate, TargetsCreate, RunRecord, RunMark,
              JobFail, RunFail, runNow, JobShape
<1>2. CASE CampaignCreate(a)
  <2>1. PICK chats \in (SUBSET job[a].chats) \ {{}} :
          job' = [job EXCEPT ![a].pc = "targets", ![a].chats = chats]
    BY <1>2 DEF CampaignCreate
  <2>2. job'[a].chats = chats
    BY <1>t, <2>1 DEF JobShape, JobSet
  <2> QED BY <1>1, <2>1, <2>2 DEF ChatsAtHand
<1>3. CASE ~CampaignCreate(a)
  <2>1. job'[a].pc # "targets"
    <3>0. CASE JobFire(a) \/ (\E r \in Manuals : runNow(a, r))
      <4>1. PICK r \in Runs, pc \in {"fired", "due"} : job' = [job EXCEPT ![a] = [IdleJob EXCEPT !.pc = pc, !.run = r]]
        BY <3>0 DEF JobFire, runNow, Runs
      <4>2. [IdleJob EXCEPT !.pc = pc, !.run = r].pc = pc
        BY DEF IdleJob
      <4>3. \E j : job' = [job EXCEPT ![a] = j] /\ j.pc = pc
        BY <4>1, <4>2
      <4> QED BY <1>t, <4>3 DEF JobShape
    <3>1. CASE JobDue(a) \/ RunMark(a) \/ JobFail(a) \/ RunFail(a)
      BY <1>t, <3>1 DEF JobDue, RunMark, JobFail, RunFail, IdleJob, JobShape, JobSet
    <3>2. CASE RunCreate(a) \/ RunResolve(a) \/ TargetsCreate(a) \/ RunRecord(a)
      BY <1>t, <3>2 DEF RunCreate, RunResolve, TargetsCreate, RunRecord, IdleJob, JobShape, JobSet
    <3> QED BY <1>3, <3>0, <3>1, <3>2 DEF RunStep
  <2> QED BY <1>1, <2>1 DEF ChatsAtHand
<1> QED BY <1>2, <1>3

\* What only the job of an instance does: a run chooses its chats or stays as it is.
LEMMA JobKeeps ==
  ASSUME Inv, Report, Told, NEW a \in Instances,
         JobFire(a) \/ JobDue(a) \/ RunStep(a) \/ JobFail(a) \/ RunFail(a) \/ (\E r \in Manuals : runNow(a, r))
  PROVE  Told' /\ \A r \in Runs : Kept(r)
<1>t. /\ JobShape /\ DispatchShape /\ NotBegun /\ ReportShape /\ ChatsAtHand
      /\ \A r \in Runs : HonestRun(r) /\ ToldRun(r)
  BY DEF Inv, Shape, Report, Told
<1>e. \A r \in Runs : Early(r)' => Early(r)
  BY JobEarly
<1>c. ChatsAtHand'
  BY <1>t, ChatsChosen
<1>1. CASE UNCHANGED sending
  <2>1. \A r \in Runs : ToldRun(r)' /\ Kept(r)
    BY <1>t, <1>e, <1>1, ToldFrame DEF sending
  <2> QED BY <1>c, <2>1 DEF Told
<1>2. CASE CampaignCreate(a)
  <2>1. PICK r \in Runs : r = job[a].run /\ job[a].pc = "campaign"
    BY <1>t, <1>2 DEF CampaignCreate, JobShape
  <2>2. campaign' = [campaign EXCEPT ![r] = "pending"] /\ UNCHANGED <<target, dispatch, hand, delivered>>
    BY <1>2, <2>1 DEF CampaignCreate
  <2>3. \A s \in Runs : s # r => campaign'[s] = campaign[s]
    BY <1>t, <2>2 DEF ReportShape
  <2>4. \A s \in Runs : s # r => ToldRun(s)' /\ Kept(s)
    BY <1>t, <1>e, <2>2, <2>3, ToldFrame
  <2>5. campaign[r] \in {"absent", "pending"}
    BY <1>t, <2>1 DEF HonestRun, Early
  <2>6. campaign'[r] = "pending"
    BY <1>t, <2>2 DEF ReportShape
  <2>7. Outcome(campaign[r]) = "open" /\ Outcome(campaign[r])' = "open"
    BY <2>5, <2>6 DEF Outcome
  <2>8. Wanted(r)' = Wanted(r) /\ Kept(r)
    BY <2>2, <2>7, Unseen
  <2>9. ToldRun(r)'
    BY <1>t, <1>e, <2>2, <2>7, <2>8 DEF ToldRun
  <2> QED BY <1>c, <2>4, <2>8, <2>9 DEF Told
<1>3. CASE TargetsCreate(a)
  <2>1. PICK r \in Runs : r = job[a].run /\ job[a].pc = "targets"
    BY <1>t, <1>3 DEF TargetsCreate, JobShape
  <2>c. PICK chats \in SUBSET Chats : chats = job[a].chats /\ chats # {}
    BY <1>t, <2>1 DEF JobShape, JobSet, ChatsAtHand
  <2>g. PICK t : t = [c \in Chats |-> IF c \in chats THEN "queued" ELSE target[r][c]]
    OBVIOUS
  <2>d. PICK d : d = [NoDispatch EXCEPT !.pc = "begun", !.by = a]
    OBVIOUS
  <2>2. /\ target' = [target EXCEPT ![r] = t] /\ dispatch' = [dispatch EXCEPT ![r] = d]
        /\ UNCHANGED <<runs, campaign, hand, delivered>>
        /\ job'[a].pc = "queued" /\ \A b \in Instances : b # a => job'[b] = job[b]
    BY <1>t, <1>3, <2>1, <2>c, <2>g, <2>d DEF TargetsCreate, JobShape, JobSet
  <2>3. target'[r] = t /\ dispatch'[r].pc = "begun"
        /\ \A s \in Runs : s # r => target'[s] = target[s] /\ dispatch'[s] = dispatch[s]
    BY <1>t, <2>2, <2>d DEF ReportShape, DispatchShape, NoDispatch
  <2>4. \A s \in Runs : s # r => ToldRun(s)' /\ Kept(s)
    BY <1>t, <1>e, <2>2, <2>3, ToldFrame
  <2>5. Early(r) /\ Wanted(r) = {} /\ Untouched(r) /\ Outcome(campaign[r]) = "open"
    <3>1. Early(r)
      BY <2>1 DEF Early
    <3>2. Untouched(r)
      BY <1>t, <2>1 DEF NotBegun
    <3> QED BY <1>t, <3>1, <3>2 DEF ToldRun, HonestRun, Outcome
  <2>6. Wanted(r)' = chats
    BY <2>c, <2>g, <2>3, <2>5 DEF Wanted
  <2>7. ~Early(r)'
    BY <2>1, <2>2 DEF Early, Inv, OneJob, Creating
  <2>8. ToldRun(r)'
    BY <2>c, <2>2, <2>3, <2>5, <2>6, <2>7 DEF ToldRun, Untouched
  <2>9. Promise!Choose(r)
    BY <2>c, <2>2, <2>5, <2>6 DEF Promise!Choose
  <2> QED BY <1>c, <2>4, <2>8, <2>9 DEF Told, Kept
<1> QED BY <1>1, <1>2, <1>3
     DEF JobFire, JobDue, RunStep, RunCreate, RunResolve, RunRecord, RunMark, JobFail, RunFail, runNow

\* A step of the dispatch of a run, which has targets.
LEMMA ToldDispatch ==
  ASSUME Inv, Told, NEW r \in Runs, UNCHANGED <<job, runs>>, dispatch[r].pc # "none",
         \A s \in Runs : s # r => /\ campaign'[s] = campaign[s] /\ target'[s] = target[s] /\ dispatch'[s] = dispatch[s]
                                  /\ hand'[s] = hand[s] /\ delivered'[s] = delivered[s],
         Wanted(r)' = Wanted(r), \A c \in Chats : hand'[r][c] # "idle" => c \in Wanted(r),
         dispatch'[r].pc \in {"begun", "read", "sending", "broken"} => Outcome(campaign[r])' = "open",
         Kept(r)
  PROVE  Told' /\ \A s \in Runs : Kept(s)
<1>1. \A s \in Runs : Early(s)' = Early(s)
  BY DEF Early
<1>2. ~Early(r)
  BY DEF Early, Inv, NotBegun
<1>3. \A s \in Runs : s # r => ToldRun(s)' /\ Kept(s)
  BY <1>1, ToldFrame DEF Told
<1>4. ToldRun(r)'
  BY <1>1, <1>2 DEF Told, ToldRun
<1>5. ChatsAtHand'
  BY DEF Told, ChatsAtHand
<1> QED BY <1>3, <1>4, <1>5 DEF Told

\* The dispatch: it reports what it has seen, or stays.
LEMMA DispatchKeeps ==
  ASSUME Inv, Report, Told, NEW r \in Runs, DispatchStep(r) \/ DispatchError(r)
  PROVE  Told' /\ \A s \in Runs : Kept(s)
<1>t. /\ DispatchShape /\ ReportShape /\ HonestRun(r) /\ ToldRun(r)
  BY DEF Inv, Shape, Report, Told
<1>1. /\ dispatch[r].pc \in {"begun", "read", "sending", "broken"}
      /\ UNCHANGED <<job, runs, target, hand, delivered>>
      /\ \A s \in Runs : s # r => dispatch'[s] = dispatch[s] /\ campaign'[s] = campaign[s]
  BY <1>t DEF DispatchStep, DispatchStart, DispatchRead, DispatchEnd, DispatchFailed, DispatchError, SendersDone,
              DispatchShape, ReportShape
<1>2. Wanted(r) # {} /\ Outcome(campaign[r]) = "open"
  BY <1>t, <1>1 DEF ToldRun
<1>3. Wanted(r)' = Wanted(r)
  BY <1>1 DEF Wanted
<1>4. CASE DispatchStart(r) \/ DispatchRead(r) \/ DispatchError(r)
  <2>1. campaign'[r] \in {campaign[r], "running"}
    BY <1>t, <1>4 DEF DispatchStart, DispatchRead, DispatchError, ReportShape
  <2>2. Outcome(campaign[r])' = "open"
    BY <1>2, <2>1 DEF Outcome
  <2>3. Kept(r)
    BY <1>1, <1>2, <2>2, Unseen
  <2> QED BY <1>t, <1>1, <1>3, <2>2, <2>3, ToldDispatch DEF ToldRun
<1>5. CASE DispatchEnd(r)
  <2>1. campaign'[r] = StatusOf(r) /\ dispatch'[r].pc = "over"
    BY <1>t, <1>5 DEF DispatchEnd, ReportShape, DispatchShape, DispatchSet
  <2>2. \A c \in Chats : target[r][c] = "sent" => delivered[r][c] = 1
    BY <1>t DEF HonestRun
  <2>3. Kept(r)
    <3>1. CASE StatusOf(r) = "running"
      <4>1. Outcome(campaign[r])' = "open"
        BY <2>1, <3>1 DEF Outcome
      <4> QED BY <1>1, <1>2, <4>1, Unseen
    <3>2. CASE StatusOf(r) # "running"
      <4>1. Outcome(campaign[r])' = StatusOf(r) /\ StatusOf(r) \in {"completed", "partial_failed", "failed"}
        BY <2>1, <3>2 DEF Outcome, StatusOf
      <4>2. StatusOf(r) = "completed" => \A c \in Wanted(r) : delivered[r][c] = 1
        BY <1>t, <2>2 DEF StatusOf, Having, Wanted, ReportShape, TargetStatus
      <4>3. StatusOf(r) = "partial_failed" => \E c \in Wanted(r) : delivered[r][c] = 1
        BY <2>2 DEF StatusOf, Having, Wanted
      <4>4. Promise!Report(r)
        BY <1>1, <1>2, <1>3, <4>1, <4>2, <4>3 DEF Promise!Report
      <4> QED BY <4>4 DEF Kept
    <3> QED BY <3>1, <3>2
  <2> QED BY <1>t, <1>1, <1>3, <2>1, <2>3, ToldDispatch DEF ToldRun
<1>6. CASE DispatchFailed(r)
  <2>1. campaign'[r] = "failed" /\ dispatch'[r].pc = "failed"
    BY <1>t, <1>6 DEF DispatchFailed, ReportShape, DispatchShape, DispatchSet
  <2>2. Outcome(campaign[r])' = "failed"
    BY <2>1 DEF Outcome
  <2>3. Promise!Report(r)
    BY <1>1, <1>2, <1>3, <2>2 DEF Promise!Report
  <2> QED BY <1>t, <1>1, <1>3, <2>1, <2>3, ToldDispatch DEF ToldRun, Kept
<1> QED BY <1>4, <1>5, <1>6 DEF DispatchStep

\* A sender: it delivers one message, or stays.
LEMMA DeliverKeeps ==
  ASSUME Inv, Report, Told, NEW r \in Runs, NEW c \in Chats, DeliverStep(r, c) \/ FaultStep(r, c)
  PROVE  Told' /\ \A s \in Runs : Kept(s)
<1>t. /\ DispatchShape /\ SendShape /\ NotBegun /\ UnsentTo(r, c)
      /\ ReportShape /\ HonestRun(r) /\ CountRun(r) /\ ToldRun(r)
  BY DEF Inv, Shape, Report, Unsent, Told
<1>1. UNCHANGED <<job, runs, campaign>>
  BY DEF DeliverStep, FaultStep, DeliverBegin, DeliverSend, DeliverRecord, DeliverBeginFail, DeliverSendFail,
         DeliverSentFail, DeliverFailedFail, Telegram
<1>2. Outcome(campaign[r])' = Outcome(campaign[r])
  BY <1>1 DEF Outcome
<1>3. /\ c \in Wanted(r)
      /\ dispatch[r].pc # "none" /\ (hand[r][c] # "idle" \/ SenderFree(r))
  <2>1. CASE hand[r][c] # "idle"
    BY <1>t, <2>1 DEF ToldRun, NotBegun
  <2>2. CASE SenderFree(r) /\ c \in dispatch[r].todo
    <3>1. target[r][c] = "queued"
      BY <1>t, <2>2 DEF CountRun
    <3> QED BY <2>2, <3>1 DEF Wanted, SenderFree
  <2> QED BY <2>1, <2>2 DEF DeliverStep, FaultStep, DeliverBegin, DeliverSend, DeliverRecord, DeliverBeginFail,
                            DeliverSendFail, DeliverSentFail, DeliverFailedFail, Telegram
<1>4. /\ \A s \in Runs : s # r => /\ target'[s] = target[s] /\ dispatch'[s] = dispatch[s]
                                    /\ hand'[s] = hand[s] /\ delivered'[s] = delivered[s]
      /\ \A d \in Chats : d # c => target'[r][d] = target[r][d] /\ hand'[r][d] = hand[r][d]
      /\ target'[r][c] # target[r][c] => target'[r][c] # "none"
  BY <1>t DEF DeliverStep, FaultStep, DeliverBegin, DeliverSend, DeliverRecord, DeliverBeginFail, DeliverSendFail,
              DeliverSentFail, DeliverFailedFail, Telegram, DispatchShape, SendShape, ReportShape
<1>5. Wanted(r)' = Wanted(r)
  BY <1>3, <1>4 DEF Wanted
<1>6. \A d \in Chats : hand'[r][d] # "idle" => d \in Wanted(r)
  BY <1>t, <1>3, <1>4 DEF ToldRun
<1>7. dispatch'[r].pc \in {dispatch[r].pc, Broken(dispatch[r].pc)}
  BY <1>t DEF DeliverStep, FaultStep, DeliverBegin, DeliverSend, DeliverRecord, DeliverBeginFail, DeliverSendFail,
              DeliverSentFail, DeliverFailedFail, Telegram, DispatchShape, DispatchSet
<1>8. dispatch'[r].pc \in {"begun", "read", "sending", "broken"} => Outcome(campaign[r])' = "open"
  BY <1>t, <1>2, <1>7 DEF ToldRun, Broken
<1>9. Kept(r)
  <2>1. CASE delivered' = delivered
    <3>1. Promise!Stay(r)
      BY <1>2, <1>5, <2>1 DEF Promise!Stay
    <3> QED BY <3>1 DEF Kept
  <2>2. CASE delivered' # delivered
    <3>1. PICK answer \in {"ok", "error"}, n \in {0, 1} : Telegram(r, c, answer, n)
      BY <2>2 DEF DeliverStep, FaultStep, DeliverBegin, DeliverSend, DeliverRecord, DeliverBeginFail, DeliverSendFail,
                  DeliverSentFail, DeliverFailedFail
    <3>2. hand[r][c] = "begun" /\ delivered[r][c] = 0 /\ delivered' = [delivered EXCEPT ![r][c] = @ + n]
      BY <1>t, <3>1 DEF Telegram, UnsentTo
    <3>3. n = 1
      BY <1>t, <2>2, <3>2 DEF SendShape
    <3>4. delivered'[r] = [delivered[r] EXCEPT ![c] = 1]
      BY <1>t, <3>2, <3>3 DEF SendShape
    <3>5. campaign[r] \notin {"completed", "partial_failed"}
      BY <1>t, <3>2 DEF HonestRun, NotBegun
    <3>6. Outcome(campaign[r]) \in {"open", "failed"}
      BY <1>t, <3>5 DEF Outcome, ReportShape, CampaignStatus
    <3>7. Promise!Deliver(r)
      BY <1>2, <1>3, <1>5, <3>2, <3>4, <3>6 DEF Promise!Deliver
    <3> QED BY <3>7 DEF Kept
  <2> QED BY <2>1, <2>2
<1> QED BY <1>1, <1>3, <1>4, <1>5, <1>6, <1>8, <1>9, ToldDispatch

LEMMA CrashKeeps ==
  ASSUME Inv, Told, NEW a \in Instances, Crash(a)
  PROVE  Told' /\ \A r \in Runs : Kept(r)
<1>t. JobShape /\ ChatsAtHand /\ \A r \in Runs : ToldRun(r)
  BY DEF Inv, Shape, Told
<1>1. /\ UNCHANGED <<runs, campaign, target, delivered>> /\ job'[a] = IdleJob
      /\ \A b \in Instances : b # a => job'[b] = job[b]
      /\ \A r \in Runs : dispatch[r].by = a => dispatch'[r] = NoDispatch /\ hand'[r] = [c \in Chats |-> "idle"]
      /\ \A r \in Runs : dispatch[r].by # a => dispatch'[r] = dispatch[r] /\ hand'[r] = hand[r]
  BY <1>t DEF Crash, JobShape
<1>2. \A r \in Runs : Early(r)' => Early(r)
  BY <1>1 DEF Early, IdleJob
<1>3. ChatsAtHand'
  BY <1>t, <1>1 DEF ChatsAtHand, IdleJob
<1>4. ASSUME NEW r \in Runs PROVE ToldRun(r)' /\ Kept(r)
  <2>1. CASE dispatch[r].by = a
    <3>1. dispatch'[r].pc = "none" /\ \A c \in Chats : hand'[r][c] = "idle"
      BY <1>1, <2>1 DEF NoDispatch
    <3>2. Outcome(campaign[r])' = Outcome(campaign[r])
      BY <1>1 DEF Outcome
    <3>3. Wanted(r)' = Wanted(r) /\ Kept(r)
      BY <1>1, <3>2, Unseen
    <3> QED BY <1>t, <1>2, <3>1, <3>3 DEF ToldRun
  <2>2. CASE dispatch[r].by # a
    BY <1>t, <1>1, <1>2, <2>2, ToldFrame
  <2> QED BY <2>1, <2>2
<1> QED BY <1>3, <1>4 DEF Told

LEMMA NextKeeps ==
  ASSUME Inv, Report, Told, [Next]_vars
  PROVE  Told' /\ \A r \in Runs : Kept(r)
<1>1. CASE UNCHANGED vars
  <2>1. \A r \in Runs : ToldRun(r)' /\ Kept(r)
    BY <1>1, ToldFrame DEF Told, Early, vars
  <2> QED BY <1>1, <2>1 DEF Told, ChatsAtHand, vars
<1>2. CASE Next
  BY <1>2, JobKeeps, CrashKeeps, DispatchKeeps, DeliverKeeps DEF Next
<1> QED BY <1>1, <1>2

\* A run chooses its chats once, sends each at most one message and reports one
\* outcome, which stays and after which, unless it is `failed`, nothing is sent:
\* for any number of instances, chats, senders and faults.
THEOREM PromiseKept == Spec => KeepsPromise
<1>1. Inv /\ Report /\ Told /\ [Next]_vars =>
        Told' /\ [Promise!Next]_(<<[r \in Runs |-> Wanted(r)], delivered, [r \in Runs |-> Outcome(campaign[r])]>>)
  <2>1. (\A r \in Runs : Kept(r)) => Promise!Next
    BY DEF Kept, Promise!Next
  <2> QED BY <2>1, NextKeeps
<1> QED BY InitInv, NextInv, InitReport, NextReport, InitTold, <1>1, PTL
        DEF Spec, KeepsPromise, Promise!Spec, Promise!promise
=============================================================================
