----------------------- MODULE ReconcileLease_proofs -----------------------
(***************************************************************************)
(* One reconciliation run at a time may begin work: for any number of runs,   *)
(* any delays and any budget below the lease's time to live.                  *)
(***************************************************************************)
EXTENDS ReconcileLease, TLAPS

\* A run asked no later than now, and until its deadline the key it was granted
\* is its own and outlives the deadline.
LeaseOutlives ==
  \A r \in Runs :
    /\ run[r].pc # "idle" => run[r].deadline <= now + Budget
    /\ run[r].pc \in {"granted", "running"} /\ now < run[r].deadline =>
         lease.by = r /\ run[r].deadline < lease.until

Inv == TypeOK /\ LeaseOutlives

LEMMA InitInv == Init => Inv
<1> SUFFICES ASSUME Init PROVE Inv
  OBVIOUS
<1>1. NewRun \in RunType
  BY DEF NewRun, RunType
<1>2. TypeOK
  BY <1>1, TimesAssumption DEF Init, TypeOK, Free, NewRun
<1>3. LeaseOutlives
  BY DEF Init, LeaseOutlives, NewRun
<1> QED BY <1>2, <1>3 DEF Inv

\* No action leaves the types.
LEMMA RunActionType ==
  ASSUME TypeOK, NEW r \in Runs, RunAction(r)
  PROVE  TypeOK'
<1> USE TimesAssumption, NoneAssumption DEF TypeOK, RunType
<1>1. CASE RunRequest(r)
  <2>1. now + Budget \in Nat
    OBVIOUS
  <2>2. [run[r] EXCEPT !.pc = "asked", !.deadline = now + Budget] \in RunType
    BY <2>1
  <2>3. run' \in [Runs -> RunType]
    BY <1>1, <2>2 DEF RunRequest
  <2> QED BY <1>1, <2>3 DEF RunRequest
<1>2. CASE LeaseAcquire(r)
  BY <1>2 DEF LeaseAcquire
<1>3. CASE ReplyLost(r)
  BY <1>3 DEF ReplyLost
<1>4. CASE RunBegin(r)
  BY <1>4 DEF RunBegin
<1>5. CASE RunSkip(r)
  BY <1>5 DEF RunSkip
<1>6. CASE StepBegin(r)
  BY <1>6 DEF StepBegin, canStartWork
<1>7. CASE StepEnd(r)
  BY <1>7 DEF StepEnd
<1>8. CASE LeaseRenew(r)
  BY <1>8 DEF LeaseRenew
<1>9. CASE RenewFail(r)
  BY <1>9 DEF RenewFail
<1>10. CASE RunEnd(r)
  BY <1>10 DEF RunEnd
<1>11. CASE LeaseRelease(r)
  BY <1>11 DEF LeaseRelease, Free
<1>12. CASE RunDie(r)
  BY <1>12 DEF RunDie
<1> QED BY <1>1, <1>2, <1>3, <1>4, <1>5, <1>6, <1>7, <1>8, <1>9, <1>10, <1>11, <1>12 DEF RunAction

\* The key passes to another run only when it has expired, or when its run, which
\* then begins no more work, gives it back.
LEMMA RunActionOutlives ==
  ASSUME Inv, NEW r \in Runs, RunAction(r)
  PROVE  LeaseOutlives'
<1> USE TimesAssumption, BudgetAssumption, NoneAssumption
<1>t. /\ now \in Nat /\ lease.until \in Nat /\ lease \in [by : Runs \cup {None}, until : Nat]
      /\ run \in [Runs -> RunType]
      /\ \A s \in Runs : run[s] \in RunType /\ run[s].deadline \in Nat
      /\ LeaseOutlives
  BY DEF Inv, TypeOK, RunType
<1>1. CASE RunRequest(r)
  BY <1>t, <1>1 DEF RunRequest, LeaseOutlives, RunType
<1>2. CASE LeaseAcquire(r)
  <2>1. /\ now' = now /\ run'[r].deadline = run[r].deadline
        /\ \A s \in Runs : s # r => run'[s] = run[s]
        /\ run'[r].pc = IF Taken THEN "refused" ELSE "granted"
    BY <1>t, <1>2 DEF LeaseAcquire, RunType
  <2>2. run[r].deadline <= now + Budget
    BY <1>t, <1>2 DEF LeaseAcquire, LeaseOutlives
  <2>3. CASE Taken
    BY <1>t, <1>2, <2>1, <2>2, <2>3 DEF LeaseAcquire, LeaseOutlives
  <2>4. CASE ~Taken
    <3>1. ASSUME NEW s \in Runs, run[s].pc \in {"granted", "running"}
          PROVE  ~(now < run[s].deadline)
      BY <1>t, <2>4, <3>1 DEF Taken, LeaseOutlives
    <3>2. lease'.by = r /\ lease'.until = now + TTL
      BY <1>2, <2>4 DEF LeaseAcquire
    <3> QED BY <1>t, <2>1, <2>2, <2>4, <3>1, <3>2 DEF LeaseOutlives
  <2> QED BY <2>3, <2>4
<1>3. CASE RunBegin(r)
  BY <1>t, <1>3 DEF RunBegin, LeaseOutlives, RunType
<1>4. CASE LeaseRenew(r)
  <2>1. /\ now' = now /\ run' = run /\ lease'.by = r /\ lease.by = r
        /\ lease'.until = now + TTL
    BY <1>t, <1>4 DEF LeaseRenew, HeldBy
  <2> QED BY <1>t, <2>1 DEF LeaseOutlives
<1>5. CASE LeaseRelease(r)
  <2>1. \A s \in Runs : s # r /\ lease.by = s => lease' = lease
    BY <1>t, <1>5 DEF LeaseRelease, HeldBy
  <2> QED BY <1>t, <1>5, <2>1 DEF LeaseRelease, LeaseOutlives, RunType
<1>6. CASE ReplyLost(r) \/ RunSkip(r) \/ StepBegin(r) \/ StepEnd(r) \/ RenewFail(r) \/ RunEnd(r) \/ RunDie(r)
  <2>1. /\ now' = now /\ lease' = lease /\ run[r].pc # "idle"
        /\ \A s \in Runs : s # r => run'[s] = run[s]
        /\ run'[r].deadline = run[r].deadline
        /\ run'[r].pc \in {"granted", "running"} => run[r].pc \in {"granted", "running"}
    BY <1>t, <1>6 DEF ReplyLost, RunSkip, StepBegin, canStartWork, StepEnd, RenewFail, RunEnd, RunDie,
                      RunType, Inv, TypeOK
  <2> QED BY <1>t, <2>1 DEF LeaseOutlives
<1> QED BY <1>1, <1>2, <1>3, <1>4, <1>5, <1>6 DEF RunAction

LEMMA NextInv == Inv /\ [Next]_vars => Inv'
<1> SUFFICES ASSUME Inv, [Next]_vars PROVE Inv'
  OBVIOUS
<1>1. CASE Tick
  <2>1. TypeOK'
    BY <1>1, TimesAssumption DEF Tick, Inv, TypeOK
  <2>2. LeaseOutlives'
    BY <1>1, TimesAssumption DEF Tick, Inv, TypeOK, RunType, LeaseOutlives
  <2> QED BY <2>1, <2>2 DEF Inv
<1>2. ASSUME NEW r \in Runs, RunAction(r)
      PROVE  Inv'
  BY <1>2, RunActionType, RunActionOutlives DEF Inv
<1>3. CASE UNCHANGED vars
  BY <1>3 DEF vars, Inv, TypeOK, LeaseOutlives
<1> QED BY <1>1, <1>2, <1>3 DEF Next

\* The types hold in every reachable state, and work is in progress only in a run
\* that has not ended.
THEOREM LeaseTypeCorrect == Spec => []TypeOK
<1>1. Inv => TypeOK
  BY DEF Inv
<1> QED BY <1>1, InitInv, NextInv, PTL DEF Spec

\* Two runs never both have the right to begin work.
THEOREM OneRunWorks == Spec => []SoleWorker
<1>1. Inv => SoleWorker
  BY DEF Inv, LeaseOutlives, SoleWorker, canStartWork
<1> QED BY <1>1, InitInv, NextInv, PTL DEF Spec
=============================================================================
