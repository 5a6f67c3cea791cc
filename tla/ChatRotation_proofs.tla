------------------------ MODULE ChatRotation_proofs ------------------------
(***************************************************************************)
(* For any chats, settings and clock: the types, and that no chat is taken    *)
(* twice in a schedule window once a page of it was checkpointed there.  The  *)
(* second rests on this: what a run has still to do is not fresh, because it   *)
(* was due when the run began, only what the run is busy with becomes fresh,   *)
(* and a new window makes nothing fresh.                                      *)
(***************************************************************************)
EXTENDS ChatRotation, FiniteSetTheorems, TLAPS

\* The place of a due chat is a natural number, whatever the index to start at.
LEMMA TurnIsNat == ASSUME TypeOK, NEW c \in Due PROVE Turn(c) \in Nat
<1>1. IsFiniteSet(Due)
  BY FS_Subset, ChatsAssumption DEF TypeOK, Due
<1> DEFINE n == Cardinality(Due)
           rank == Cardinality({d \in Due : d < c})
<1>2. n \in Nat /\ n # 0
  BY <1>1, FS_CardinalityType, FS_EmptySet
<1>3. rank \in Nat
  <2>1. IsFiniteSet({d \in Due : d < c})
    BY <1>1, FS_Subset
  <2> QED BY <2>1, FS_CardinalityType
<1>4. startIndex(n) \in Int
  <2>1. now \in Nat
    BY CycleAssumption DEF TypeOK
  <2>2. set.cap \in Nat /\ set.interval \in Nat \ {0}
    BY SettingsAssumption DEF TypeOK, Setting
  <2>3. Window(now) \in Int
    BY <2>1, <2>2 DEF Window
  <2>4. Window(now) * set.cap \in Int
    BY <2>2, <2>3
  <2> HIDE DEF n
  <2> QED BY <1>2, <2>4 DEF startIndex
<1>5. (rank - startIndex(n) + n) % n \in Nat
  <2> HIDE DEF n, rank
  <2> QED BY <1>2, <1>3, <1>4
<1> QED BY <1>5 DEF Turn

Fresh == run.todo \cap fresh = {}
IInv == TypeOK /\ Fresh

LEMMA InitIInv == Init => IInv
<1> SUFFICES ASSUME Init PROVE IInv
  OBVIOUS
<1>1. 0 \in 0..Cycle - 1 /\ MaxSlips \in 0..MaxSlips
  BY CycleAssumption
<1> QED BY <1>1 DEF Init, IInv, TypeOK, Fresh, NoRun

LEMMA StepIInv == IInv /\ [Next]_vars => IInv'
<1> SUFFICES ASSUME IInv, [Next]_vars PROVE IInv'
  OBVIOUS
<1> USE DEF IInv, TypeOK, Fresh
<1>1. CASE Tick
  <2>1. now' \in 0..Cycle - 1
    BY <1>1, CycleAssumption DEF Tick
  <2>2. slips' \in 0..MaxSlips
    BY <1>1, CycleAssumption DEF Tick
  <2>3. pending' \in BOOLEAN
    BY <1>1 DEF Tick
  <2>4. fresh' \subseteq fresh
    BY <1>1 DEF Tick
  <2>5. UNCHANGED <<set, members, run, NoRun>>
    BY <1>1 DEF Tick, NoRun
  <2> QED BY <2>1, <2>2, <2>3, <2>4, <2>5
<1>2. CASE RunSkip
  BY <1>2 DEF RunSkip, NoRun
<1>3. CASE LeaseLost
  <2>1. slips' \in 0..MaxSlips
    BY <1>3, CycleAssumption DEF LeaseLost
  <2>2. run' = [run EXCEPT !.over = TRUE] /\ run.on
    BY <1>3 DEF LeaseLost, canStartWork
  <2>3. UNCHANGED <<set, members, now, pending, fresh>>
    BY <1>3 DEF LeaseLost
  <2> QED BY <2>1, <2>2, <2>3
<1>4. CASE RunStart
  <2>1. \A c \in Due : Turn(c) \in Nat
    BY TurnIsNat
  <2>2. [c \in Chats |-> IF c \in Due THEN Turn(c) ELSE 0] \in [Chats -> Nat]
    BY <2>1
  <2>3. Candidates \subseteq members /\ Candidates \cap fresh = {}
    BY DEF Candidates, Due
  <2> HIDE DEF Candidates, Turn, Due
  <2>4. run' \in [on : BOOLEAN, started : 0..Cycle - 1, todo : SUBSET members,
                  turn : [Chats -> Nat], busy : SUBSET members, taken : Nat, over : BOOLEAN]
    BY <1>4, <2>2, <2>3 DEF RunStart, NoRun
  <2>5. run'.on /\ run'.todo = Candidates /\ run'.busy = {}
    BY <1>4 DEF RunStart, NoRun
  <2>6. UNCHANGED <<set, members, now, fresh, slips>> /\ pending' \in BOOLEAN
    BY <1>4 DEF RunStart
  <2> QED BY <2>3, <2>4, <2>5, <2>6
<1>5. CASE RunEnd
  <2>1. run' = NoRun /\ NoRun' = NoRun /\ UNCHANGED <<set, members, now, pending, fresh, slips>>
    BY <1>5 DEF RunEnd, NoRun
  <2>2. NoRun \in [on : BOOLEAN, started : 0..Cycle - 1, todo : SUBSET members,
                   turn : [Chats -> Nat], busy : SUBSET members, taken : Nat, over : BOOLEAN]
    BY CycleAssumption DEF NoRun
  <2> QED BY <2>1, <2>2 DEF NoRun
<1>6. ASSUME NEW c \in Chats, ChatStart(c) PROVE IInv'
  <2>1. run' = [run EXCEPT !.todo = @ \ {c}, !.busy = @ \cup {c}, !.taken = @ + 1]
    BY <1>6 DEF ChatStart
  <2>2. run.on /\ c \in run.todo
    BY <1>6 DEF ChatStart, canStartWork
  <2>3. UNCHANGED <<set, members, now, pending, fresh, slips>>
    BY <1>6 DEF ChatStart
  <2>4. run' \in [on : BOOLEAN, started : 0..Cycle - 1, todo : SUBSET members,
                  turn : [Chats -> Nat], busy : SUBSET members, taken : Nat, over : BOOLEAN]
    <3>1. run.todo \ {c} \in SUBSET members /\ run.busy \cup {c} \in SUBSET members
      BY <2>2
    <3>2. run.taken + 1 \in Nat
      OBVIOUS
    <3> QED BY <2>1, <3>1, <3>2
  <2>5. run'.on /\ run'.todo = run.todo \ {c} /\ run'.busy = run.busy \cup {c}
    BY <2>1, <2>2
  <2> QED BY <2>3, <2>4, <2>5
<1>7. ASSUME NEW c \in Chats, ChatCheckpoint(c) PROVE IInv'
  BY <1>7 DEF ChatCheckpoint, NoRun
<1>8. ASSUME NEW c \in Chats, ChatEnd(c) PROVE IInv'
  BY <1>8 DEF ChatEnd, NoRun
<1>9. CASE UNCHANGED vars
  BY <1>9 DEF vars, NoRun
<1> QED BY <1>1, <1>2, <1>3, <1>4, <1>5, <1>6, <1>7, <1>8, <1>9 DEF Next, RunAction

LEMMA AlwaysIInv == Spec => []IInv
BY InitIInv, StepIInv, PTL DEF Spec

\* Every variable keeps its type, and a run that is not on has nothing left to do
\* and nobody at work: no run ends before its workers.
THEOREM TypeCorrect == Spec => []TypeOK
<1>1. IInv => TypeOK
  BY DEF IInv
<1> QED BY <1>1, AlwaysIInv, PTL

\* For any number of chats, workers and windows, overlapping a run or not, a chat
\* of which a page was checkpointed in this window is not taken again in it.
THEOREM NoChatTwice == Spec => OncePerWindow
<1>1. ASSUME IInv, [Next]_vars
      PROVE  [\A c \in run'.busy \ run.busy : c \notin fresh]_vars
  <2>1. CASE \E c \in Chats : ChatStart(c)
    BY <1>1, <2>1 DEF IInv, TypeOK, Fresh, ChatStart
  <2>2. CASE ~\E c \in Chats : ChatStart(c)
    <3>1. CASE UNCHANGED vars
      BY <3>1
    <3>2. CASE Next
      <4>1. run'.busy \subseteq run.busy
        <5>1. CASE Tick \/ RunSkip \/ \E c \in Chats : ChatCheckpoint(c)
          BY <5>1 DEF Tick, RunSkip, ChatCheckpoint
        <5>2. CASE LeaseLost \/ \E c \in Chats : ChatEnd(c)
          BY <1>1, <5>2 DEF LeaseLost, ChatEnd, IInv, TypeOK
        <5>3. CASE RunStart \/ RunEnd
          <6>1. CASE RunStart
            BY <6>1 DEF RunStart, NoRun
          <6>2. CASE RunEnd
            BY <6>2 DEF RunEnd, NoRun
          <6> QED BY <5>3, <6>1, <6>2
        <5> QED BY <2>2, <3>2, <5>1, <5>2, <5>3 DEF Next, RunAction
      <4> QED BY <4>1
    <3> QED BY <1>1, <3>1, <3>2
  <2> QED BY <2>1, <2>2
<1> QED BY <1>1, AlwaysIInv, PTL DEF Spec, OncePerWindow
=============================================================================
