------------------------ MODULE HistoryCursor_proofs ------------------------
(***************************************************************************)
(* A chat's cursor for any number of messages, handlers, backfills and page *)
(* sizes: type correctness, and that a checkpoint skips nothing.             *)
(***************************************************************************)
EXTENDS HistoryCursor, TLAPS

\* A busy handler holds a media message.
HandsHold == \A h \in Handlers : hand[h].pc # "idle" => hand[h].msg \in Media

\* While nobody switched the group off, what the run has passed is recorded, and
\* what lies on its page is recorded or still to be.
PagesCovered ==
  /\ allowed => active
  /\ allowed /\ run.pc # "idle" =>
       \A m \in Media : run.from < m /\ m <= run.after => m \in stored
  /\ allowed /\ run.pc = "process" =>
       \A m \in Media : run.after < m /\ m <= run.maxSeen => m \in stored \cup run.todo

Inv == TypeOK /\ HandsHold /\ PagesCovered

\* rewindMessageCursor never leaves the ids, whatever the lookback.
LEMMA RewindInIds ==
  ASSUME NEW last \in Ids, NEW lookback \in Nat
  PROVE  rewindMessageCursor(last, lookback) \in Ids
BY SizesAssumption DEF rewindMessageCursor, Ids

LEMMA InitInv == Init => Inv
<1> SUFFICES ASSUME Init PROVE Inv
  OBVIOUS
<1> USE SizesAssumption
<1>1. IdleRun \in RunType
  BY DEF IdleRun, RunType, Ids
<1>2. TypeOK
  BY <1>1 DEF Init, TypeOK, HandType, Ids, IdleHandler
<1>3. HandsHold /\ PagesCovered
  BY DEF Init, HandsHold, PagesCovered, IdleHandler, IdleRun
<1> QED BY <1>2, <1>3 DEF Inv

\* A handler records at most one more message and leaves the run alone.
LEMMA HandStepInv ==
  ASSUME Inv, NEW h \in Handlers, HandStep(h)
  PROVE  Inv'
<1> USE SizesAssumption DEF Inv
<1>0. /\ run' = run /\ active' = active /\ allowed' = allowed /\ posted' = posted /\ cuts' = cuts
      /\ stored \subseteq stored'
  BY DEF HandStep, HandRead, HandUpsert, HandStore, HandFail
<1>1. PagesCovered'
  BY <1>0 DEF PagesCovered
<1>2. ASSUME NEW m \in Messages, HandRead(h, m)
      PROVE  TypeOK' /\ HandsHold'
  <2>1. Larger(cursor, m) \in Ids /\ m \in Ids
    BY DEF Larger, TypeOK, Messages, Ids
  <2>2. events' \in 0..MaxEvents
    BY <1>2 DEF HandRead, TypeOK
  <2>3. m \in Media
    BY <1>2 DEF HandRead
  <2>4. hand' \in [Handlers -> HandType]
    BY <1>2, <2>1 DEF HandRead, TypeOK, HandType
  <2>5. HandsHold'
    BY <1>2, <2>3 DEF HandRead, TypeOK, HandsHold
  <2> QED BY <1>0, <1>2, <2>2, <2>4, <2>5 DEF HandRead, TypeOK
<1>3. CASE HandUpsert(h)
  <2>1. cursor' \in Ids
    BY <1>3 DEF HandUpsert, TypeOK, HandType
  <2>2. hand' \in [Handlers -> HandType]
    BY <1>3 DEF HandUpsert, TypeOK, HandType, IdleHandler, Ids
  <2>3. HandsHold'
    BY <1>3 DEF HandUpsert, TypeOK, HandsHold, IdleHandler
  <2> QED BY <1>0, <1>1, <1>3, <2>1, <2>2, <2>3 DEF HandUpsert, TypeOK
<1>4. CASE HandStore(h)
  <2>1. stored' \subseteq Media
    BY <1>4 DEF HandStore, TypeOK, HandType, HandsHold
  <2>2. hand' \in [Handlers -> HandType]
    BY <1>4 DEF HandStore, TypeOK, HandType, IdleHandler, Ids
  <2>3. HandsHold'
    BY <1>4 DEF HandStore, TypeOK, HandsHold, IdleHandler
  <2> QED BY <1>0, <1>1, <1>4, <2>1, <2>2, <2>3 DEF HandStore, TypeOK
<1>5. CASE HandFail(h)
  <2>1. hand' \in [Handlers -> HandType]
    BY <1>5 DEF HandFail, TypeOK, HandType, IdleHandler, Ids
  <2>2. HandsHold'
    BY <1>5 DEF HandFail, TypeOK, HandsHold, IdleHandler
  <2> QED BY <1>0, <1>1, <1>5, <2>1, <2>2 DEF HandFail, TypeOK
<1> QED BY <1>1, <1>2, <1>3, <1>4, <1>5 DEF HandStep

\* The run keeps the pages covered: a page begins where the last one ended, and
\* the next one begins only when nothing of it is left to do.
LEMMA RunStepInv ==
  ASSUME Inv, RunStep
  PROVE  Inv'
<1> USE SizesAssumption DEF Inv
<1>0. /\ posted \in Ids /\ cursor \in Ids /\ active \in BOOLEAN /\ allowed \in BOOLEAN
      /\ stored \subseteq Media /\ run \in RunType
  BY DEF TypeOK
<1>f. /\ run.pc \in {"idle", "fetch", "process"} /\ run.from \in Ids /\ run.after \in Ids
      /\ run.todo \in SUBSET Media /\ run.maxSeen \in Ids /\ run.hasMore \in BOOLEAN
      /\ run.pages \in 0..MaxPages - 1
  BY <1>0 DEF RunType
<1>1. CASE RunStart
  <2>0. PICK lookback \in Lookbacks :
          run' = [IdleRun EXCEPT !.pc = "fetch", !.from = rewindMessageCursor(Snapshot, lookback),
                                 !.after = rewindMessageCursor(Snapshot, lookback)]
    BY <1>1 DEF RunStart
  <2>1. rewindMessageCursor(Snapshot, lookback) \in Ids
    <3>1. Snapshot \in Ids /\ lookback \in Nat
      BY <1>0, LookbacksAssumption DEF Snapshot, Ids
    <3> QED BY <3>1, RewindInIds
  <2> DEFINE after == rewindMessageCursor(Snapshot, lookback)
  <2>a. run' = [IdleRun EXCEPT !.pc = "fetch", !.from = after, !.after = after] /\ after \in Ids
    BY <2>0, <2>1
  <2> HIDE DEF after
  <2>2. run' \in RunType /\ run'.pc = "fetch" /\ run'.from = after /\ run'.after = after
    <3>1. run' = [pc |-> "fetch", from |-> after, after |-> after, todo |-> {}, maxSeen |-> 0,
                  hasMore |-> FALSE, pages |-> 0]
      BY <2>a DEF IdleRun
    <3>2. 0 \in Ids /\ 0 \in 0..MaxPages - 1
      BY DEF Ids
    <3>3. run' \in RunType
      <4>1. after \in Ids
        BY <2>a
      <4>2. [pc |-> "fetch", from |-> after, after |-> after, todo |-> {}, maxSeen |-> 0,
             hasMore |-> FALSE, pages |-> 0] \in RunType
        BY <3>2, <4>1, Zenon DEF RunType
      <4> QED BY <3>1, <4>2
    <3>4. run'.pc = "fetch" /\ run'.from = after /\ run'.after = after
      BY <3>1
    <3> QED BY <3>3, <3>4
  <2>3. TypeOK'
    BY <1>1, <2>2 DEF RunStart, TypeOK
  <2>4. HandsHold'
    BY <1>1 DEF RunStart, HandsHold
  <2>5. \A m \in Media : ~(after < m /\ m <= after)
    BY <2>a DEF Media, Messages, Ids
  <2>6. PagesCovered'
    BY <1>1, <2>2, <2>5 DEF RunStart, PagesCovered
  <2> QED BY <2>3, <2>4, <2>6
<1>2. CASE RunFetch
  <2>0. PICK last \in Collected \cup {run.after} :
          /\ \A m \in Collected : m <= last
          /\ run' = [run EXCEPT !.pc = "process", !.todo = Collected, !.maxSeen = last,
                                !.hasMore = Cardinality(Collected) >= PageSize]
    BY <1>2 DEF RunFetch
  <2>1. Collected \subseteq Media /\ Collected \subseteq Ids
    BY <1>0 DEF Collected, Rows, Media, Messages, Ids, RunType
  <2>2. last \in Ids
    BY <1>0, <2>1 DEF RunType
  <2>3. /\ run' \in RunType /\ run'.pc = "process" /\ run'.todo = Collected /\ run'.maxSeen = last
        /\ run'.from = run.from /\ run'.after = run.after
    <3> DEFINE more == Cardinality(Collected) >= PageSize
    <3>1. more \in BOOLEAN
      OBVIOUS
    <3>2. run' = [run EXCEPT !.pc = "process", !.todo = Collected, !.maxSeen = last, !.hasMore = more]
      BY <2>0
    <3> HIDE DEF more
    <3> QED BY <1>0, <2>1, <2>2, <3>1, <3>2 DEF RunType
  <2>4. TypeOK'
    BY <1>2, <2>3 DEF RunFetch, TypeOK
  <2>5. HandsHold'
    BY <1>2 DEF RunFetch, HandsHold
  <2>6. ASSUME NEW m \in Media, run.after < m, m <= last
        PROVE  m \in Collected
    BY <1>0, <2>6, <2>1, <2>2 DEF Collected, Rows, Media, Messages, Ids, RunType
  <2>7. PagesCovered'
    BY <1>2, <2>3, <2>6 DEF RunFetch, PagesCovered
  <2> QED BY <2>4, <2>5, <2>7
<1>3. CASE RunStore
  <2>0. PICK m \in run.todo : /\ run' = [run EXCEPT !.todo = @ \ {m}]
                              /\ stored' = IF active THEN stored \cup {m} ELSE stored
    BY <1>3 DEF RunStore
  <2>1. /\ run' \in RunType /\ run'.pc = run.pc /\ run'.todo = run.todo \ {m}
        /\ run'.maxSeen = run.maxSeen /\ run'.from = run.from /\ run'.after = run.after
    BY <1>0, <2>0 DEF RunType
  <2>2. stored' \subseteq Media /\ stored \subseteq stored'
    BY <1>0, <2>0 DEF RunType
  <2>3. TypeOK'
    BY <1>3, <2>1, <2>2 DEF RunStore, TypeOK
  <2>4. HandsHold'
    BY <1>3 DEF RunStore, HandsHold
  <2>5. PagesCovered'
    BY <1>3, <2>0, <2>1, <2>2 DEF RunStore, PagesCovered
  <2> QED BY <2>3, <2>4, <2>5
<1>4. CASE RunCheckpoint
  <2>1. Larger(cursor, run.maxSeen) \in Ids
    BY <1>0 DEF Larger, RunType
  <2>2. \/ run' = IdleRun
        \/ /\ run.pages + 1 < MaxPages
           /\ run' = [run EXCEPT !.pc = "fetch", !.after = run.maxSeen, !.pages = @ + 1]
    BY <1>4 DEF RunCheckpoint
  <2>3. CASE run' = IdleRun
    <3>1. run' \in RunType /\ run'.pc = "idle"
      BY <2>3 DEF IdleRun, RunType, Ids
    <3>2. TypeOK' /\ HandsHold' /\ PagesCovered'
      BY <1>4, <2>1, <3>1 DEF RunCheckpoint, TypeOK, HandsHold, PagesCovered
    <3> QED BY <3>2
  <2>4. CASE /\ run.pages + 1 < MaxPages
             /\ run' = [run EXCEPT !.pc = "fetch", !.after = run.maxSeen, !.pages = @ + 1]
    <3>1. run' \in RunType /\ run'.pc = "fetch" /\ run'.from = run.from /\ run'.after = run.maxSeen
      <4>1. run.pages + 1 \in 0..MaxPages - 1
        BY <1>f, <2>4
      <4> QED BY <1>0, <1>f, <2>4, <4>1 DEF RunType
    <3>2. TypeOK' /\ HandsHold'
      BY <1>4, <2>1, <3>1 DEF RunCheckpoint, TypeOK, HandsHold
    <3>3. ASSUME allowed, NEW m \in Media, run.from < m, m <= run.maxSeen
          PROVE  m \in stored
      BY <1>0, <1>4, <3>3 DEF RunCheckpoint, PagesCovered, RunType, Media, Messages, Ids
    <3>4. PagesCovered'
      BY <1>4, <3>1, <3>3 DEF RunCheckpoint, PagesCovered
    <3> QED BY <3>2, <3>4
  <2> QED BY <2>2, <2>3, <2>4
<1> QED BY <1>1, <1>2, <1>3, <1>4 DEF RunStep

LEMMA NextInv == Inv /\ [Next]_vars => Inv'
<1> SUFFICES ASSUME Inv, [Next]_vars PROVE Inv'
  OBVIOUS
<1> USE SizesAssumption DEF Inv
<1>1. CASE Post
  BY <1>1 DEF Post, TypeOK, HandsHold, PagesCovered, Ids
<1>2. CASE Deactivate
  BY <1>2 DEF Deactivate, TypeOK, HandsHold, PagesCovered
<1>3. ASSUME NEW h \in Handlers, HandStep(h)
      PROVE  Inv'
  BY <1>3, HandStepInv
<1>4. CASE RunStep
  BY <1>4, RunStepInv
<1>5. CASE RunCut
  <2>1. run' \in RunType /\ run'.pc = "idle"
    BY <1>5 DEF RunCut, IdleRun, RunType, Ids
  <2>2. cuts' \in 0..MaxCuts
    BY <1>5 DEF RunCut, TypeOK
  <2> QED BY <1>5, <2>1, <2>2 DEF RunCut, TypeOK, HandsHold, PagesCovered
<1>6. CASE UNCHANGED vars
  BY <1>6 DEF vars, TypeOK, HandsHold, PagesCovered, Snapshot
<1> QED BY <1>1, <1>2, <1>3, <1>4, <1>5, <1>6 DEF Next

\* The types hold in every reachable state: no run reads more pages than allowed,
\* and no cursor points at a message that cannot exist.
THEOREM CursorTypeCorrect == Spec => []TypeOK
<1>1. Inv => TypeOK
  BY DEF Inv
<1> QED BY <1>1, InitInv, NextInv, PTL DEF Spec

\* A checkpoint of a group that was not switched off moves the cursor past no
\* media message of the run's pages that is not recorded.
THEOREM CheckpointsSkipNothing == Spec => CheckpointsCover
<1> DEFINE Covered == RunCheckpoint /\ allowed /\ cursor' > cursor =>
                        \A m \in Media : run.from < m /\ m <= cursor' => m \in stored
<1>1. Inv /\ [Next]_vars => [Covered]_vars
  <2> SUFFICES ASSUME Inv, RunCheckpoint, allowed, cursor' > cursor,
                      NEW m \in Media, run.from < m, m <= cursor'
               PROVE  m \in stored
    OBVIOUS
  <2>1. cursor \in Ids /\ run \in RunType
    BY DEF Inv, TypeOK
  <2>2. cursor' = run.maxSeen /\ run.pc = "process" /\ run.todo = {}
    BY <2>1, SizesAssumption DEF RunCheckpoint, Larger, Ids, RunType
  <2>3. m \in Nat /\ run.after \in Nat
    BY <2>1, SizesAssumption DEF Media, Messages, Ids, RunType
  <2>4. CASE m <= run.after
    BY <2>2, <2>4 DEF Inv, PagesCovered
  <2>5. CASE run.after < m
    BY <2>2, <2>5 DEF Inv, PagesCovered
  <2> QED BY <2>3, <2>4, <2>5
<1> QED BY <1>1, InitInv, NextInv, PTL DEF Spec, CheckpointsCover
=============================================================================
