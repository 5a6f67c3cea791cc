------------------------ MODULE MediaPipeline_proofs ------------------------
(***************************************************************************)
(* Proofs about MediaPipeline, for any items, workers, attempts and faults.     *)
(* The types come first.  Two theorems rest on an inductive invariant,          *)
(* Snapshots, with stalled jobs, crashes and sweeps between any two steps: what *)
(* a process remembers of a row is either outdated, and then its                *)
(* compare-and-set fails, or still says what the row says.  The theorems about  *)
(* staged files and about the abstract lifecycle add the stage of every item    *)
(* (Calm), and assume that jobs do not stall under a live processor and that    *)
(* the 'failed' handler runs before the retry (Timely).                         *)
(***************************************************************************)
EXTENDS MediaPipeline, TLAPS

\* A busy processor holds an item, and so do the owner of a lease and a sweep in
\* the middle of a recovery.
HoldsItem == /\ \A w \in DWorkers : dw[w].pc # "idle" \/ dw[w].token # NoStamp => dw[w].item \in Items
             /\ \A u \in UWorkers : uw[u].pc # "idle" => uw[u].item \in Items
             /\ sweep.pc # "idle" => sweep.item \in Items

Typed == TypeOK /\ HoldsItem

\* `new Date()` and `randomUUID()` give a stamp that nobody else holds.
LEMMA FreshStamp ==
  ASSUME NEW i, CanStamp(i)
  PROVE  Fresh(i) \in Stamps /\ Fresh(i) \notin InUse(i)
BY DEF CanStamp, Fresh

LEMMA NoJobType ==
  ASSUME NEW W
  PROVE  NoJob \in Job(W)
BY BoundsAssumption DEF Job, NoJob

\* Queueing a job gives a job.
LEMMA EnqueuedType ==
  ASSUME NEW W, NEW job \in Job(W)
  PROVE  Enqueued(job) \in Job(W)
<1>1. [NoJob EXCEPT !.state = "waiting"] \in Job(W)
  BY NoJobType DEF Job
<1> QED BY <1>1 DEF Enqueued

\* So does taking one, settling it or losing it.
LEMMA JobTypes ==
  ASSUME NEW W, NEW w \in W, NEW job \in Job(W)
  PROVE  /\ Taken(job, w) \in Job(W)
         /\ Completed(job, w) \in Job(W)
         /\ AttemptFailed(job, w) \in Job(W)
<1>1. job.made \in 0..MaxAttempts - 1 /\ job.made + 1 \in Nat
  BY BoundsAssumption DEF Job
<1>2. Taken(job, w) \in Job(W)
  BY DEF Taken, Job
<1>3. Completed(job, w) \in Job(W)
  BY NoJobType DEF Completed
<1>4. AttemptFailed(job, w) \in Job(W)
  <2>1. CASE job.owner # w \/ job.made + 1 >= MaxAttempts
    BY <2>1, NoJobType DEF AttemptFailed
  <2>2. CASE job.owner = w /\ ~(job.made + 1 >= MaxAttempts)
    <3>1. job.made + 1 \in 0..MaxAttempts - 1
      BY <2>2, <1>1, BoundsAssumption
    <3>2. AttemptFailed(job, w) =
            [job EXCEPT !.state = "waiting", !.owner = NoWorker, !.made = job.made + 1]
      BY <2>2 DEF AttemptFailed
    <3> QED BY <3>1, <3>2 DEF Job
  <2> QED BY <2>1, <2>2
<1> QED BY <1>2, <1>3, <1>4

LEMMA StalledType ==
  ASSUME NEW W, NEW job \in Job(W)
  PROVE  Stalled(job) \in Job(W)
BY NoJobType DEF Stalled, Job

\* A write keeps the table of rows well typed.
LEMMA WriteTypes ==
  ASSUME row \in [Items -> MediaItem], NEW i \in Items, NEW s \in Statuses,
         NEW l \in Stamps0, NEW p \in BOOLEAN, Write(i, s, l, p)
  PROVE  row' \in [Items -> MediaItem]
<1>1. Fresh(i) \in Stamps0
  BY FreshStamp DEF Write, Stamps0
<1> DEFINE r == [row[i] EXCEPT !.status = s, !.lease = l, !.localPath = p,
                               !.age = "young", !.updatedAt = Fresh(i)]
<1>2. r \in MediaItem
  BY <1>1 DEF MediaItem, Ages
<1>3. row' = [row EXCEPT ![i] = r]
  BY DEF Write
<1> HIDE DEF r
<1> QED BY <1>2, <1>3
----------------------------------------------------------------------------
(* Type correctness *)

LEMMA IdleTypes == /\ IdleD \in Downloader
                   /\ IdleU \in Uploader
                   /\ IdleI \in Ingest
                   /\ IdleS \in Sweep
                   /\ NoRow \in MediaItem
BY DEF IdleD, IdleU, IdleI, IdleS, NoRow, Downloader, Uploader, Ingest, Sweep, MediaItem,
       Statuses, Ages, Stamps0, SenderKinds

LEMMA InitTyped == Init => Typed
<1> SUFFICES ASSUME Init PROVE Typed
  OBVIOUS
<1>1. NoJob \in Job(DWorkers) /\ NoJob \in Job(UWorkers)
  BY BoundsAssumption DEF Job, NoJob
<1>2. [copies |-> 0, whole |-> TRUE] \in Remote
  BY DEF Remote
<1>3. MaxFaults \in 0..MaxFaults /\ MaxReplays \in 0..MaxReplays
  BY BoundsAssumption
<1>4. \A w \in DWorkers : dw[w].pc = "idle" /\ dw[w].token = NoStamp
  BY DEF Init, IdleD
<1>5. (\A u \in UWorkers : uw[u].pc = "idle") /\ sweep.pc = "idle"
  BY DEF Init, IdleU, IdleS
<1> QED BY <1>1, <1>2, <1>3, <1>4, <1>5, IdleTypes DEF Init, Typed, TypeOK, HoldsItem

\* Budgets only shrink.
LEMMA FaultTypes ==
  ASSUME faults \in 0..MaxFaults, replays \in 0..MaxReplays, NEW k, NEW b,
         UNCHANGED budgets \/ Fault(k) \/ Unless(k, b)
  PROVE  faults' \in 0..MaxFaults /\ replays' \in 0..MaxReplays
BY BoundsAssumption DEF Fault, Unless, budgets

LEMMA CreatedRowType ==
  ASSUME NEW r \in MediaItem, NEW s \in SenderKinds
  PROVE  [r EXCEPT !.status = "queued", !.sender = s] \in MediaItem
BY DEF MediaItem, Statuses

LEMMA IngestTyped ==
  ASSUME Typed, NEW i \in Items,
         IngestUpsert(i) \/ IngestCheck(i) \/ IngestEnqueue(i) \/ IngestFail(i)
  PROVE  Typed'
<1> USE DEF Typed, TypeOK, HoldsItem, downloadVars, uploadVars
<1>1. CASE IngestUpsert(i)
  <2>1. faults' \in 0..MaxFaults /\ replays' \in 0..MaxReplays
    <3>1. faults' = faults
      BY <1>1 DEF IngestUpsert
    <3>2. CASE row[i].status = "absent"
      <4>1. replays' = replays
        BY <1>1, <3>2 DEF IngestUpsert
      <4> QED BY <3>1, <4>1
    <3>3. CASE row[i].status # "absent"
      <4>1. replays > 0 /\ replays' = replays - 1
        BY <1>1, <3>3 DEF IngestUpsert
      <4> QED BY <3>1, <4>1, BoundsAssumption
    <3> QED BY <3>2, <3>3
  <2>2. row' \in [Items -> MediaItem]
    <3>1. CASE UNCHANGED row
      BY <3>1
    <3>2. ASSUME NEW s \in Senders, row' = [row EXCEPT ![i] = [@ EXCEPT !.status = "queued", !.sender = s]]
          PROVE  row' \in [Items -> MediaItem]
      <4> DEFINE r == [row[i] EXCEPT !.status = "queued", !.sender = s]
      <4>1. r \in MediaItem
        BY CreatedRowType, SenderAssumption
      <4>2. row' = [row EXCEPT ![i] = r]
        BY <3>2
      <4> HIDE DEF r
      <4> QED BY <4>1, <4>2
    <3> QED BY <1>1, <3>1, <3>2 DEF IngestUpsert
  <2>3. ing' \in [Items -> Ingest]
    <3>1. [pc |-> "upserted", status |-> "queued", path |-> FALSE] \in Ingest
      BY DEF Ingest, Statuses
    <3>2. [pc |-> "upserted", status |-> row[i].status, path |-> row[i].localPath] \in Ingest
      BY DEF Ingest, MediaItem
    <3> QED BY <1>1, <3>1, <3>2 DEF IngestUpsert
  <2> QED BY <1>1, <2>1, <2>2, <2>3 DEF IngestUpsert
<1>2. CASE IngestEnqueue(i)
  <2>1. Enqueued(dq[i]) \in Job(DWorkers) /\ Enqueued(uq[i]) \in Job(UWorkers)
    BY EnqueuedType
  <2> QED BY <1>2, <2>1, IdleTypes DEF IngestEnqueue, budgets
<1>3. CASE IngestFail(i)
  <2>1. faults' \in 0..MaxFaults /\ replays' \in 0..MaxReplays
    BY <1>3, FaultTypes DEF IngestFail
  <2> QED BY <1>3, <2>1, IdleTypes DEF IngestFail
<1>4. CASE IngestCheck(i)
  <2> PICK pc \in {"idle", "upload", "download"} : ing' = [ing EXCEPT ![i] = [IdleI EXCEPT !.pc = pc]]
    BY <1>4 DEF IngestCheck
  <2>1. [IdleI EXCEPT !.pc = pc] \in Ingest
    BY IdleTypes DEF Ingest
  <2> QED BY <1>4, <2>1 DEF IngestCheck, budgets
<1> QED BY <1>1, <1>2, <1>3, <1>4

LEMMA DownloadTyped ==
  ASSUME Typed, NEW w \in DWorkers,
         \/ \E i \in Items : DownloadStart(w, i)
         \/ DownloadCheck(w) \/ DownloadResume(w) \/ DownloadDecline(w) \/ DownloadHandoff(w)
         \/ DownloadHandoffFail(w) \/ DownloadRemove(w) \/ DownloadCrash(w)
  PROVE  Typed'
<1> USE DEF Typed, TypeOK, HoldsItem, uploadVars, otherVars, budgets
<1> DEFINE j == dw[w].item
<1>0. /\ j \in Items =>
           /\ Completed(dq[j], w) \in Job(DWorkers)
           /\ AttemptFailed(dq[j], w) \in Job(DWorkers)
           /\ Enqueued(uq[j]) \in Job(UWorkers)
      /\ IdleD.pc = "idle" /\ IdleD.token = NoStamp
  BY JobTypes, EnqueuedType DEF IdleD
<1>1. CASE \E i \in Items : DownloadStart(w, i)
  <2> PICK i \in Items : DownloadStart(w, i)
    BY <1>1
  <2>1. /\ Taken(dq[i], w) \in Job(DWorkers)
        /\ Completed(Taken(dq[i], w), w) \in Job(DWorkers)
        /\ AttemptFailed(Taken(dq[i], w), w) \in Job(DWorkers)
    BY JobTypes
  <2> DEFINE d == [IdleD EXCEPT !.pc = "read", !.item = i, !.status = row[i].status,
                                !.at = row[i].updatedAt, !.path = row[i].localPath,
                                !.final = Taken(dq[i], w).made + 1 >= MaxAttempts]
  <2>2. d \in Downloader /\ d.item = i
    <3>1. (Taken(dq[i], w).made + 1 >= MaxAttempts) \in BOOLEAN
      OBVIOUS
    <3>2. /\ row[i].status \in Statuses
          /\ row[i].updatedAt \in Stamps0
          /\ row[i].localPath \in BOOLEAN
      BY DEF MediaItem
    <3> QED BY <3>1, <3>2, IdleTypes DEF Downloader, IdleD
  <2>3. dq' \in [Items -> Job(DWorkers)]
    BY <2>1 DEF DownloadStart
  <2>4. dw' = dw \/ dw' = [dw EXCEPT ![w] = d]
    BY DEF DownloadStart
  <2>5. UNCHANGED <<row, groupActive, file, remote, uploadVars, otherVars, budgets>>
    BY DEF DownloadStart
  <2> HIDE DEF d
  <2> QED BY <2>2, <2>3, <2>4, <2>5
<1>2. CASE DownloadResume(w)
  BY <1>0, <1>2, IdleTypes DEF DownloadResume
<1>3. CASE DownloadDecline(w)
  BY <1>0, <1>3, IdleTypes DEF DownloadDecline
<1>4. CASE DownloadHandoff(w)
  BY <1>0, <1>4, IdleTypes DEF DownloadHandoff
<1>5. CASE DownloadHandoffFail(w)
  <2>1. faults' \in 0..MaxFaults /\ replays' \in 0..MaxReplays
    BY <1>5, FaultTypes DEF DownloadHandoffFail
  <2>2. j \in Items /\ "downloaded" \in Statuses /\ NoStamp \in Stamps0
        /\ row[j].localPath \in BOOLEAN
    BY <1>5 DEF DownloadHandoffFail, Statuses, Stamps0, MediaItem
  <2>3. row' \in [Items -> MediaItem]
    BY <1>5, <2>2, WriteTypes DEF DownloadHandoffFail
  <2> QED BY <1>0, <1>5, <2>1, <2>2, <2>3, IdleTypes DEF DownloadHandoffFail
<1>6. CASE DownloadRemove(w)
  BY <1>0, <1>6, IdleTypes DEF DownloadRemove
<1>7. CASE DownloadCrash(w)
  <2>1. faults' \in 0..MaxFaults /\ replays' \in 0..MaxReplays
    BY <1>7, FaultTypes DEF DownloadCrash
  <2> QED BY <1>0, <1>7, <2>1, IdleTypes DEF DownloadCrash
<1>8. CASE DownloadCheck(w)
  <2> PICK pc \in {"resuming", "checked"} : dw' = [dw EXCEPT ![w].path = FALSE, ![w].pc = pc]
    BY <1>8 DEF DownloadCheck
  <2> DEFINE d == [dw[w] EXCEPT !.path = FALSE, !.pc = pc]
  <2>1. d \in Downloader /\ d.item = j
    BY DEF Downloader
  <2>2. dw' = [dw EXCEPT ![w] = d] /\ j \in Items
    BY <1>8 DEF DownloadCheck
  <2> HIDE DEF d
  <2> QED BY <1>8, <2>1, <2>2 DEF DownloadCheck
<1> QED BY <1>1, <1>2, <1>3, <1>4, <1>5, <1>6, <1>7, <1>8

LEMMA DownloadStepTyped ==
  ASSUME Typed, NEW w \in DWorkers,
         \/ DownloadClaim(w) \/ DownloadWrite(w) \/ DownloadWritten(w)
         \/ DownloadTelegramFail(w) \/ DownloadIoFail(w) \/ DownloadPersist(w)
         \/ DownloadRecordFailure(w) \/ DownloadHeartbeat(w)
  PROVE  Typed'
<1> USE DEF Typed, TypeOK, HoldsItem, uploadVars, downloadVars, otherVars, budgets
<1> DEFINE j == dw[w].item
<1>0. j \in Items =>
        /\ row[j].localPath \in BOOLEAN
        /\ row[j].lease \in Stamps0
        /\ Completed(dq[j], w) \in Job(DWorkers)
        /\ AttemptFailed(dq[j], w) \in Job(DWorkers)
  BY JobTypes DEF MediaItem
<1>a. /\ IdleD.pc = "idle" /\ IdleD.token = NoStamp
      /\ {"downloading", "downloaded", "deleted", "failed"} \subseteq Statuses
      /\ NoStamp \in Stamps0 /\ TRUE \in BOOLEAN
      /\ CanStamp(j) => Fresh(j) \in Stamps0
  BY FreshStamp DEF IdleD, Statuses, Stamps0
<1>1. CASE DownloadClaim(w)
  <2>1. j \in Items
    BY <1>1 DEF DownloadClaim
  <2>2. CanStamp(j)
    BY <1>1 DEF DownloadClaim, Write
  <2>3. row' \in [Items -> MediaItem]
    BY <1>0, <1>1, <1>a, <2>1, <2>2, WriteTypes DEF DownloadClaim
  <2> DEFINE d == [dw[w] EXCEPT !.pc = "claimed", !.at = NoStamp, !.token = Fresh(j)]
  <2>4. d \in Downloader /\ d.item = j
    BY <1>a, <2>2 DEF Downloader
  <2>5. dw' = [dw EXCEPT ![w] = d]
    BY <1>1 DEF DownloadClaim
  <2>6. UNCHANGED <<groupActive, file, remote, dq, uploadVars, otherVars, budgets>>
    BY <1>1 DEF DownloadClaim
  <2> HIDE DEF d
  <2> QED BY <2>1, <2>3, <2>4, <2>5, <2>6
<1>2. CASE DownloadWrite(w)
  <2>1. [dw[w] EXCEPT !.pc = "writing"] \in Downloader
    BY DEF Downloader
  <2> QED BY <1>2, <2>1 DEF DownloadWrite, Downloader
<1>3. CASE DownloadWritten(w)
  <2>1. /\ [dw[w] EXCEPT !.pc = "failing"] \in Downloader
        /\ [dw[w] EXCEPT !.pc = "written"] \in Downloader
    BY DEF Downloader
  <2>2. dw' \in [DWorkers -> Downloader]
    BY <1>3, <2>1 DEF DownloadWritten
  <2>3. file' \in [Items -> {"absent", "partial", "whole"}]
    BY <1>3 DEF DownloadWritten
  <2> QED BY <1>3, <2>2, <2>3 DEF DownloadWritten, Downloader
<1>4. CASE DownloadTelegramFail(w)
  <2>1. faults' \in 0..MaxFaults /\ replays' \in 0..MaxReplays
    BY <1>4, FaultTypes DEF DownloadTelegramFail
  <2>2. [dw[w] EXCEPT !.pc = "failing", !.telegram = TRUE] \in Downloader
    BY DEF Downloader
  <2> QED BY <1>4, <2>1, <2>2 DEF DownloadTelegramFail, Downloader
<1>5. CASE DownloadIoFail(w)
  <2>1. faults' \in 0..MaxFaults /\ replays' \in 0..MaxReplays
    BY <1>5, FaultTypes DEF DownloadIoFail
  <2>2. [dw[w] EXCEPT !.pc = "failing"] \in Downloader
    BY DEF Downloader
  <2> QED BY <1>5, <2>1, <2>2 DEF DownloadIoFail, Downloader
<1>6. CASE DownloadPersist(w)
  <2>1. j \in Items
    BY <1>6 DEF DownloadPersist
  <2>2. row' \in [Items -> MediaItem]
    BY <1>6, <1>a, <2>1, WriteTypes DEF DownloadPersist
  <2> DEFINE d == [dw[w] EXCEPT !.pc = "persisted", !.token = NoStamp, !.at = Fresh(j)]
  <2>3. CanStamp(j) => d \in Downloader
    BY <1>a DEF Downloader
  <2>4. d.item = j
    BY DEF Downloader
  <2>5. dw' = [dw EXCEPT ![w] = IdleD] \/ (CanStamp(j) /\ dw' = [dw EXCEPT ![w] = d])
    BY <1>6 DEF DownloadPersist, Write
  <2>6. dq' \in [Items -> Job(DWorkers)]
    BY <1>0, <1>6, <2>1 DEF DownloadPersist
  <2> HIDE DEF d
  <2> QED BY <1>6, <1>a, <2>1, <2>2, <2>3, <2>4, <2>5, <2>6, IdleTypes DEF DownloadPersist
<1>7. CASE DownloadRecordFailure(w)
  <2>1. j \in Items
    BY <1>7 DEF DownloadRecordFailure
  <2>2. row' \in [Items -> MediaItem]
    <3>1. \A s \in {"deleted", "failed"} :
            Write(j, s, NoStamp, row[j].localPath) => row' \in [Items -> MediaItem]
      BY <1>0, <1>a, <2>1, WriteTypes
    <3>2. UNCHANGED row \/ \E s \in {"deleted", "failed"} : Write(j, s, NoStamp, row[j].localPath)
      BY <1>7 DEF DownloadRecordFailure
    <3> QED BY <3>1, <3>2
  <2> DEFINE d == [dw[w] EXCEPT !.pc = "removing", !.token = NoStamp]
  <2>3. d \in Downloader /\ d.item = j
    BY <1>a DEF Downloader
  <2>4. dw' = [dw EXCEPT ![w] = IdleD] \/ dw' = [dw EXCEPT ![w] = d]
    BY <1>7 DEF DownloadRecordFailure
  <2>5. dq' \in [Items -> Job(DWorkers)]
    BY <1>0, <1>7, <2>1 DEF DownloadRecordFailure
  <2>6. UNCHANGED <<groupActive, file, remote, uploadVars, otherVars, budgets>>
    BY <1>7 DEF DownloadRecordFailure
  <2> HIDE DEF d
  <2> QED BY <1>a, <2>1, <2>2, <2>3, <2>4, <2>5, <2>6, IdleTypes
<1>8. CASE DownloadHeartbeat(w)
  <2>1. j \in Items
    BY <1>8 DEF DownloadHeartbeat
  <2>2. row' \in [Items -> MediaItem]
    BY <1>0, <1>8, <1>a, <2>1, WriteTypes DEF DownloadHeartbeat
  <2> QED BY <1>8, <2>2 DEF DownloadHeartbeat
<1> QED BY <1>1, <1>2, <1>3, <1>4, <1>5, <1>6, <1>7, <1>8

LEMMA ThrowTyped ==
  ASSUME Typed, NEW u \in UWorkers, uw[u].pc # "idle", Throw(u)
  PROVE  /\ uq' \in [Items -> Job(UWorkers)]
         /\ failEvents' \in [Items -> Nat]
         /\ uw' = [uw EXCEPT ![u] = IdleU]
<1> DEFINE j == uw[u].item
<1>1. j \in Items
  BY DEF Typed, HoldsItem
<1>2. AttemptFailed(uq[j], u) \in Job(UWorkers)
  BY <1>1, JobTypes DEF Typed, TypeOK
<1> QED BY <1>1, <1>2 DEF Typed, TypeOK, Throw

LEMMA UploadTyped ==
  ASSUME Typed, NEW u \in UWorkers,
         \/ \E i \in Items : UploadStart(u, i)
         \/ UploadSkip(u) \/ UploadRefuse(u) \/ UploadMark(u) \/ UploadCopy(u)
         \/ UploadMissing(u) \/ UploadStore(u) \/ UploadFinish(u)
         \/ UploadDriveFail(u) \/ UploadIoFail(u) \/ UploadCrash(u)
  PROVE  Typed'
<1> USE DEF Typed, TypeOK, HoldsItem, downloadVars, otherVars, budgets
<1> DEFINE j == uw[u].item
<1>0. /\ j \in Items => /\ row[j].localPath \in BOOLEAN
                        /\ row[j].lease \in Stamps0
                        /\ Completed(uq[j], u) \in Job(UWorkers)
      /\ IdleU.pc = "idle"
      /\ {"skipped", "uploading", "uploaded"} \subseteq Statuses
  BY JobTypes DEF IdleU, Statuses, MediaItem
<1>1. CASE \E i \in Items : UploadStart(u, i)
  <2> PICK i \in Items : UploadStart(u, i)
    BY <1>1
  <2>1. faults' \in 0..MaxFaults /\ replays' \in 0..MaxReplays
    BY FaultTypes DEF UploadStart
  <2> DEFINE d == [pc |-> "read", item |-> i, path |-> row[i].localPath]
  <2>2. d \in Uploader /\ d.item = i
    BY DEF Uploader, MediaItem
  <2>3. uq' \in [Items -> Job(UWorkers)]
    BY JobTypes, NoJobType DEF UploadStart
  <2>4. uw' = uw \/ uw' = [uw EXCEPT ![u] = d]
    BY DEF UploadStart
  <2>5. UNCHANGED <<row, groupActive, file, remote, downloadVars, failEvents, otherVars>>
    BY DEF UploadStart
  <2> HIDE DEF d
  <2> QED BY <2>1, <2>2, <2>3, <2>4, <2>5
<1>2. CASE UploadSkip(u)
  <2>1. j \in Items
    BY <1>2 DEF UploadSkip
  <2>2. row' \in [Items -> MediaItem]
    BY <1>0, <1>2, <2>1, WriteTypes DEF UploadSkip
  <2> QED BY <1>0, <1>2, <2>1, <2>2, IdleTypes DEF UploadSkip
<1>3. CASE UploadRefuse(u)
  BY <1>0, <1>3, ThrowTyped, IdleTypes DEF UploadRefuse
<1>4. CASE UploadMark(u)
  <2>1. j \in Items
    BY <1>4 DEF UploadMark
  <2>2. row' \in [Items -> MediaItem]
    BY <1>0, <1>4, <2>1, WriteTypes DEF UploadMark
  <2>3. [uw[u] EXCEPT !.pc = "marked"] \in Uploader
    BY DEF Uploader
  <2> QED BY <1>4, <2>1, <2>2, <2>3 DEF UploadMark, Uploader
<1>5. CASE UploadCopy(u)
  <2>1. j \in Items
    BY <1>5 DEF UploadCopy
  <2>2. remote' \in [Items -> Remote]
    <3>1. [copies |-> IF Overwrites \/ remote[j].copies = 0 THEN 1 ELSE 2,
           whole |-> remote[j].whole /\ file[j] = "whole"] \in Remote
      BY DEF Remote
    <3> QED BY <1>5, <2>1, <3>1 DEF UploadCopy
  <2>3. [uw[u] EXCEPT !.pc = "copied"] \in Uploader
    BY DEF Uploader
  <2> QED BY <1>5, <2>1, <2>2, <2>3 DEF UploadCopy, Uploader
<1>6. CASE UploadMissing(u)
  BY <1>0, <1>6, ThrowTyped, IdleTypes DEF UploadMissing
<1>7. CASE UploadStore(u)
  <2>1. j \in Items /\ CanStamp(j)
    BY <1>7 DEF UploadStore
  <2> DEFINE r == [row[j] EXCEPT !.status = "uploaded", !.driveFileId = TRUE,
                                 !.updatedAt = Fresh(j), !.age = "young"]
  <2>2. r \in MediaItem
    <3>1. Fresh(j) \in Stamps0
      BY <2>1, FreshStamp DEF Stamps0
    <3>2. row[j] \in MediaItem /\ "young" \in Ages /\ "uploaded" \in Statuses
      BY <2>1 DEF Ages, Statuses
    <3> QED BY <3>1, <3>2 DEF MediaItem
  <2>3. row' = [row EXCEPT ![j] = r]
    BY <1>7 DEF UploadStore
  <2>4. [uw[u] EXCEPT !.pc = "stored"] \in Uploader
    BY DEF Uploader
  <2> HIDE DEF r
  <2> QED BY <1>7, <2>1, <2>2, <2>3, <2>4 DEF UploadStore, Uploader
<1>8. CASE UploadFinish(u)
  <2>1. file' \in [Items -> {"absent", "partial", "whole"}]
    BY <1>8 DEF UploadFinish
  <2> QED BY <1>0, <1>8, <2>1, IdleTypes DEF UploadFinish
<1>9. CASE UploadDriveFail(u)
  <2>1. faults' \in 0..MaxFaults /\ replays' \in 0..MaxReplays
    BY <1>9, FaultTypes DEF UploadDriveFail
  <2> QED BY <1>0, <1>9, <2>1, ThrowTyped, IdleTypes DEF UploadDriveFail
<1>10. CASE UploadIoFail(u)
  <2>1. faults' \in 0..MaxFaults /\ replays' \in 0..MaxReplays
    BY <1>10, FaultTypes DEF UploadIoFail
  <2> QED BY <1>0, <1>10, <2>1, ThrowTyped, IdleTypes DEF UploadIoFail
<1>11. CASE UploadCrash(u)
  <2>1. faults' \in 0..MaxFaults /\ replays' \in 0..MaxReplays
    BY <1>11, FaultTypes DEF UploadCrash
  <2> QED BY <1>0, <1>11, <2>1, IdleTypes DEF UploadCrash
<1> QED BY <1>1, <1>2, <1>3, <1>4, <1>5, <1>6, <1>7, <1>8, <1>9, <1>10, <1>11

LEMMA QueueTyped ==
  ASSUME Typed, NEW i \in Items,
         DownloadStall(i) \/ UploadStall(i) \/ failJob(i) \/ Age(i) \/ CleanupStep(i)
  PROVE  Typed'
<1> USE DEF Typed, TypeOK, HoldsItem, downloadVars, uploadVars, otherVars, budgets
<1>0. Stalled(dq[i]) \in Job(DWorkers) /\ Stalled(uq[i]) \in Job(UWorkers)
  BY StalledType
<1>1. CASE DownloadStall(i)
  <2>1. faults' \in 0..MaxFaults /\ replays' \in 0..MaxReplays
    BY <1>1, FaultTypes DEF DownloadStall
  <2> QED BY <1>0, <1>1, <2>1 DEF DownloadStall
<1>2. CASE UploadStall(i)
  <2>1. faults' \in 0..MaxFaults /\ replays' \in 0..MaxReplays
    BY <1>2, FaultTypes DEF UploadStall
  <2> QED BY <1>0, <1>2, <2>1 DEF UploadStall
<1>3. CASE failJob(i)
  <2>1. /\ "failed" \in Statuses /\ row[i].lease \in Stamps0
        /\ row[i].localPath \in BOOLEAN
    BY DEF Statuses, MediaItem
  <2>2. row' \in [Items -> MediaItem]
    BY <1>3, <2>1, WriteTypes DEF failJob
  <2>3. failEvents' \in [Items -> Nat]
    BY <1>3 DEF failJob
  <2> QED BY <1>3, <2>2, <2>3 DEF failJob
<1>4. CASE Age(i)
  <2>1. faults' \in 0..MaxFaults /\ replays' \in 0..MaxReplays
    <3>1. UNCHANGED budgets \/ Unless("slow", ~Leased(i) /\ ~InStep(i))
      BY <1>4 DEF Age
    <3> QED BY <3>1, FaultTypes
  <2>2. /\ [row[i] EXCEPT !.age = "stale"] \in MediaItem
        /\ [row[i] EXCEPT !.age = "old"] \in MediaItem
    BY DEF MediaItem, Ages
  <2>3. row' \in [Items -> MediaItem]
    <3>1. \/ row' = [row EXCEPT ![i] = [row[i] EXCEPT !.age = "stale"]]
          \/ row' = [row EXCEPT ![i] = [row[i] EXCEPT !.age = "old"]]
      BY <1>4 DEF Age
    <3> QED BY <2>2, <3>1
  <2> QED BY <1>4, <2>1, <2>3 DEF Age
<1>5. CASE CleanupStep(i)
  <2>1. [row[i] EXCEPT !.localPath = FALSE] \in MediaItem
    <3>1. row[i] \in MediaItem /\ FALSE \in BOOLEAN
      OBVIOUS
    <3> QED BY <3>1 DEF MediaItem
  <2>2. CASE CleanupList(i)
    BY <2>2 DEF CleanupList
  <2>3. CASE CleanupRemove(i)
    BY <2>3 DEF CleanupRemove
  <2>4. CASE CleanupForget(i)
    BY <2>1, <2>4 DEF CleanupForget
  <2> QED BY <1>5, <2>2, <2>3, <2>4 DEF CleanupStep
<1> QED BY <1>1, <1>2, <1>3, <1>4, <1>5

LEMMA GroupTyped ==
  ASSUME Typed, GroupDeactivate \/ GroupReactivate
  PROVE  Typed'
<1> USE DEF Typed, TypeOK, HoldsItem, downloadVars, uploadVars, otherVars, budgets
<1>1. CASE GroupDeactivate
  <2>1. faults' \in 0..MaxFaults /\ replays' \in 0..MaxReplays
    BY <1>1, FaultTypes DEF GroupDeactivate
  <2> QED BY <1>1, <2>1 DEF GroupDeactivate
<1>2. CASE GroupReactivate
  BY <1>2 DEF GroupReactivate
<1> QED BY <1>1, <1>2

LEMMA DroppedTypes ==
  ASSUME Typed, NEW i \in Items
  PROVE  /\ Dropped(i) \in Sweep /\ Dropped(i).pc = "idle"
         /\ Dropped(i).item = NoItem /\ ~Dropped(i).resume
<1>1. /\ [sweep.status EXCEPT ![i] = "absent"] \in [Items -> Statuses]
      /\ [sweep.at EXCEPT ![i] = NoStamp] \in [Items -> Stamps0]
  BY DEF Typed, TypeOK, Sweep, Statuses, Stamps0
<1> QED BY <1>1, IdleTypes DEF Dropped, Sweep, IdleS

LEMMA SweepTyped ==
  ASSUME Typed, SweepStep \/ SweepIoFail \/ SweepCut
  PROVE  Typed'
<1> USE DEF Typed, TypeOK, HoldsItem, downloadVars, uploadVars, budgets
<1>0. /\ NoStamp \in Stamps0 /\ {"absent", "downloaded", "queued"} \subseteq Statuses
      /\ IdleS.pc = "idle"
  BY DEF Stamps0, Statuses, IdleS
<1>1. CASE SweepSelect
  <2>1. sweep' \in Sweep /\ sweep'.pc = "idle"
    <3>1. [i \in Items |-> IF Stale(i) THEN row[i].status ELSE "absent"] \in [Items -> Statuses]
      BY <1>0 DEF MediaItem
    <3>2. [i \in Items |-> IF Stale(i) THEN row[i].updatedAt ELSE NoStamp] \in [Items -> Stamps0]
      BY <1>0 DEF MediaItem
    <3> QED BY <1>0, <1>1, <3>1, <3>2, IdleTypes DEF SweepSelect, Sweep
  <2> QED BY <1>1, <2>1 DEF SweepSelect
<1>2. CASE \E i \in Items : SweepRead(i)
  <2> PICK i \in Items : SweepRead(i)
    BY <1>2
  <2> DEFINE s == [sweep EXCEPT !.pc = "read", !.item = i, !.seen = row[i].status,
                                !.path = row[i].localPath]
  <2>1. s \in Sweep /\ s.item = i
    <3>1. row[i].status \in Statuses /\ row[i].localPath \in BOOLEAN
      BY DEF MediaItem
    <3> QED BY <3>1 DEF Sweep
  <2>2. sweep' = s \/ sweep' = Dropped(i)
    BY DEF SweepRead
  <2> HIDE DEF s
  <2> QED BY <2>1, <2>2, DroppedTypes DEF SweepRead
<1>3. CASE SweepCheck
  <2> DEFINE b == canResumeUpload(sweep.seen, sweep.path, sweep.item)
             s == [sweep EXCEPT !.pc = "checked", !.seen = "absent", !.path = FALSE, !.resume = b]
  <2>1. s \in Sweep /\ s.item = sweep.item
    <3>1. b \in BOOLEAN
      BY DEF canResumeUpload, Sweep
    <3> HIDE DEF b
    <3> QED BY <1>0, <3>1 DEF Sweep
  <2>2. sweep' = s /\ sweep.item \in Items
    BY <1>3 DEF SweepCheck
  <2> HIDE DEF s
  <2> QED BY <1>3, <2>1, <2>2 DEF SweepCheck
<1>4. CASE SweepClaim
  <2> DEFINE i == sweep.item
             s == [Dropped(i) EXCEPT !.pc = "claimed", !.item = i, !.resume = sweep.resume]
  <2>0. i \in Items /\ row[i].localPath \in BOOLEAN
    BY <1>4 DEF SweepClaim, MediaItem
  <2>1. row' \in [Items -> MediaItem]
    <3>1. \A q \in {"downloaded", "queued"} :
            Write(i, q, NoStamp, row[i].localPath) => row' \in [Items -> MediaItem]
      BY <1>0, <2>0, WriteTypes
    <3>2. UNCHANGED row \/ \E q \in {"downloaded", "queued"} : Write(i, q, NoStamp, row[i].localPath)
      BY <1>4 DEF SweepClaim
    <3> QED BY <3>1, <3>2
  <2>2. s \in Sweep /\ s.item = i
    BY <2>0, DroppedTypes DEF Sweep
  <2>3. sweep' = s \/ sweep' = Dropped(i)
    BY <1>4 DEF SweepClaim
  <2>4. Dropped(i) \in Sweep /\ Dropped(i).pc = "idle"
    BY <2>0, DroppedTypes
  <2>5. UNCHANGED <<groupActive, file, remote, downloadVars, uploadVars, ing, clean, budgets>>
    BY <1>4 DEF SweepClaim
  <2> HIDE DEF s
  <2> QED BY <2>0, <2>1, <2>2, <2>3, <2>4, <2>5
<1>5. CASE SweepEnqueue
  <2>1. sweep.item \in Items
    BY <1>5 DEF SweepEnqueue
  <2>2. dq' \in [Items -> Job(DWorkers)] /\ uq' \in [Items -> Job(UWorkers)]
    BY <1>5, <2>1, EnqueuedType DEF SweepEnqueue
  <2> QED BY <1>5, <2>1, <2>2, DroppedTypes DEF SweepEnqueue
<1>6. CASE SweepIoFail
  <2>1. faults' \in 0..MaxFaults /\ replays' \in 0..MaxReplays
    BY <1>6, FaultTypes DEF SweepIoFail
  <2> QED BY <1>6, <2>1, DroppedTypes DEF SweepIoFail
<1>7. CASE SweepCut
  <2>1. faults' \in 0..MaxFaults /\ replays' \in 0..MaxReplays
    BY <1>7, FaultTypes DEF SweepCut
  <2> QED BY <1>0, <1>7, <2>1, IdleTypes DEF SweepCut
<1> QED BY <1>1, <1>2, <1>3, <1>4, <1>5, <1>6, <1>7 DEF SweepStep

\* Every step of the pipeline keeps the state well typed, and a busy processor
\* always holds the item of its job.
LEMMA StepTyped == Typed /\ [Next]_vars => Typed'
<1> SUFFICES ASSUME Typed, [Next]_vars PROVE Typed'
  OBVIOUS
<1>1. CASE UNCHANGED vars
  BY <1>1 DEF Typed, TypeOK, HoldsItem, vars
<1>2. CASE Next
  <2>1. ASSUME NEW i \in Items,
               \/ IngestUpsert(i) \/ IngestCheck(i) \/ IngestEnqueue(i) \/ IngestFail(i)
               \/ failJob(i) \/ DownloadStall(i) \/ UploadStall(i) \/ Age(i) \/ CleanupStep(i)
        PROVE  Typed'
    BY <2>1, IngestTyped, QueueTyped
  <2>2. ASSUME NEW w \in DWorkers,
               \/ DownloadStep(w) \/ DownloadHeartbeat(w) \/ DownloadTelegramFail(w)
               \/ DownloadIoFail(w) \/ DownloadHandoffFail(w) \/ DownloadCrash(w)
        PROVE  Typed'
    BY <2>2, DownloadTyped, DownloadStepTyped DEF DownloadStep
  <2>3. ASSUME NEW u \in UWorkers,
               UploadStep(u) \/ UploadDriveFail(u) \/ UploadIoFail(u) \/ UploadCrash(u)
        PROVE  Typed'
    BY <2>3, UploadTyped DEF UploadStep
  <2>4. ASSUME SweepStep \/ SweepIoFail \/ SweepCut
        PROVE  Typed'
    BY <2>4, SweepTyped
  <2>5. ASSUME GroupDeactivate \/ GroupReactivate
        PROVE  Typed'
    BY <2>5, GroupTyped
  <2> QED BY <1>2, <2>1, <2>2, <2>3, <2>4, <2>5 DEF Next, FaultStep
<1> QED BY <1>1, <1>2

\* The rows, jobs, files and processors always have the shapes the code gives
\* them: attempts stay below the maximum, a settled job leaves the queue, ...
THEOREM TypeCorrect == Spec => []TypeOK
<1>1. Spec => []Typed
  BY InitTyped, StepTyped, PTL DEF Spec
<1>2. Typed => TypeOK
  BY DEF Typed
<1> QED BY <1>1, <1>2, PTL
----------------------------------------------------------------------------
(* Safety *)

\* No two workers hold the same lease token.
TokensDiffer ==
  \A v, w \in DWorkers : v # w /\ dw[v].token # NoStamp => dw[v].token # dw[w].token

\* A worker about to claim read a row that had work left.  If nobody wrote the
\* row since, it still has the status the worker read, and before the look at the
\* file also no staged path the worker did not see.
ReadsHold ==
  \A w \in DWorkers : dw[w].pc \in {"read", "checked"} =>
    /\ ~DownloadDone(dw[w].status)
    /\ LET r == row[dw[w].item]
       IN  dw[w].at = r.updatedAt => /\ dw[w].status = r.status
                                     /\ dw[w].pc = "read" /\ r.localPath => dw[w].path

\* The sweep selected recoverable rows only, which are not young as long as
\* nobody writes them; and what its second reading says of a row holds as long.
SelectionHolds ==
  /\ \A i \in Items : sweep.status[i] # "absent" =>
       /\ isRecoverableStatus(sweep.status[i])
       /\ sweep.at[i] = row[i].updatedAt => row[i].age # "young"
  /\ sweep.pc \in {"read", "checked"} => sweep.status[sweep.item] # "absent"
  /\ sweep.pc = "idle" => ~sweep.resume
  /\ sweep.pc = "read" =>
       /\ isRecoverableStatus(sweep.seen)
       /\ LET r == row[sweep.item]
          IN  sweep.at[sweep.item] = r.updatedAt => /\ sweep.seen = r.status
                                                    /\ r.localPath => sweep.path

Snapshots == Typed /\ TokensDiffer /\ ReadsHold /\ SelectionHolds

LEMMA InitSnapshots == Init => Snapshots
<1> SUFFICES ASSUME Init PROVE Snapshots
  OBVIOUS
<1>1. \A w \in DWorkers : dw[w].pc = "idle" /\ dw[w].token = NoStamp
  BY DEF Init, IdleD
<1>2. (\A i \in Items : sweep.status[i] = "absent") /\ sweep.pc = "idle" /\ ~sweep.resume
  BY DEF Init, IdleS
<1> QED BY <1>1, <1>2, InitTyped DEF Snapshots, TokensDiffer, ReadsHold, SelectionHolds
----------------------------------------------------------------------------
(* What a step does to the rows *)

\* The effect of a write, on the row it names and on the others.
LEMMA WriteEffect ==
  ASSUME row \in [Items -> MediaItem], NEW i \in Items, NEW s, NEW l, NEW p, Write(i, s, l, p)
  PROVE  /\ row'[i].status = s /\ row'[i].lease = l /\ row'[i].localPath = p
         /\ \A w \in DWorkers : row'[i].updatedAt # dw[w].at
         /\ row'[i].updatedAt # sweep.at[i]
         /\ \A j \in Items \ {i} : row'[j] = row[j]
<1> DEFINE r == [row[i] EXCEPT !.status = s, !.lease = l, !.localPath = p,
                               !.age = "young", !.updatedAt = Fresh(i)]
<1>1. r.status = s /\ r.lease = l /\ r.localPath = p /\ r.updatedAt = Fresh(i)
  BY DEF MediaItem
<1>2. row' = [row EXCEPT ![i] = r]
  BY DEF Write
<1>3. (\A w \in DWorkers : Fresh(i) # dw[w].at) /\ Fresh(i) # sweep.at[i]
  BY FreshStamp DEF Write, InUse
<1> HIDE DEF r
<1> QED BY <1>1, <1>2, <1>3

\* A row's new updatedAt is one no process remembers, or it is the old one; then
\* the row gained no staged path, no fresh age, and no status unless it is new.
Outdates(j) ==
  \/ (\A w \in DWorkers : row'[j].updatedAt # dw[w].at) /\ row'[j].updatedAt # sweep.at[j]
  \/ /\ row'[j].updatedAt = row[j].updatedAt
     /\ row'[j].localPath => row[j].localPath
     /\ row'[j].age = "young" => row[j].age = "young"
     /\ row'[j].status = row[j].status \/ row[j].status = "absent"

\* One step of FinalNotRequeued, for one item.
StaysFinal(j) == row[j].status \in {"uploaded", "deleted"} =>
                   row'[j].status \notin {"queued", "downloading", "downloaded"}
\* Only the cleanup forgets a staged path.
KeepsPath(j) == row[j].localPath => row'[j].localPath \/ clean[j] = "removed"
\* The lease of a download that is heard of stays, unless its owner settles it.
KeepsLease(j) ==
  row[j].status = "downloading" /\ row[j].age = "young" =>
    \/ row'[j].lease = row[j].lease
    \/ \E v \in DWorkers : row[j].lease = dw[v].token /\ dw'[v].token = NoStamp

RowStepOK(j) == Outdates(j) /\ StaysFinal(j) /\ KeepsPath(j) /\ KeepsLease(j)

LEMMA RowKept ==
  ASSUME NEW j, row'[j] = row[j]
  PROVE  RowStepOK(j)
BY DEF RowStepOK, Outdates, StaysFinal, KeepsPath, KeepsLease

\* A write is safe when the values it sets are safe for the row as it is now.
LEMMA WriteOK ==
  ASSUME row \in [Items -> MediaItem], NEW i \in Items, NEW j \in Items,
         NEW s, NEW l, NEW p, Write(i, s, l, p),
         row[i].status \in {"uploaded", "deleted"} =>
           s \notin {"queued", "downloading", "downloaded"},
         row[i].localPath => p,
         row[i].status = "downloading" /\ row[i].age = "young" =>
           \/ l = row[i].lease
           \/ \E v \in DWorkers : row[i].lease = dw[v].token /\ dw'[v].token = NoStamp
  PROVE  RowStepOK(j)
<1>1. CASE j # i
  BY <1>1, WriteEffect, RowKept
<1>2. CASE j = i
  <2>1. /\ row'[i].status = s /\ row'[i].lease = l /\ row'[i].localPath = p
        /\ \A w \in DWorkers : row'[i].updatedAt # dw[w].at
        /\ row'[i].updatedAt # sweep.at[i]
    BY WriteEffect
  <2> QED BY <1>2, <2>1 DEF RowStepOK, Outdates, StaysFinal, KeepsPath, KeepsLease
<1> QED BY <1>1, <1>2

LEMMA IngestRows ==
  ASSUME Snapshots, NEW i \in Items, IngestUpsert(i), NEW j \in Items
  PROVE  RowStepOK(j)
<1> SUFFICES ASSUME row[i].status = "absent",
                    NEW s \in Senders, row' = [row EXCEPT ![i] = [@ EXCEPT !.status = "queued", !.sender = s]]
             PROVE  RowStepOK(j)
  <2>1. CASE UNCHANGED row
    BY <2>1, RowKept
  <2> QED BY <2>1 DEF IngestUpsert
<1> DEFINE r == [row[i] EXCEPT !.status = "queued", !.sender = s]
<1>1. /\ r.status = "queued" /\ r.updatedAt = row[i].updatedAt /\ r.age = row[i].age
      /\ r.localPath = row[i].localPath
  BY DEF Snapshots, Typed, TypeOK, MediaItem
<1>2. row' = [row EXCEPT ![i] = r]
  OBVIOUS
<1> HIDE DEF r
<1> QED BY <1>1, <1>2, RowKept
        DEF Snapshots, Typed, TypeOK, RowStepOK, Outdates, StaysFinal, KeepsPath, KeepsLease

LEMMA DownloadRows ==
  ASSUME Snapshots, NEW w \in DWorkers,
         \/ DownloadClaim(w) \/ DownloadPersist(w) \/ DownloadHandoffFail(w)
         \/ DownloadRecordFailure(w) \/ DownloadHeartbeat(w),
         NEW j \in Items
  PROVE  RowStepOK(j)
<1> DEFINE i == dw[w].item
<1> USE DEF Snapshots, Typed, TypeOK
<1>0. dw[w].pc # "idle" => i \in Items
  BY DEF HoldsItem
<1>1. CASE DownloadClaim(w)
  <2>1. /\ i \in Items /\ dw[w].pc = "checked" /\ ~OwnedElsewhere(dw[w].status)
        /\ Write(i, "downloading", Fresh(i), row[i].localPath)
        /\ Unchanged(i, dw[w].status, dw[w].at)
    BY <1>0, <1>1 DEF DownloadClaim
  <2>2. row[i].status \notin {"uploaded", "deleted", "downloading"}
    BY <2>1 DEF ReadsHold, Unchanged, DownloadDone, OwnedElsewhere
  <2> QED BY <2>1, <2>2, WriteOK
<1>2. CASE DownloadPersist(w)
  <2>1. CASE OwnsLease(w)
    <3> DEFINE d == [dw[w] EXCEPT !.pc = "persisted", !.token = NoStamp, !.at = Fresh(i)]
    <3>1. d.token = NoStamp
      BY DEF Downloader
    <3>2. dw' = [dw EXCEPT ![w] = d]
      BY <1>2, <2>1 DEF DownloadPersist
    <3>3. /\ i \in Items /\ row[i].status = "downloading" /\ row[i].lease = dw[w].token
          /\ Write(i, "downloaded", NoStamp, TRUE)
      BY <1>0, <1>2, <2>1 DEF DownloadPersist, OwnsLease
    <3> HIDE DEF d
    <3>4. dw'[w].token = NoStamp
      BY <3>1, <3>2
    <3> QED BY <3>3, <3>4, WriteOK
  <2>2. CASE ~OwnsLease(w)
    BY <1>2, <2>2, RowKept DEF DownloadPersist
  <2> QED BY <2>1, <2>2
<1>3. CASE DownloadHandoffFail(w)
  <2>1. UNCHANGED row \/ (/\ i \in Items /\ row[i].status = "downloaded"
                          /\ Write(i, "downloaded", NoStamp, row[i].localPath))
    BY <1>0, <1>3 DEF DownloadHandoffFail, Unchanged
  <2> QED BY <2>1, WriteOK, RowKept
<1>4. CASE DownloadRecordFailure(w)
  <2>1. CASE OwnsLease(w)
    <3> DEFINE d == [dw[w] EXCEPT !.pc = "removing", !.token = NoStamp]
    <3>1. d.token = NoStamp /\ IdleD.token = NoStamp
      BY DEF Downloader, IdleD
    <3>2. dw' = [dw EXCEPT ![w] = d] \/ dw' = [dw EXCEPT ![w] = IdleD]
      BY <1>4 DEF DownloadRecordFailure
    <3>3. /\ i \in Items /\ row[i].status = "downloading" /\ row[i].lease = dw[w].token
          /\ \E s \in {"deleted", "failed"} : Write(i, s, NoStamp, row[i].localPath)
      BY <1>0, <1>4, <2>1 DEF DownloadRecordFailure, OwnsLease
    <3> HIDE DEF d
    <3>4. dw'[w].token = NoStamp
      BY <3>1, <3>2
    <3> QED BY <3>3, <3>4, WriteOK
  <2>2. CASE ~OwnsLease(w)
    BY <1>4, <2>2, RowKept DEF DownloadRecordFailure
  <2> QED BY <2>1, <2>2
<1>5. CASE DownloadHeartbeat(w)
  <2>1. /\ i \in Items /\ row[i].status = "downloading"
        /\ Write(i, "downloading", row[i].lease, row[i].localPath)
    BY <1>0, <1>5 DEF DownloadHeartbeat, OwnsLease
  <2> QED BY <2>1, WriteOK, RowKept
<1> QED BY <1>1, <1>2, <1>3, <1>4, <1>5

LEMMA UploadRows ==
  ASSUME Snapshots, NEW u \in UWorkers, UploadSkip(u) \/ UploadMark(u) \/ UploadStore(u),
         NEW j \in Items
  PROVE  RowStepOK(j)
<1> DEFINE i == uw[u].item
<1> USE DEF Snapshots, Typed, TypeOK, RowStepOK, Outdates, StaysFinal, KeepsPath, KeepsLease
<1>0. i \in Items
  BY DEF HoldsItem, UploadSkip, UploadMark, UploadStore
<1>1. CASE UploadSkip(u) \/ UploadMark(u)
  <2>1. \E s \in {"skipped", "uploading"} : Write(i, s, row[i].lease, row[i].localPath)
    BY <1>1 DEF UploadSkip, UploadMark
  <2> QED BY <1>0, <2>1, WriteOK, RowKept
<1>2. CASE UploadStore(u)
  <2> DEFINE r == [row[i] EXCEPT !.status = "uploaded", !.driveFileId = TRUE,
                                 !.updatedAt = Fresh(i), !.age = "young"]
  <2>1. /\ r.status = "uploaded" /\ r.updatedAt = Fresh(i)
        /\ r.localPath = row[i].localPath /\ r.lease = row[i].lease
    BY <1>0 DEF MediaItem
  <2>2. CanStamp(i) /\ row' = [row EXCEPT ![i] = r]
    BY <1>2 DEF UploadStore
  <2>3. (\A w \in DWorkers : Fresh(i) # dw[w].at) /\ Fresh(i) # sweep.at[i]
    BY <2>2, FreshStamp DEF InUse
  <2> HIDE DEF r
  <2> QED BY <1>0, <2>1, <2>2, <2>3, RowKept
<1> QED BY <1>1, <1>2

LEMMA QueueRows ==
  ASSUME Snapshots, NEW i \in Items,
         failJob(i) \/ Age(i) \/ CleanupForget(i),
         NEW j \in Items
  PROVE  RowStepOK(j)
<1> USE DEF Snapshots, Typed, TypeOK
<1>1. CASE failJob(i)
  <2>1. Write(i, "failed", row[i].lease, row[i].localPath)
    BY <1>1 DEF failJob
  <2> QED BY <2>1, WriteOK, RowKept
<1>2. CASE Age(i)
  <2> DEFINE r(a) == [row[i] EXCEPT !.age = a]
  <2>1. \A a : /\ r(a).status = row[i].status /\ r(a).updatedAt = row[i].updatedAt
               /\ r(a).localPath = row[i].localPath /\ r(a).lease = row[i].lease /\ r(a).age = a
    BY DEF MediaItem
  <2>2. row' = [row EXCEPT ![i] = r("stale")] \/ row' = [row EXCEPT ![i] = r("old")]
    BY <1>2 DEF Age
  <2> HIDE DEF r
  <2> QED BY <2>1, <2>2, RowKept DEF RowStepOK, Outdates, StaysFinal, KeepsPath, KeepsLease
<1>3. CASE CleanupForget(i)
  <2> DEFINE r == [row[i] EXCEPT !.localPath = FALSE]
  <2>1. /\ r.status = row[i].status /\ r.updatedAt = row[i].updatedAt /\ ~r.localPath
        /\ r.lease = row[i].lease /\ r.age = row[i].age
    BY DEF MediaItem
  <2>2. row' = [row EXCEPT ![i] = r] /\ clean[i] = "removed"
    BY <1>3 DEF CleanupForget
  <2> HIDE DEF r
  <2> QED BY <2>1, <2>2, RowKept DEF RowStepOK, Outdates, StaysFinal, KeepsPath, KeepsLease
<1> QED BY <1>1, <1>2, <1>3

LEMMA SweepRows ==
  ASSUME Snapshots, SweepClaim, NEW j \in Items
  PROVE  RowStepOK(j)
<1> DEFINE i == sweep.item
<1>1. /\ i \in Items /\ sweep.status[i] # "absent" /\ row \in [Items -> MediaItem]
      /\ isRecoverableStatus(sweep.status[i])
      /\ sweep.at[i] = row[i].updatedAt => row[i].age # "young"
  BY DEF SweepClaim, Snapshots, Typed, TypeOK, HoldsItem, SelectionHolds
<1>2. \/ UNCHANGED row
      \/ /\ Unchanged(i, sweep.status[i], sweep.at[i])
         /\ \E s \in {"downloaded", "queued"} : Write(i, s, NoStamp, row[i].localPath)
  BY DEF SweepClaim
<1>3. Unchanged(i, sweep.status[i], sweep.at[i]) =>
        row[i].status \notin {"uploaded", "deleted"} /\ row[i].age # "young"
  BY <1>1 DEF Unchanged, isRecoverableStatus
<1> QED BY <1>1, <1>2, <1>3, WriteOK, RowKept

\* No step requeues a final row, takes a lease from a download that is heard of, or
\* lets an outdated snapshot of a row pass for the row's present state.
LEMMA RowStep ==
  ASSUME Snapshots, [Next]_vars, NEW j \in Items
  PROVE  RowStepOK(j)
<1>1. CASE UNCHANGED row
  BY <1>1, RowKept
<1>2. CASE \E i \in Items : IngestUpsert(i)
  BY <1>2, IngestRows
<1>3. CASE \E w \in DWorkers : \/ DownloadClaim(w) \/ DownloadPersist(w)
                               \/ DownloadHandoffFail(w) \/ DownloadRecordFailure(w)
                               \/ DownloadHeartbeat(w)
  BY <1>3, DownloadRows
<1>4. CASE \E u \in UWorkers : UploadSkip(u) \/ UploadMark(u) \/ UploadStore(u)
  BY <1>4, UploadRows
<1>5. CASE (\E i \in Items : failJob(i) \/ Age(i) \/ CleanupForget(i)) \/ SweepClaim
  BY <1>5, QueueRows, SweepRows
<1>6. \/ UNCHANGED row
      \/ \E i \in Items : IngestUpsert(i)
      \/ \E w \in DWorkers : \/ DownloadClaim(w) \/ DownloadPersist(w)
                             \/ DownloadHandoffFail(w) \/ DownloadRecordFailure(w)
                             \/ DownloadHeartbeat(w)
      \/ \E u \in UWorkers : UploadSkip(u) \/ UploadMark(u) \/ UploadStore(u)
      \/ \E i \in Items : failJob(i) \/ Age(i) \/ CleanupForget(i)
      \/ SweepClaim
  <2>1. CASE UNCHANGED vars
    BY <2>1 DEF vars
  <2>2. ASSUME NEW i \in Items, \/ IngestCheck(i) \/ IngestEnqueue(i) \/ IngestFail(i)
                                 \/ DownloadStall(i) \/ UploadStall(i)
                                 \/ CleanupList(i) \/ CleanupRemove(i) \/ SweepRead(i)
        PROVE  UNCHANGED row
    BY <2>2 DEF IngestCheck, IngestEnqueue, IngestFail, SweepRead, DownloadStall, UploadStall, CleanupList, CleanupRemove
  <2>3. ASSUME NEW w \in DWorkers,
               \/ \E i \in Items : DownloadStart(w, i)
               \/ DownloadCheck(w) \/ DownloadResume(w) \/ DownloadDecline(w) \/ DownloadWrite(w)
               \/ DownloadWritten(w) \/ DownloadHandoff(w) \/ DownloadRemove(w)
               \/ DownloadTelegramFail(w) \/ DownloadIoFail(w) \/ DownloadCrash(w)
        PROVE  UNCHANGED row
    BY <2>3 DEF DownloadStart, DownloadCheck, DownloadResume, DownloadDecline, DownloadWrite, DownloadWritten,
                DownloadHandoff, DownloadRemove, DownloadTelegramFail, DownloadIoFail, DownloadCrash
  <2>4. ASSUME NEW u \in UWorkers,
               \/ \E i \in Items : UploadStart(u, i)
               \/ UploadRefuse(u) \/ UploadCopy(u) \/ UploadMissing(u) \/ UploadFinish(u)
               \/ UploadDriveFail(u) \/ UploadIoFail(u) \/ UploadCrash(u)
        PROVE  UNCHANGED row
    BY <2>4 DEF UploadStart, UploadRefuse, UploadCopy, UploadMissing, UploadFinish,
                UploadDriveFail, UploadIoFail, UploadCrash
  <2>5. ASSUME SweepSelect \/ SweepCheck \/ SweepEnqueue \/ SweepIoFail \/ SweepCut
                 \/ GroupDeactivate \/ GroupReactivate
        PROVE  UNCHANGED row
    BY <2>5 DEF SweepSelect, SweepCheck, SweepEnqueue, SweepIoFail, SweepCut, GroupDeactivate, GroupReactivate
  <2> QED BY <2>1, <2>2, <2>3, <2>4, <2>5
          DEF Next, FaultStep, DownloadStep, UploadStep, SweepStep, CleanupStep
<1> QED BY <1>1, <1>2, <1>3, <1>4, <1>5, <1>6
----------------------------------------------------------------------------
(* What a step does to the workers and to the sweep *)

\* A worker moves on without reading a row or taking a lease.
MovesOn(v) == \E d : /\ dw' = [dw EXCEPT ![v] = d]
                     /\ d.pc \notin {"read", "checked"}
                     /\ d.token \in {NoStamp, dw[v].token}

LEMMA MovesOnSteps ==
  ASSUME Snapshots, NEW v \in DWorkers,
         \/ DownloadResume(v) \/ DownloadDecline(v) \/ DownloadHandoff(v)
         \/ DownloadHandoffFail(v) \/ DownloadRemove(v) \/ DownloadCrash(v)
         \/ DownloadWrite(v) \/ DownloadWritten(v) \/ DownloadTelegramFail(v)
         \/ DownloadIoFail(v) \/ DownloadPersist(v) \/ DownloadRecordFailure(v)
  PROVE  MovesOn(v)
<1>0. IdleD.pc = "idle" /\ IdleD.token = NoStamp
  BY DEF IdleD
<1>1. CASE dw' = [dw EXCEPT ![v] = IdleD]
  BY <1>0, <1>1 DEF MovesOn
<1>2. ASSUME NEW pc \in {"writing", "written", "failing", "removing"},
             dw' = [dw EXCEPT ![v].pc = pc]
      PROVE  MovesOn(v)
  <2> DEFINE d == [dw[v] EXCEPT !.pc = pc]
  <2>1. d.pc \notin {"read", "checked"} /\ d.token = dw[v].token
    BY DEF Snapshots, Typed, TypeOK, Downloader
  <2>2. dw' = [dw EXCEPT ![v] = d]
    BY <1>2
  <2> HIDE DEF d
  <2> QED BY <2>1, <2>2 DEF MovesOn
<1>3. ASSUME dw' = [dw EXCEPT ![v].pc = "failing", ![v].telegram = TRUE]
      PROVE  MovesOn(v)
  <2> DEFINE d == [dw[v] EXCEPT !.pc = "failing", !.telegram = TRUE]
  <2>1. d.pc \notin {"read", "checked"} /\ d.token = dw[v].token
    BY DEF Snapshots, Typed, TypeOK, Downloader
  <2>2. dw' = [dw EXCEPT ![v] = d]
    BY <1>3 DEF Snapshots, Typed, TypeOK, Downloader
  <2> HIDE DEF d
  <2> QED BY <2>1, <2>2 DEF MovesOn
<1>4. ASSUME NEW at, dw' = [dw EXCEPT ![v].pc = "persisted", ![v].token = NoStamp, ![v].at = at]
      PROVE  MovesOn(v)
  <2> DEFINE d == [dw[v] EXCEPT !.pc = "persisted", !.token = NoStamp, !.at = at]
  <2>1. d.pc \notin {"read", "checked"} /\ d.token = NoStamp
    BY DEF Snapshots, Typed, TypeOK, Downloader
  <2>2. dw' = [dw EXCEPT ![v] = d]
    BY <1>4 DEF Snapshots, Typed, TypeOK, Downloader
  <2> HIDE DEF d
  <2> QED BY <2>1, <2>2 DEF MovesOn
<1>a. ASSUME dw' = [dw EXCEPT ![v].pc = "removing", ![v].token = NoStamp]
      PROVE  MovesOn(v)
  <2> DEFINE d == [dw[v] EXCEPT !.pc = "removing", !.token = NoStamp]
  <2>1. d.pc = "removing" /\ d.token = NoStamp
    BY DEF Snapshots, Typed, TypeOK, Downloader
  <2>2. dw' = [dw EXCEPT ![v] = d]
    BY <1>a DEF Snapshots, Typed, TypeOK, Downloader
  <2> HIDE DEF d
  <2> QED BY <2>1, <2>2 DEF MovesOn
<1>5. CASE DownloadResume(v) \/ DownloadDecline(v) \/ DownloadHandoff(v)
             \/ DownloadHandoffFail(v) \/ DownloadRemove(v) \/ DownloadCrash(v)
  BY <1>1, <1>5 DEF DownloadResume, DownloadDecline, DownloadHandoff, DownloadHandoffFail,
                    DownloadRemove, DownloadCrash
<1>6. CASE DownloadWrite(v) \/ DownloadIoFail(v)
  BY <1>2, <1>6 DEF DownloadWrite, DownloadIoFail
<1>7. CASE DownloadWritten(v)
  <2>1. \E pc \in {"failing", "written"} : dw' = [dw EXCEPT ![v].pc = pc]
    BY <1>7 DEF DownloadWritten
  <2> QED BY <1>2, <2>1
<1>8. CASE DownloadTelegramFail(v)
  BY <1>3, <1>8 DEF DownloadTelegramFail
<1>9. CASE DownloadPersist(v)
  BY <1>1, <1>4, <1>9 DEF DownloadPersist
<1>10. CASE DownloadRecordFailure(v)
  BY <1>1, <1>a, <1>10 DEF DownloadRecordFailure
<1> QED BY <1>5, <1>6, <1>7, <1>8, <1>9, <1>10

LEMMA WorkerCases ==
  ASSUME Snapshots, [Next]_vars
  PROVE  \/ UNCHANGED dw
         \/ \E v \in DWorkers : \/ \E i \in Items : DownloadStart(v, i)
                                \/ DownloadCheck(v) \/ DownloadClaim(v) \/ MovesOn(v)
<1>1. CASE UNCHANGED vars
  BY <1>1 DEF vars
<1>2. ASSUME NEW i \in Items,
             \/ IngestUpsert(i) \/ IngestCheck(i) \/ IngestEnqueue(i) \/ IngestFail(i) \/ failJob(i)
             \/ DownloadStall(i) \/ UploadStall(i) \/ Age(i) \/ CleanupStep(i) \/ SweepRead(i)
      PROVE  UNCHANGED dw
  BY <1>2 DEF IngestUpsert, IngestCheck, IngestEnqueue, IngestFail, failJob, DownloadStall,
              UploadStall, Age, CleanupStep, CleanupList, CleanupRemove, CleanupForget, SweepRead,
              downloadVars
<1>3. ASSUME NEW u \in UWorkers,
             UploadStep(u) \/ UploadDriveFail(u) \/ UploadIoFail(u) \/ UploadCrash(u)
      PROVE  UNCHANGED dw
  BY <1>3 DEF UploadStep, UploadStart, UploadSkip, UploadRefuse, UploadMark, UploadCopy,
              UploadMissing, UploadStore, UploadFinish, UploadDriveFail, UploadIoFail,
              UploadCrash, downloadVars
<1>4. ASSUME SweepSelect \/ SweepCheck \/ SweepClaim \/ SweepEnqueue \/ SweepIoFail \/ SweepCut
               \/ GroupDeactivate \/ GroupReactivate
      PROVE  UNCHANGED dw
  BY <1>4 DEF SweepSelect, SweepCheck, SweepClaim, SweepEnqueue, SweepIoFail, SweepCut, GroupDeactivate,
              GroupReactivate, downloadVars
<1>5. ASSUME NEW v \in DWorkers, DownloadHeartbeat(v)
      PROVE  UNCHANGED dw
  BY <1>5 DEF DownloadHeartbeat, downloadVars
<1>6. ASSUME NEW v \in DWorkers,
             \/ DownloadStep(v) \/ DownloadTelegramFail(v) \/ DownloadIoFail(v)
             \/ DownloadHandoffFail(v) \/ DownloadCrash(v)
      PROVE  \/ \E i \in Items : DownloadStart(v, i)
             \/ DownloadCheck(v) \/ DownloadClaim(v) \/ MovesOn(v)
  BY <1>6, MovesOnSteps DEF DownloadStep
<1> QED BY <1>1, <1>2, <1>3, <1>4, <1>5, <1>6 DEF Next, FaultStep, SweepStep

\* Processor v reads the row of item i as it is.
LEMMA StartReads ==
  ASSUME Snapshots, NEW v \in DWorkers, NEW i \in Items, DownloadStart(v, i)
  PROVE  /\ UNCHANGED row
         /\ \/ UNCHANGED dw
            \/ \E d : /\ dw' = [dw EXCEPT ![v] = d]
                      /\ d.item = i /\ d.token = NoStamp
                      /\ d.path = row[i].localPath /\ d.status = row[i].status
                      /\ ~DownloadDone(d.status)
<1> DEFINE d == [IdleD EXCEPT !.pc = "read", !.item = i, !.status = row[i].status,
                              !.at = row[i].updatedAt, !.path = row[i].localPath,
                              !.final = Taken(dq[i], v).made + 1 >= MaxAttempts]
<1>1. /\ d.item = i /\ d.token = NoStamp /\ d.path = row[i].localPath
      /\ d.status = row[i].status
  BY DEF IdleD
<1>2. UNCHANGED dw \/ (dw' = [dw EXCEPT ![v] = d] /\ ~DownloadDone(row[i].status))
  BY DEF DownloadStart
<1>3. UNCHANGED row
  BY DEF DownloadStart
<1> HIDE DEF d
<1> QED BY <1>1, <1>2, <1>3

\* A look at the staged file leaves the worker with what it read of the row.
LEMMA CheckEffect ==
  ASSUME Typed, NEW v \in DWorkers, DownloadCheck(v)
  PROVE  /\ dw[v].pc = "read" /\ UNCHANGED row
         /\ \E d : /\ dw' = [dw EXCEPT ![v] = d]
                   /\ d.pc = IF canResumeUpload(dw[v].status, dw[v].path, dw[v].item)
                             THEN "resuming" ELSE "checked"
                   /\ d.item = dw[v].item /\ d.status = dw[v].status /\ d.at = dw[v].at
                   /\ d.token = dw[v].token /\ ~d.path
<1> DEFINE pc == IF canResumeUpload(dw[v].status, dw[v].path, dw[v].item)
                 THEN "resuming" ELSE "checked"
<1>1. dw[v].pc = "read" /\ UNCHANGED row /\ dw' = [dw EXCEPT ![v].path = FALSE, ![v].pc = pc]
  BY DEF DownloadCheck
<1> HIDE DEF pc
<1> DEFINE d == [dw[v] EXCEPT !.path = FALSE, !.pc = pc]
<1>2. /\ d.pc = pc /\ d.item = dw[v].item /\ d.status = dw[v].status /\ d.at = dw[v].at
      /\ d.token = dw[v].token /\ ~d.path
  BY DEF Typed, TypeOK, Downloader
<1>3. dw' = [dw EXCEPT ![v] = d]
  BY <1>1 DEF Typed, TypeOK, Downloader
<1> HIDE DEF d
<1> QED BY <1>1, <1>2, <1>3 DEF pc

LEMMA TokensStep == Snapshots /\ [Next]_vars => TokensDiffer'
<1> SUFFICES ASSUME Snapshots, [Next]_vars PROVE TokensDiffer'
  OBVIOUS
<1> USE DEF Snapshots, Typed, TypeOK, TokensDiffer
<1>1. CASE UNCHANGED dw
  BY <1>1
<1>2. ASSUME NEW v \in DWorkers, NEW i \in Items, DownloadStart(v, i)
      PROVE  TokensDiffer'
  BY <1>2, StartReads
<1>3. ASSUME NEW v \in DWorkers, DownloadClaim(v)
      PROVE  TokensDiffer'
  <2> DEFINE i == dw[v].item
             d == [dw[v] EXCEPT !.pc = "claimed", !.at = NoStamp, !.token = Fresh(i)]
  <2>1. d.token = Fresh(i)
    BY DEF Downloader
  <2>2. dw' = [dw EXCEPT ![v] = d]
    BY <1>3 DEF DownloadClaim
  <2>3. \A w \in DWorkers : dw[w].token # Fresh(i)
    BY <1>3, FreshStamp DEF DownloadClaim, Write, InUse
  <2> HIDE DEF d
  <2> QED BY <2>1, <2>2, <2>3
<1>4. ASSUME NEW v \in DWorkers, MovesOn(v)
      PROVE  TokensDiffer'
  BY <1>4 DEF MovesOn
<1>5. ASSUME NEW v \in DWorkers, DownloadCheck(v)
      PROVE  TokensDiffer'
  <2> PICK d : dw' = [dw EXCEPT ![v] = d] /\ d.token = dw[v].token
    BY <1>5, CheckEffect
  <2> QED OBVIOUS
<1> QED BY <1>1, <1>2, <1>3, <1>4, <1>5, WorkerCases

\* What a worker has read holds on as long as nobody writes the row.
ReadHolds(w) ==
  dw[w].pc \in {"read", "checked"} =>
    /\ ~DownloadDone(dw[w].status)
    /\ LET r == row[dw[w].item]
       IN  dw[w].at = r.updatedAt => /\ dw[w].status = r.status
                                     /\ dw[w].pc = "read" /\ r.localPath => dw[w].path

LEMMA ReadsStep == Snapshots /\ [Next]_vars => ReadsHold'
<1> SUFFICES ASSUME Snapshots, [Next]_vars, NEW w \in DWorkers
             PROVE  ReadHolds(w)'
  BY DEF ReadsHold, ReadHolds
<1> USE DEF Snapshots, Typed, TypeOK
<1>1. CASE dw'[w] = dw[w]
  <2> SUFFICES ASSUME dw[w].pc \in {"read", "checked"} PROVE ReadHolds(w)'
    BY <1>1 DEF ReadHolds
  <2>1. dw[w].item \in Items
    BY DEF HoldsItem
  <2>2. Outdates(dw[w].item)
    BY <2>1, RowStep DEF RowStepOK
  <2>3. dw[w].status # "absent"
    BY DEF ReadsHold, DownloadDone
  <2> QED BY <1>1, <2>2, <2>3 DEF ReadsHold, ReadHolds, Outdates
<1>2. ASSUME NEW v \in DWorkers, NEW i \in Items, DownloadStart(v, i), dw'[w] # dw[w]
      PROVE  ReadHolds(w)'
  <2>1. /\ ~DownloadDone(dw'[w].status) /\ dw'[w].status = row[i].status
        /\ dw'[w].item = i /\ UNCHANGED row /\ dw'[w].path = row[i].localPath
    BY <1>2, StartReads
  <2> QED BY <2>1 DEF ReadHolds
<1>3. ASSUME NEW v \in DWorkers, DownloadClaim(v), dw'[w] # dw[w]
      PROVE  ReadHolds(w)'
  <2> DEFINE d == [dw[v] EXCEPT !.pc = "claimed", !.at = NoStamp, !.token = Fresh(dw[v].item)]
  <2>1. d.pc = "claimed"
    BY DEF Downloader
  <2>2. dw' = [dw EXCEPT ![v] = d]
    BY <1>3 DEF DownloadClaim
  <2> HIDE DEF d
  <2>3. dw'[w].pc = "claimed"
    BY <1>3, <2>1, <2>2
  <2> QED BY <2>3 DEF ReadHolds
<1>4. ASSUME NEW v \in DWorkers, MovesOn(v), dw'[w] # dw[w]
      PROVE  ReadHolds(w)'
  <2>1. dw'[w].pc \notin {"read", "checked"}
    BY <1>4 DEF MovesOn
  <2> QED BY <2>1 DEF ReadHolds
<1>5. ASSUME NEW v \in DWorkers, DownloadCheck(v), dw'[w] # dw[w]
      PROVE  ReadHolds(w)'
  <2>1. /\ dw[w].pc = "read" /\ UNCHANGED row /\ dw'[w].pc # "read"
        /\ dw'[w].item = dw[w].item /\ dw'[w].status = dw[w].status /\ dw'[w].at = dw[w].at
    BY <1>5, CheckEffect
  <2> QED BY <2>1 DEF ReadsHold, ReadHolds
<1> QED BY <1>1, <1>2, <1>3, <1>4, <1>5, WorkerCases DEF ReadHolds

\* The steps that change what the sweep remembers.
LEMMA SweepCases ==
  ASSUME [Next]_vars
  PROVE  \/ UNCHANGED sweep \/ sweep' = IdleS \/ SweepSelect
         \/ \E i \in Items : SweepRead(i)
         \/ SweepCheck \/ SweepClaim \/ SweepEnqueue \/ SweepIoFail
<1>1. CASE UNCHANGED vars
  BY <1>1 DEF vars
<1>2. ASSUME NEW i \in Items,
             \/ IngestUpsert(i) \/ IngestCheck(i) \/ IngestEnqueue(i) \/ IngestFail(i)
             \/ failJob(i) \/ DownloadStall(i) \/ UploadStall(i) \/ Age(i) \/ CleanupStep(i)
      PROVE  UNCHANGED sweep
  BY <1>2 DEF IngestUpsert, IngestCheck, IngestEnqueue, IngestFail, failJob, DownloadStall,
              UploadStall, Age, CleanupStep, CleanupList, CleanupRemove, CleanupForget, otherVars
<1>3. ASSUME NEW w \in DWorkers,
             \/ DownloadStep(w) \/ DownloadHeartbeat(w) \/ DownloadTelegramFail(w)
             \/ DownloadIoFail(w) \/ DownloadHandoffFail(w) \/ DownloadCrash(w)
      PROVE  UNCHANGED sweep
  BY <1>3 DEF DownloadStep, DownloadStart, DownloadCheck, DownloadResume, DownloadDecline,
              DownloadClaim, DownloadWrite, DownloadWritten, DownloadPersist, DownloadHandoff,
              DownloadRecordFailure, DownloadRemove, DownloadHeartbeat, DownloadTelegramFail,
              DownloadIoFail, DownloadHandoffFail, DownloadCrash, otherVars
<1>4. ASSUME NEW u \in UWorkers,
             UploadStep(u) \/ UploadDriveFail(u) \/ UploadIoFail(u) \/ UploadCrash(u)
      PROVE  UNCHANGED sweep
  BY <1>4 DEF UploadStep, UploadStart, UploadSkip, UploadRefuse, UploadMark, UploadCopy,
              UploadMissing, UploadStore, UploadFinish, UploadDriveFail, UploadIoFail,
              UploadCrash, otherVars
<1>5. ASSUME GroupDeactivate \/ GroupReactivate
      PROVE  UNCHANGED sweep
  BY <1>5 DEF GroupDeactivate, GroupReactivate, otherVars
<1>6. ASSUME SweepCut
      PROVE  sweep' = IdleS
  BY <1>6 DEF SweepCut
<1> QED BY <1>1, <1>2, <1>3, <1>4, <1>5, <1>6 DEF Next, FaultStep, SweepStep

LEMMA SelectionStep == Snapshots /\ [Next]_vars => SelectionHolds'
<1> SUFFICES ASSUME Snapshots, [Next]_vars PROVE SelectionHolds'
  OBVIOUS
<1> USE DEF Snapshots, Typed, TypeOK, Sweep, SelectionHolds
<1>a. \A i \in Items : Outdates(i)
  BY RowStep DEF RowStepOK
<1>b. \A i \in Items : /\ sweep'.status[i] = sweep.status[i] /\ sweep'.at[i] = sweep.at[i]
                       /\ sweep'.status[i] # "absent"
        => /\ isRecoverableStatus(sweep'.status[i])
           /\ sweep'.at[i] = row'[i].updatedAt => row'[i].age # "young"
  BY <1>a DEF Outdates
<1>1. CASE UNCHANGED sweep
  <2>1. sweep.pc = "read" =>
          LET r == row'[sweep.item]
          IN  sweep.at[sweep.item] = r.updatedAt => /\ sweep.seen = r.status
                                                    /\ r.localPath => sweep.path
    BY <1>a DEF HoldsItem, Outdates, isRecoverableStatus
  <2> QED BY <1>1, <1>b, <2>1
<1>2. CASE sweep' = IdleS
  BY <1>2 DEF IdleS
<1>3. CASE SweepSelect
  <2>1. /\ sweep'.status = [i \in Items |-> IF Stale(i) THEN row[i].status ELSE "absent"]
        /\ sweep'.pc = "idle" /\ ~sweep'.resume /\ UNCHANGED row
    BY <1>3 DEF SweepSelect, IdleS
  <2> QED BY <2>1 DEF Stale
<1>4. ASSUME NEW i \in Items, sweep'.status = Dropped(i).status, sweep'.at = Dropped(i).at,
             sweep'.pc \notin {"read", "checked"}, sweep'.pc = "idle" => ~sweep'.resume
      PROVE  SelectionHolds'
  <2>1. /\ sweep'.status = [sweep.status EXCEPT ![i] = "absent"]
        /\ sweep'.at = [sweep.at EXCEPT ![i] = NoStamp]
    BY <1>4 DEF Dropped, IdleS
  <2> QED BY <1>4, <1>b, <2>1
<1>5. ASSUME NEW i \in Items, sweep' = Dropped(i)
      PROVE  SelectionHolds'
  BY <1>4, <1>5, DroppedTypes
<1>6. ASSUME NEW i \in Items, SweepRead(i)
      PROVE  SelectionHolds'
  <2> DEFINE s == [sweep EXCEPT !.pc = "read", !.item = i, !.seen = row[i].status,
                                !.path = row[i].localPath]
  <2>1. /\ s.status = sweep.status /\ s.at = sweep.at /\ s.item = i /\ s.pc = "read"
        /\ s.seen = row[i].status /\ s.path = row[i].localPath
    OBVIOUS
  <2>2. /\ UNCHANGED row /\ sweep.status[i] # "absent"
        /\ sweep' = Dropped(i) \/ (sweep' = s /\ isRecoverableStatus(row[i].status))
    BY <1>6 DEF SweepRead
  <2> HIDE DEF s
  <2>3. CASE sweep' = s /\ isRecoverableStatus(row[i].status)
    BY <1>b, <2>1, <2>2, <2>3
  <2> QED BY <1>5, <2>2, <2>3
<1>7. CASE SweepCheck
  <2>1. /\ sweep'.status = sweep.status /\ sweep'.at = sweep.at /\ sweep'.item = sweep.item
        /\ sweep'.pc = "checked" /\ sweep.pc = "read"
    BY <1>7 DEF SweepCheck
  <2> QED BY <1>b, <2>1
<1>8. CASE SweepClaim
  <2> DEFINE D == Dropped(sweep.item)
  <2>1. /\ sweep.item \in Items
        /\ \/ sweep' = D
           \/ sweep' = [D EXCEPT !.pc = "claimed", !.item = sweep.item, !.resume = sweep.resume]
    BY <1>8 DEF SweepClaim, HoldsItem
  <2>2. D \in Sweep
    BY <2>1, DroppedTypes
  <2> HIDE DEF D
  <2>3. sweep' # D => sweep'.status = D.status /\ sweep'.at = D.at /\ sweep'.pc = "claimed"
    BY <2>1, <2>2
  <2> QED BY <1>4, <1>5, <2>1, <2>3 DEF D
<1>9. CASE SweepEnqueue \/ SweepIoFail
  <2>1. sweep.item \in Items /\ sweep' = Dropped(sweep.item)
    BY <1>9 DEF SweepEnqueue, SweepIoFail, HoldsItem
  <2> QED BY <1>5, <2>1
<1> QED BY <1>1, <1>2, <1>3, <1>6, <1>7, <1>8, <1>9, SweepCases
----------------------------------------------------------------------------
(* The theorems *)

LEMMA SnapshotsInvariant == Spec => []Snapshots
<1>1. Snapshots /\ [Next]_vars => Snapshots'
  BY StepTyped, TokensStep, ReadsStep, SelectionStep DEF Snapshots
<1> QED BY InitSnapshots, <1>1, PTL DEF Spec

\* Whatever was claimed, stalled, replayed or swept before, and whatever the other
\* workers and the sweep still remember: a download whose heartbeat is heard of
\* loses its lease only by its owner's own completion or failure.
THEOREM LiveDownloads == Spec => LiveDownloadKept
<1>1. ASSUME Snapshots, [Next]_vars, NEW w \in DWorkers,
             dw[w].token # NoStamp, OwnsLease(w), row[dw[w].item].age = "young"
      PROVE  row'[dw[w].item].lease = row[dw[w].item].lease \/ dw'[w].token = NoStamp
  <2>1. dw[w].item \in Items /\ TokensDiffer
    BY <1>1 DEF Snapshots, Typed, HoldsItem
  <2>2. KeepsLease(dw[w].item)
    BY <1>1, <2>1, RowStep DEF RowStepOK
  <2> QED BY <1>1, <2>1, <2>2 DEF KeepsLease, OwnsLease, TokensDiffer
<1>2. Snapshots /\ [Next]_vars =>
        [\A w \in DWorkers : LET i == dw[w].item IN
           dw[w].token # NoStamp /\ OwnsLease(w) /\ row[i].age = "young"
             => row'[i].lease = row[i].lease \/ dw'[w].token = NoStamp]_vars
  BY <1>1
<1> QED BY SnapshotsInvariant, <1>2, PTL DEF Spec, LiveDownloadKept

\* No replay, download job or sweep takes an uploaded or deleted item back.
THEOREM FinalStaysFinal == Spec => FinalNotRequeued
<1>1. Snapshots /\ [Next]_vars =>
        [\A i \in Items : row[i].status \in {"uploaded", "deleted"} =>
           row'[i].status \notin {"queued", "downloading", "downloaded"}]_vars
  BY RowStep DEF RowStepOK, StaysFinal
<1> QED BY SnapshotsInvariant, <1>1, PTL DEF Spec, FinalNotRequeued
----------------------------------------------------------------------------
(* The stages of an item.  Stalls and late timers aside, every job is in one    *)
(* hand, and each item is in one of three stages: its file is not staged yet,   *)
(* staged, or retired after its upload.  The stage says what the file holds and *)
(* what the queues and processors still intend with it, and that is what makes  *)
(* the four theorems about files and phases inductive.                          *)

\* No job stalls under a live processor and no timer is late.
Timely == "stall" \notin FaultKinds /\ "slow" \notin FaultKinds

\* A busy processor holds its job's lock, and an upload worker runs only when
\* the 'failed' handler of the attempt before is through.
DownloaderOwns(w) ==
  dw[w].pc # "idle" => dq[dw[w].item].state = "active" /\ dq[dw[w].item].owner = w
UploaderOwns(u) ==
  uw[u].pc # "idle" => /\ uq[uw[u].item].state = "active" /\ uq[uw[u].item].owner = u
                       /\ failEvents[uw[u].item] = 0
JobsOwned == /\ \A w \in DWorkers : DownloaderOwns(w)
             /\ \A u \in UWorkers : UploaderOwns(u)

\* The item that a busy processor works on.
Downloads(w, i) == dw[w].pc # "idle" /\ dw[w].item = i
Uploads(u, i) == uw[u].pc # "idle" /\ uw[u].item = i

\* A whitelisted sender's item: an upload job only ever skips it.
Exempt(i) == row[i].sender = "whitelisted" /\ row[i].status # "absent"
SkipsOnly(i) == \A u \in UWorkers : Uploads(u, i) => uw[u].pc = "read"

\* Nobody can have heard of a staged file, and whoever says it is written is the
\* only worker of the item.
Unstaged(i) ==
  /\ ~row[i].localPath /\ row[i].age # "old"
  /\ row[i].status \in {"absent", "queued", "downloading", "failed", "deleted"}
  /\ uq[i].state = "none" /\ failEvents[i] = 0 /\ remote[i].copies = 0 /\ clean[i] = "idle"
  /\ ~ing[i].path /\ ing[i].pc # "upload"
  /\ sweep.item = i => ~sweep.path /\ ~sweep.resume
  /\ \A w \in DWorkers : Downloads(w, i) =>
       /\ dw[w].pc \notin {"persisted", "resuming"} /\ ~dw[w].path
       /\ dw[w].pc = "writing" => file[i] = "partial"
       /\ dw[w].pc = "written" => file[i] = "whole"

\* The row points to the staged file, which is whole until an upload worker that
\* stored it has removed it; no worker downloads the item again.
Staged(i) ==
  /\ row[i].localPath /\ row[i].age # "old" /\ clean[i] = "idle"
  /\ row[i].status \in {"downloaded", "uploading", "failed", "uploaded"}
  /\ \A w \in DWorkers : Downloads(w, i) =>
       dw[w].pc \in {"read", "checked", "resuming", "persisted"}
  /\ \A u \in UWorkers : Uploads(u, i) /\ uw[u].pc = "stored" =>
       row[i].status = "uploaded" /\ row[i].driveFileId
  /\ \/ file[i] = "whole"
     \/ /\ row[i].status = "uploaded" /\ row[i].driveFileId
        /\ uq[i].state # "active" /\ failEvents[i] = 0

\* Uploaded hours ago: only the cleanup touches the item.
Retired(i) ==
  /\ row[i].age = "old" /\ row[i].status = "uploaded"
  /\ dq[i].state = "none" /\ uq[i].state = "none" /\ failEvents[i] = 0
  /\ sweep.item # i
  /\ ing[i].pc # "idle" => ing[i].pc = "upserted" /\ ing[i].status = "uploaded"

Stage(i) == IF Exempt(i) THEN SkipsOnly(i) ELSE Unstaged(i) \/ Staged(i) \/ Retired(i)

Staging == JobsOwned /\ (\A i \in Items : Stage(i) /\ remote[i].whole)

\* A worker or a sweep that found no staged file and is about to claim or requeue
\* the row: the row has been written since, or it points to none.
LooksHold ==
  /\ \A w \in DWorkers : LET r == row[dw[w].item] IN
       dw[w].pc = "checked" /\ ~Exempt(dw[w].item) /\ dw[w].at = r.updatedAt => ~r.localPath
  /\ LET r == row[sweep.item] IN
     sweep.pc = "checked" /\ ~sweep.resume /\ ~Exempt(sweep.item)
       /\ sweep.at[sweep.item] = r.updatedAt => ~r.localPath

Calm == Snapshots /\ Staging /\ LooksHold

LEMMA InitCalm == Init => Calm
<1> SUFFICES ASSUME Init PROVE Calm
  OBVIOUS
<1>1. \A w \in DWorkers : dw[w].pc = "idle"
  BY DEF Init, IdleD
<1>2. \A u \in UWorkers : uw[u].pc = "idle"
  BY DEF Init, IdleU
<1>3. ASSUME NEW i \in Items PROVE Unstaged(i) /\ remote[i].whole
  <2>1. /\ ~row[i].localPath /\ row[i].age = "young" /\ row[i].status = "absent"
    BY DEF Init, NoRow
  <2>2. /\ uq[i].state = "none" /\ failEvents[i] = 0 /\ clean[i] = "idle"
        /\ remote[i].copies = 0 /\ remote[i].whole
    BY DEF Init, NoJob
  <2>3. ~ing[i].path /\ ing[i].pc = "idle" /\ ~sweep.resume /\ ~sweep.path
    BY DEF Init, IdleI, IdleS
  <2> QED BY <1>1, <2>1, <2>2, <2>3 DEF Unstaged, Downloads
<1>4. sweep.pc = "idle"
  BY DEF Init, IdleS
<1> QED BY <1>1, <1>2, <1>3, <1>4, InitSnapshots
        DEF Calm, LooksHold, Staging, JobsOwned, DownloaderOwns, UploaderOwns, Stage, Exempt, SkipsOnly, Uploads
----------------------------------------------------------------------------
(* What a step does to a processor and to its job *)

\* A processor goes idle, or stays with its item.
Leaves(w) == dw'[w].pc = "idle" /\ \A v \in DWorkers \ {w} : dw'[v] = dw[v]
GoesTo(w, pc) == /\ dw'[w].pc = pc /\ dw'[w].item = dw[w].item /\ (dw'[w].path => dw[w].path)
                 /\ \A v \in DWorkers \ {w} : dw'[v] = dw[v]

\* Job i of a queue alone changes.
OnlyDq(i) == \A k \in Items \ {i} : dq'[k] = dq[k]
OnlyUq(i) == \A k \in Items \ {i} : uq'[k] = uq[k]

LEMMA LeavesStep ==
  ASSUME dw \in [DWorkers -> Downloader], NEW w \in DWorkers, dw' = [dw EXCEPT ![w] = IdleD]
  PROVE  Leaves(w)
BY DEF Leaves, IdleD

LEMMA GoesToStep ==
  ASSUME dw \in [DWorkers -> Downloader], NEW w \in DWorkers, NEW pc,
         dw' = [dw EXCEPT ![w].pc = pc]
  PROVE  GoesTo(w, pc)
<1> DEFINE d == [dw[w] EXCEPT !.pc = pc]
<1>1. d.pc = pc /\ d.item = dw[w].item /\ d.path = dw[w].path
  BY DEF Downloader
<1>2. dw' = [dw EXCEPT ![w] = d]
  OBVIOUS
<1> HIDE DEF d
<1> QED BY <1>1, <1>2 DEF GoesTo

\* What each step of a download worker does to the worker and to its job.
LEMMA WorkerMoves ==
  ASSUME Typed, NEW w \in DWorkers
  PROVE  /\ DownloadResume(w) \/ DownloadDecline(w) \/ DownloadHandoff(w) \/ DownloadHandoffFail(w)
              \/ DownloadRemove(w) => Leaves(w) /\ OnlyDq(dw[w].item)
         /\ DownloadCrash(w) => Leaves(w) /\ UNCHANGED dq
         /\ DownloadCheck(w) =>
              /\ GoesTo(w, IF canResumeUpload(dw[w].status, dw[w].path, dw[w].item)
                           THEN "resuming" ELSE "checked")
              /\ UNCHANGED dq
         /\ DownloadClaim(w) => GoesTo(w, "claimed") /\ UNCHANGED dq
         /\ DownloadWrite(w) => GoesTo(w, "writing") /\ UNCHANGED dq
         /\ DownloadWritten(w) =>
              GoesTo(w, IF file[dw[w].item] = "absent" THEN "failing" ELSE "written") /\ UNCHANGED dq
         /\ DownloadTelegramFail(w) \/ DownloadIoFail(w) => GoesTo(w, "failing") /\ UNCHANGED dq
         /\ DownloadPersist(w) =>
              IF OwnsLease(w) THEN GoesTo(w, "persisted") /\ UNCHANGED dq
                              ELSE Leaves(w) /\ OnlyDq(dw[w].item)
         /\ DownloadRecordFailure(w) => \/ GoesTo(w, "removing") /\ UNCHANGED dq
                                        \/ Leaves(w) /\ OnlyDq(dw[w].item)
<1> DEFINE i == dw[w].item
<1>a. dw \in [DWorkers -> Downloader] /\ dq \in [Items -> Job(DWorkers)]
  BY DEF Typed, TypeOK
<1>b. ASSUME NEW x, dq' = [dq EXCEPT ![i] = x] PROVE OnlyDq(i)
  BY <1>a, <1>b DEF OnlyDq
<1>c. dw' = [dw EXCEPT ![w] = IdleD] => Leaves(w)
  BY <1>a, LeavesStep
<1>d. ASSUME NEW pc, dw' = [dw EXCEPT ![w].pc = pc] PROVE GoesTo(w, pc)
  BY <1>a, <1>d, GoesToStep
<1>1. DownloadResume(w) \/ DownloadDecline(w) \/ DownloadHandoff(w) \/ DownloadHandoffFail(w)
        \/ DownloadRemove(w) => Leaves(w) /\ OnlyDq(dw[w].item)
  BY <1>b, <1>c DEF DownloadResume, DownloadDecline, DownloadHandoff, DownloadHandoffFail, DownloadRemove
<1>2. DownloadCrash(w) => Leaves(w) /\ UNCHANGED dq
  BY <1>c DEF DownloadCrash
<1>3. DownloadClaim(w) => GoesTo(w, "claimed") /\ UNCHANGED dq
  <2> SUFFICES ASSUME DownloadClaim(w) PROVE GoesTo(w, "claimed") /\ UNCHANGED dq
    OBVIOUS
  <2> DEFINE d == [dw[w] EXCEPT !.pc = "claimed", !.at = NoStamp, !.token = Fresh(i)]
  <2>1. d.pc = "claimed" /\ d.item = dw[w].item /\ d.path = dw[w].path
    BY <1>a DEF Downloader
  <2>2. dw' = [dw EXCEPT ![w] = d] /\ UNCHANGED dq
    BY DEF DownloadClaim
  <2> HIDE DEF d
  <2> QED BY <1>a, <2>1, <2>2 DEF GoesTo
<1>4. DownloadWrite(w) => GoesTo(w, "writing") /\ UNCHANGED dq
  BY <1>d DEF DownloadWrite, uploadVars
<1>5. DownloadWritten(w) =>
        GoesTo(w, IF file[dw[w].item] = "absent" THEN "failing" ELSE "written") /\ UNCHANGED dq
  BY <1>d DEF DownloadWritten
<1>6. DownloadIoFail(w) => GoesTo(w, "failing") /\ UNCHANGED dq
  BY <1>d DEF DownloadIoFail
<1>7. DownloadTelegramFail(w) => GoesTo(w, "failing") /\ UNCHANGED dq
  <2> SUFFICES ASSUME DownloadTelegramFail(w) PROVE GoesTo(w, "failing") /\ UNCHANGED dq
    OBVIOUS
  <2> DEFINE d == [dw[w] EXCEPT !.pc = "failing", !.telegram = TRUE]
  <2>1. d.pc = "failing" /\ d.item = dw[w].item /\ d.path = dw[w].path
    BY <1>a DEF Downloader
  <2>2. dw' = [dw EXCEPT ![w] = d] /\ UNCHANGED dq
    BY <1>a DEF DownloadTelegramFail
  <2> HIDE DEF d
  <2> QED BY <1>a, <2>1, <2>2 DEF GoesTo
<1>8. DownloadPersist(w) =>
        IF OwnsLease(w) THEN GoesTo(w, "persisted") /\ UNCHANGED dq
                        ELSE Leaves(w) /\ OnlyDq(dw[w].item)
  <2> SUFFICES ASSUME DownloadPersist(w), OwnsLease(w)
               PROVE  GoesTo(w, "persisted") /\ UNCHANGED dq
    BY <1>b, <1>c DEF DownloadPersist
  <2> DEFINE d == [dw[w] EXCEPT !.pc = "persisted", !.token = NoStamp, !.at = Fresh(i)]
  <2>1. d.pc = "persisted" /\ d.item = dw[w].item /\ d.path = dw[w].path
    BY <1>a DEF Downloader
  <2>2. dw' = [dw EXCEPT ![w] = d] /\ UNCHANGED dq
    BY <1>a DEF DownloadPersist
  <2> HIDE DEF d
  <2> QED BY <1>a, <2>1, <2>2 DEF GoesTo
<1>9. DownloadRecordFailure(w) => \/ GoesTo(w, "removing") /\ UNCHANGED dq
                                  \/ Leaves(w) /\ OnlyDq(dw[w].item)
  <2> DEFINE d == [dw[w] EXCEPT !.pc = "removing", !.token = NoStamp]
  <2>1. d.pc = "removing" /\ d.item = dw[w].item /\ d.path = dw[w].path
    BY <1>a DEF Downloader
  <2>2. DownloadRecordFailure(w) =>
          \/ dw' = [dw EXCEPT ![w] = d] /\ UNCHANGED dq
          \/ Leaves(w) /\ OnlyDq(dw[w].item)
    BY <1>b, <1>c DEF DownloadRecordFailure
  <2> HIDE DEF d
  <2> QED BY <1>a, <2>1, <2>2 DEF GoesTo
<1>10. DownloadCheck(w) =>
         /\ GoesTo(w, IF canResumeUpload(dw[w].status, dw[w].path, dw[w].item)
                      THEN "resuming" ELSE "checked")
         /\ UNCHANGED dq
  <2> SUFFICES ASSUME DownloadCheck(w)
               PROVE  GoesTo(w, IF canResumeUpload(dw[w].status, dw[w].path, dw[w].item)
                                THEN "resuming" ELSE "checked")
    BY DEF DownloadCheck
  <2> PICK d : /\ dw' = [dw EXCEPT ![w] = d] /\ d.item = dw[w].item /\ ~d.path
               /\ d.pc = IF canResumeUpload(dw[w].status, dw[w].path, dw[w].item)
                         THEN "resuming" ELSE "checked"
    BY CheckEffect
  <2> QED BY <1>a DEF GoesTo
<1> QED BY <1>1, <1>2, <1>3, <1>4, <1>5, <1>6, <1>7, <1>8, <1>9, <1>10

\* A download worker takes a job, or settles it at once.
Begins(w, i) == /\ dw[w].pc = "idle" /\ dq[i].state = "waiting" /\ OnlyDq(i)
                /\ \/ UNCHANGED dw
                   \/ /\ dw'[w].pc = "read" /\ dw'[w].item = i /\ dw'[w].path = row[i].localPath
                      /\ dq'[i].state = "active" /\ dq'[i].owner = w
                      /\ \A v \in DWorkers \ {w} : dw'[v] = dw[v]

LEMMA WorkerBegins ==
  ASSUME Typed, NEW w \in DWorkers, NEW i \in Items, DownloadStart(w, i)
  PROVE  Begins(w, i)
<1> DEFINE d == [IdleD EXCEPT !.pc = "read", !.item = i, !.status = row[i].status,
                              !.at = row[i].updatedAt, !.path = row[i].localPath,
                              !.final = Taken(dq[i], w).made + 1 >= MaxAttempts]
           t == Taken(dq[i], w)
<1>a. dw \in [DWorkers -> Downloader] /\ dq \in [Items -> Job(DWorkers)]
  BY DEF Typed, TypeOK
<1>1. d.pc = "read" /\ d.item = i /\ d.path = row[i].localPath
  BY DEF IdleD
<1>2. t.state = "active" /\ t.owner = w
  BY <1>a DEF Taken, Job
<1>3. dw[w].pc = "idle" /\ dq[i].state = "waiting" /\ OnlyDq(i)
  BY <1>a DEF DownloadStart, OnlyDq
<1>4. UNCHANGED dw \/ (dw' = [dw EXCEPT ![w] = d] /\ dq' = [dq EXCEPT ![i] = t])
  BY DEF DownloadStart
<1> HIDE DEF d, t
<1> QED BY <1>a, <1>1, <1>2, <1>3, <1>4 DEF Begins

\* The same for the upload workers.
ULeaves(u) == uw'[u].pc = "idle" /\ \A v \in UWorkers \ {u} : uw'[v] = uw[v]
UGoesTo(u, pc) == /\ uw'[u].pc = pc /\ uw'[u].item = uw[u].item
                  /\ \A v \in UWorkers \ {u} : uw'[v] = uw[v]
OnlyFailed(i) == \A k \in Items \ {i} : failEvents'[k] = failEvents[k]
UBegins(u, i) == /\ uw[u].pc = "idle" /\ uq[i].state = "waiting" /\ OnlyUq(i)
                 /\ \/ UNCHANGED uw /\ uq'[i].state = "none"
                    \/ /\ uw'[u].pc = "read" /\ uw'[u].item = i
                       /\ uq'[i].state = "active" /\ uq'[i].owner = u
                       /\ ~(row[i].status = "uploaded" /\ row[i].driveFileId)
                       /\ \A v \in UWorkers \ {u} : uw'[v] = uw[v]

LEMMA ULeavesStep ==
  ASSUME uw \in [UWorkers -> Uploader], NEW u \in UWorkers, uw' = [uw EXCEPT ![u] = IdleU]
  PROVE  ULeaves(u)
BY DEF ULeaves, IdleU

LEMMA UGoesToStep ==
  ASSUME uw \in [UWorkers -> Uploader], NEW u \in UWorkers, NEW pc,
         uw' = [uw EXCEPT ![u].pc = pc]
  PROVE  UGoesTo(u, pc)
<1> DEFINE d == [uw[u] EXCEPT !.pc = pc]
<1>1. d.pc = pc /\ d.item = uw[u].item
  BY DEF Uploader
<1>2. uw' = [uw EXCEPT ![u] = d]
  OBVIOUS
<1> HIDE DEF d
<1> QED BY <1>1, <1>2 DEF UGoesTo

LEMMA UploaderBegins ==
  ASSUME Typed, NEW u \in UWorkers, NEW i \in Items, UploadStart(u, i)
  PROVE  UBegins(u, i)
<1> DEFINE d == [pc |-> "read", item |-> i, path |-> row[i].localPath]
           t == Taken(uq[i], u)
<1>a. uw \in [UWorkers -> Uploader] /\ uq \in [Items -> Job(UWorkers)]
  BY DEF Typed, TypeOK
<1>1. d.pc = "read" /\ d.item = i
  OBVIOUS
<1>2. t.state = "active" /\ t.owner = u /\ NoJob.state = "none"
  BY <1>a DEF Taken, Job, NoJob
<1>3. uw[u].pc = "idle" /\ uq[i].state = "waiting" /\ OnlyUq(i)
  BY <1>a DEF UploadStart, OnlyUq
<1>4. \/ /\ UNCHANGED uw /\ uq' = [uq EXCEPT ![i] = NoJob]
      \/ /\ uw' = [uw EXCEPT ![u] = d] /\ uq' = [uq EXCEPT ![i] = t]
         /\ ~(row[i].status = "uploaded" /\ row[i].driveFileId)
  BY DEF UploadStart
<1> HIDE DEF d, t
<1> QED BY <1>a, <1>1, <1>2, <1>3, <1>4 DEF UBegins

\* An attempt that throws: the worker leaves, and its event waits for failJob.
LEMMA ThrowMoves ==
  ASSUME Typed, NEW u \in UWorkers, Throw(u)
  PROVE  ULeaves(u) /\ OnlyUq(uw[u].item) /\ OnlyFailed(uw[u].item)
<1>1. /\ uw \in [UWorkers -> Uploader] /\ uq \in [Items -> Job(UWorkers)]
      /\ failEvents \in [Items -> Nat]
  BY DEF Typed, TypeOK
<1> QED BY <1>1, ULeavesStep DEF Throw, OnlyUq, OnlyFailed

LEMMA UploaderMoves ==
  ASSUME Typed, NEW u \in UWorkers
  PROVE  /\ UploadRefuse(u) \/ UploadMissing(u) \/ UploadDriveFail(u) \/ UploadIoFail(u) =>
              ULeaves(u) /\ OnlyUq(uw[u].item) /\ OnlyFailed(uw[u].item)
         /\ UploadSkip(u) \/ UploadFinish(u) =>
              ULeaves(u) /\ OnlyUq(uw[u].item) /\ UNCHANGED failEvents
         /\ UploadCrash(u) => ULeaves(u) /\ UNCHANGED <<uq, failEvents>>
         /\ UploadMark(u) => UGoesTo(u, "marked") /\ UNCHANGED <<uq, failEvents>>
         /\ UploadCopy(u) => UGoesTo(u, "copied") /\ UNCHANGED <<uq, failEvents>>
         /\ UploadStore(u) => UGoesTo(u, "stored") /\ UNCHANGED <<uq, failEvents>>
<1>a. uw \in [UWorkers -> Uploader] /\ uq \in [Items -> Job(UWorkers)]
  BY DEF Typed, TypeOK
<1>b. uw' = [uw EXCEPT ![u] = IdleU] => ULeaves(u)
  BY <1>a, ULeavesStep
<1>c. ASSUME NEW pc, uw' = [uw EXCEPT ![u].pc = pc] PROVE UGoesTo(u, pc)
  BY <1>a, <1>c, UGoesToStep
<1>1. UploadRefuse(u) \/ UploadMissing(u) \/ UploadDriveFail(u) \/ UploadIoFail(u) =>
        ULeaves(u) /\ OnlyUq(uw[u].item) /\ OnlyFailed(uw[u].item)
  BY ThrowMoves DEF UploadRefuse, UploadMissing, UploadDriveFail, UploadIoFail
<1>2. UploadSkip(u) \/ UploadFinish(u) => ULeaves(u) /\ OnlyUq(uw[u].item) /\ UNCHANGED failEvents
  BY <1>a, <1>b DEF UploadSkip, UploadFinish, OnlyUq
<1>3. UploadCrash(u) => ULeaves(u) /\ UNCHANGED <<uq, failEvents>>
  BY <1>b DEF UploadCrash
<1>4. /\ UploadMark(u) => UGoesTo(u, "marked") /\ UNCHANGED <<uq, failEvents>>
      /\ UploadCopy(u) => UGoesTo(u, "copied") /\ UNCHANGED <<uq, failEvents>>
      /\ UploadStore(u) => UGoesTo(u, "stored") /\ UNCHANGED <<uq, failEvents>>
  BY <1>c DEF UploadMark, UploadCopy, UploadStore
<1> QED BY <1>1, <1>2, <1>3, <1>4
----------------------------------------------------------------------------
(* Every job is in one hand *)

LEMMA DownloadersOwn ==
  ASSUME Typed, JobsOwned, Timely, [Next]_vars, NEW w \in DWorkers
  PROVE  DownloaderOwns(w)'
<1> USE DEF JobsOwned, DownloaderOwns
<1>a. /\ dq \in [Items -> Job(DWorkers)] /\ dw \in [DWorkers -> Downloader] /\ HoldsItem
  BY DEF Typed, TypeOK
<1>1. CASE UNCHANGED <<dq, dw>>
  BY <1>1
<1>2. ASSUME NEW v \in DWorkers, NEW i \in Items, DownloadStart(v, i)
      PROVE  DownloaderOwns(w)'
  <2>1. Begins(v, i)
    BY <1>2, WorkerBegins DEF Snapshots
  <2> QED BY <1>a, <2>1 DEF Begins, OnlyDq, HoldsItem
<1>3. ASSUME NEW v \in DWorkers, dw[v].pc # "idle", Leaves(v), OnlyDq(dw[v].item) \/ UNCHANGED dq
      PROVE  DownloaderOwns(w)'
  BY <1>a, <1>3 DEF Leaves, OnlyDq, HoldsItem
<1>4. ASSUME NEW v \in DWorkers, NEW pc, dw[v].pc # "idle", GoesTo(v, pc), UNCHANGED dq
      PROVE  DownloaderOwns(w)'
  BY <1>a, <1>4 DEF GoesTo
<1>5. ASSUME NEW i \in Items, UNCHANGED dw, dq' = [dq EXCEPT ![i] = Enqueued(@)]
      PROVE  DownloaderOwns(w)'
  BY <1>a, <1>5 DEF Enqueued, HoldsItem
<1>6. ASSUME NEW i \in Items, DownloadStall(i)
      PROVE  DownloaderOwns(w)'
  <2>1. \A v \in DWorkers : dw[v].item = i => dq[i].owner # v
    BY <1>6 DEF DownloadStall, Unless, Fault, Timely
  <2>2. UNCHANGED dw /\ \A k \in Items \ {i} : dq'[k] = dq[k]
    BY <1>a, <1>6 DEF DownloadStall
  <2> QED BY <1>a, <2>1, <2>2 DEF HoldsItem
<1>7. CASE UNCHANGED vars
  BY <1>1, <1>7 DEF vars
<1>8. ASSUME NEW v \in DWorkers, DownloadStep(v)
      PROVE  DownloaderOwns(w)'
  <2>1. CASE \E i \in Items : DownloadStart(v, i)
    BY <1>2, <2>1
  <2>2. CASE DownloadResume(v) \/ DownloadDecline(v) \/ DownloadHandoff(v) \/ DownloadRemove(v)
    <3>1. dw[v].pc # "idle"
      BY <2>2 DEF DownloadResume, DownloadDecline, DownloadHandoff, DownloadRemove
    <3> QED BY <1>3, <2>2, <3>1, WorkerMoves
  <2>3. CASE DownloadCheck(v) \/ DownloadClaim(v) \/ DownloadWrite(v) \/ DownloadWritten(v)
               \/ DownloadPersist(v) \/ DownloadRecordFailure(v)
    <3>1. dw[v].pc # "idle"
      BY <2>3 DEF DownloadCheck, DownloadClaim, DownloadWrite, DownloadWritten, DownloadPersist, DownloadRecordFailure
    <3> QED BY <1>3, <1>4, <2>3, <3>1, WorkerMoves
  <2> QED BY <1>8, <2>1, <2>2, <2>3 DEF DownloadStep
<1>9. ASSUME NEW v \in DWorkers,
             DownloadTelegramFail(v) \/ DownloadIoFail(v) \/ DownloadHandoffFail(v) \/ DownloadCrash(v)
      PROVE  DownloaderOwns(w)'
  <2>1. dw[v].pc # "idle"
    BY <1>9 DEF DownloadTelegramFail, DownloadIoFail, DownloadHandoffFail, DownloadCrash
  <2> QED BY <1>3, <1>4, <1>9, <2>1, WorkerMoves
<1>10. ASSUME NEW i \in Items, IngestEnqueue(i)
       PROVE  DownloaderOwns(w)'
  BY <1>1, <1>5, <1>10 DEF IngestEnqueue
<1>11. CASE SweepEnqueue
  <2>1. sweep.item \in Items
    BY <1>11 DEF SweepEnqueue, Typed, HoldsItem
  <2> QED BY <1>1, <1>5, <1>11, <2>1 DEF SweepEnqueue
<1>12. ASSUME NEW i \in Items,
              \/ IngestUpsert(i) \/ IngestCheck(i) \/ IngestFail(i) \/ failJob(i) \/ UploadStall(i)
              \/ Age(i) \/ CleanupStep(i) \/ SweepRead(i)
       PROVE  UNCHANGED <<dq, dw>>
  BY <1>12 DEF IngestUpsert, IngestCheck, IngestFail, failJob, UploadStall, Age, CleanupStep,
               CleanupList, CleanupRemove, CleanupForget, SweepRead, downloadVars
<1>13. ASSUME NEW u \in UWorkers,
              UploadStep(u) \/ UploadDriveFail(u) \/ UploadIoFail(u) \/ UploadCrash(u)
       PROVE  UNCHANGED <<dq, dw>>
  BY <1>13 DEF UploadStep, UploadStart, UploadSkip, UploadRefuse, UploadMark, UploadCopy,
               UploadMissing, UploadStore, UploadFinish, UploadDriveFail, UploadIoFail,
               UploadCrash, downloadVars
<1>14. ASSUME \/ SweepSelect \/ SweepCheck \/ SweepClaim \/ SweepIoFail \/ SweepCut
              \/ GroupDeactivate \/ GroupReactivate \/ \E v \in DWorkers : DownloadHeartbeat(v)
       PROVE  UNCHANGED <<dq, dw>>
  BY <1>14 DEF SweepSelect, SweepCheck, SweepClaim, SweepIoFail, SweepCut, GroupDeactivate, GroupReactivate,
               DownloadHeartbeat, downloadVars
<1> QED BY <1>1, <1>6, <1>7, <1>8, <1>9, <1>10, <1>11, <1>12, <1>13, <1>14
        DEF Next, FaultStep, SweepStep

LEMMA UploadersOwn ==
  ASSUME Typed, JobsOwned, Timely, [Next]_vars, NEW u \in UWorkers
  PROVE  UploaderOwns(u)'
<1> USE DEF JobsOwned, UploaderOwns
<1>a. /\ uq \in [Items -> Job(UWorkers)] /\ uw \in [UWorkers -> Uploader] /\ HoldsItem
      /\ failEvents \in [Items -> Nat]
  BY DEF Typed, TypeOK
<1>1. CASE UNCHANGED <<uq, uw, failEvents>>
  BY <1>1
<1>2. ASSUME NEW v \in UWorkers, NEW i \in Items, UploadStart(v, i)
      PROVE  UploaderOwns(u)'
  <2>1. UBegins(v, i)
    BY <1>2, UploaderBegins
  <2>2. failEvents[i] = 0 /\ UNCHANGED failEvents
    BY <1>2 DEF UploadStart, Unless, Fault, Timely
  <2> QED BY <1>a, <2>1, <2>2 DEF UBegins, OnlyUq, HoldsItem
<1>3. ASSUME NEW v \in UWorkers, uw[v].pc # "idle", ULeaves(v),
             OnlyUq(uw[v].item) \/ UNCHANGED uq, OnlyFailed(uw[v].item) \/ UNCHANGED failEvents
      PROVE  UploaderOwns(u)'
  BY <1>a, <1>3 DEF ULeaves, OnlyUq, OnlyFailed, HoldsItem
<1>4. ASSUME NEW v \in UWorkers, NEW pc, uw[v].pc # "idle", UGoesTo(v, pc),
             UNCHANGED <<uq, failEvents>>
      PROVE  UploaderOwns(u)'
  BY <1>a, <1>4 DEF UGoesTo
<1>5. ASSUME NEW i \in Items, UNCHANGED <<uw, failEvents>>, uq' = [uq EXCEPT ![i] = Enqueued(@)]
      PROVE  UploaderOwns(u)'
  BY <1>a, <1>5 DEF Enqueued, HoldsItem
<1>6. ASSUME NEW i \in Items, UploadStall(i)
      PROVE  UploaderOwns(u)'
  <2>1. \A v \in UWorkers : uw[v].item = i => uq[i].owner # v
    BY <1>6 DEF UploadStall, Unless, Fault, Timely
  <2>2. /\ UNCHANGED uw
        /\ \A k \in Items \ {i} : uq'[k] = uq[k] /\ failEvents'[k] = failEvents[k]
    BY <1>a, <1>6 DEF UploadStall
  <2> QED BY <1>a, <2>1, <2>2 DEF HoldsItem
<1>7. ASSUME NEW i \in Items, failJob(i)
      PROVE  UploaderOwns(u)'
  <2>1. /\ failEvents[i] # 0 /\ UNCHANGED <<uq, uw>>
        /\ \A k \in Items \ {i} : failEvents'[k] = failEvents[k]
    BY <1>a, <1>7 DEF failJob
  <2> QED BY <1>a, <2>1 DEF HoldsItem
<1>8. CASE UNCHANGED vars
  BY <1>1, <1>8 DEF vars
<1>9. ASSUME NEW v \in UWorkers,
             UploadStep(v) \/ UploadDriveFail(v) \/ UploadIoFail(v) \/ UploadCrash(v)
      PROVE  UploaderOwns(u)'
  <2>1. CASE \E i \in Items : UploadStart(v, i)
    BY <1>2, <2>1
  <2>2. CASE \/ UploadRefuse(v) \/ UploadMissing(v) \/ UploadDriveFail(v) \/ UploadIoFail(v)
             \/ UploadSkip(v) \/ UploadFinish(v) \/ UploadCrash(v)
    <3>1. uw[v].pc # "idle"
      BY <2>2 DEF UploadRefuse, UploadMissing, UploadDriveFail, UploadIoFail, UploadSkip,
                  UploadFinish, UploadCrash
    <3> QED BY <1>3, <2>2, <3>1, UploaderMoves
  <2>3. CASE UploadMark(v) \/ UploadCopy(v) \/ UploadStore(v)
    <3>1. uw[v].pc # "idle"
      BY <2>3 DEF UploadMark, UploadCopy, UploadStore
    <3> QED BY <1>4, <2>3, <3>1, UploaderMoves
  <2> QED BY <1>9, <2>1, <2>2, <2>3 DEF UploadStep
<1>10. ASSUME NEW w \in DWorkers,
              \/ DownloadStep(w) \/ DownloadHeartbeat(w) \/ DownloadTelegramFail(w)
              \/ DownloadIoFail(w) \/ DownloadHandoffFail(w) \/ DownloadCrash(w)
       PROVE  UploaderOwns(u)'
  <2>1. CASE DownloadResume(w) \/ DownloadHandoff(w)
    <3>1. dw[w].item \in Items
      BY <1>a, <2>1 DEF DownloadResume, DownloadHandoff, HoldsItem
    <3> QED BY <1>5, <2>1, <3>1 DEF DownloadResume, DownloadHandoff
  <2>2. CASE ~(DownloadResume(w) \/ DownloadHandoff(w))
    <3>1. UNCHANGED <<uq, uw, failEvents>>
      BY <1>10, <2>2 DEF DownloadStep, DownloadStart, DownloadCheck, DownloadDecline, DownloadClaim, DownloadWrite,
                   DownloadWritten, DownloadPersist, DownloadRecordFailure, DownloadRemove,
                   DownloadHeartbeat, DownloadTelegramFail, DownloadIoFail, DownloadHandoffFail,
                   DownloadCrash, uploadVars
    <3> QED BY <1>1, <3>1
  <2> QED BY <2>1, <2>2
<1>11. ASSUME NEW i \in Items, IngestEnqueue(i)
       PROVE  UploaderOwns(u)'
  BY <1>1, <1>5, <1>11 DEF IngestEnqueue
<1>12. CASE SweepEnqueue
  <2>1. sweep.item \in Items
    BY <1>12 DEF SweepEnqueue, Typed, HoldsItem
  <2> QED BY <1>1, <1>5, <1>12, <2>1 DEF SweepEnqueue
<1>13. ASSUME NEW i \in Items,
              \/ IngestUpsert(i) \/ IngestCheck(i) \/ IngestFail(i) \/ DownloadStall(i) \/ Age(i)
              \/ CleanupStep(i) \/ SweepRead(i)
       PROVE  UNCHANGED <<uq, uw, failEvents>>
  BY <1>13 DEF IngestUpsert, IngestCheck, IngestFail, DownloadStall, Age, CleanupStep, CleanupList,
               CleanupRemove, CleanupForget, SweepRead, uploadVars
<1>14. ASSUME \/ SweepSelect \/ SweepCheck \/ SweepClaim \/ SweepIoFail \/ SweepCut
              \/ GroupDeactivate \/ GroupReactivate
       PROVE  UNCHANGED <<uq, uw, failEvents>>
  BY <1>14 DEF SweepSelect, SweepCheck, SweepClaim, SweepIoFail, SweepCut, GroupDeactivate, GroupReactivate, uploadVars
<1> QED BY <1>1, <1>6, <1>7, <1>8, <1>9, <1>10, <1>11, <1>12, <1>13, <1>14
        DEF Next, FaultStep, SweepStep
----------------------------------------------------------------------------
(* What a step does to the stage of its item, and to the others *)

\* A step leaves an item alone: whoever works on it did so before.
Untouched(k) ==
  /\ row'[k] = row[k] /\ file'[k] = file[k] /\ remote'[k] = remote[k]
  /\ dq'[k] = dq[k] /\ uq'[k] = uq[k] /\ failEvents'[k] = failEvents[k]
  /\ ing'[k] = ing[k] /\ clean'[k] = clean[k]
  /\ sweep'.item = k =>
       sweep.item = k /\ sweep'.path = sweep.path /\ sweep'.resume = sweep.resume
  /\ \A w \in DWorkers : Downloads(w, k)' => dw'[w] = dw[w]
  /\ \A u \in UWorkers : Uploads(u, k)' => uw'[u] = uw[u]

Others(i) == \A k \in Items \ {i} : Untouched(k)

\* One step in the life of an item.
RowLives(i) ==
  /\ row[i].status # "absent" => row'[i].status # "absent" /\ row'[i].sender = row[i].sender
  /\ row[i].status = "absent" => row'[i].status \in {"absent", "queued"}
  /\ row[i].status = "deleted" /\ ~Exempt(i) => row'[i].status = "deleted"
\* Only an upload of a staged item stores something, and what it stores is whole.
StoresWhole(i) ==
  remote'[i] # remote[i] => /\ ~Exempt(i) /\ row[i].status \notin {"absent", "deleted"}
                            /\ remote'[i].copies > 0 /\ remote'[i].whole
KeepsFile(i) ==
  file'[i] # file[i] /\ row[i].localPath /\ ~Exempt(i) => row[i].status = "uploaded"

ItemOK(i) == Stage(i)' /\ RowLives(i) /\ StoresWhole(i) /\ KeepsFile(i)
StepOK(i) == ItemOK(i) /\ Others(i)

LEMMA UntouchedOK ==
  ASSUME NEW i \in Items, Stage(i), Untouched(i)
  PROVE  ItemOK(i)
<1> USE DEF Untouched
<1>1. (Exempt(i)' <=> Exempt(i)) /\ (SkipsOnly(i) => SkipsOnly(i)')
  BY DEF Exempt, SkipsOnly, Uploads
<1>2. Unstaged(i) => Unstaged(i)'
  BY DEF Unstaged, Downloads
<1>3. Staged(i) => Staged(i)'
  BY DEF Staged, Downloads, Uploads
<1>4. Retired(i) => Retired(i)'
  BY DEF Retired
<1> QED BY <1>1, <1>2, <1>3, <1>4 DEF ItemOK, Stage, RowLives, StoresWhole, KeepsFile

\* The parts of the state an item has, as functions.
LEMMA Shapes ==
  ASSUME Typed
  PROVE  /\ row \in [Items -> MediaItem] /\ remote \in [Items -> Remote]
         /\ file \in [Items -> {"absent", "partial", "whole"}]
         /\ dq \in [Items -> Job(DWorkers)] /\ uq \in [Items -> Job(UWorkers)]
         /\ dw \in [DWorkers -> Downloader] /\ uw \in [UWorkers -> Uploader]
         /\ failEvents \in [Items -> Nat] /\ sweep \in Sweep /\ ing \in [Items -> Ingest]
         /\ clean \in [Items -> {"idle", "listed", "removed"}]
BY DEF Typed, TypeOK

LEMMA WriteFields ==
  ASSUME row \in [Items -> MediaItem], NEW i \in Items, NEW s, NEW l, NEW p, Write(i, s, l, p)
  PROVE  /\ row'[i].status = s /\ row'[i].localPath = p /\ row'[i].age = "young"
         /\ row'[i].sender = row[i].sender /\ row'[i].driveFileId = row[i].driveFileId
         /\ \A k \in Items \ {i} : row'[k] = row[k]
<1> DEFINE r == [row[i] EXCEPT !.status = s, !.lease = l, !.localPath = p,
                               !.age = "young", !.updatedAt = Fresh(i)]
<1>1. /\ r.status = s /\ r.localPath = p /\ r.age = "young"
      /\ r.sender = row[i].sender /\ r.driveFileId = row[i].driveFileId
  BY DEF MediaItem
<1>2. row' = [row EXCEPT ![i] = r]
  BY DEF Write
<1> HIDE DEF r
<1> QED BY <1>1, <1>2

LEMMA IngestStage ==
  ASSUME Calm, NEW i \in Items,
         IngestUpsert(i) \/ IngestCheck(i) \/ IngestEnqueue(i) \/ IngestFail(i)
  PROVE  StepOK(i)
<1>a. /\ row \in [Items -> MediaItem] /\ ing \in [Items -> Ingest]
      /\ dq \in [Items -> Job(DWorkers)] /\ uq \in [Items -> Job(UWorkers)] /\ Stage(i)
  BY Shapes DEF Calm, Snapshots, Staging
<1>b. IdleI.pc = "idle" /\ ~IdleI.path
  BY DEF IdleI
<1>1. CASE IngestUpsert(i)
  <2> DEFINE new == [pc |-> "upserted", status |-> "queued", path |-> FALSE]
             old == [pc |-> "upserted", status |-> row[i].status, path |-> row[i].localPath]
  <2>0. /\ new.pc = "upserted" /\ ~new.path
        /\ old.pc = "upserted" /\ old.status = row[i].status /\ old.path = row[i].localPath
    OBVIOUS
  <2>q. IF row[i].status = "absent" THEN ing' = [ing EXCEPT ![i] = new]
                                    ELSE ing' = [ing EXCEPT ![i] = old]
    BY <1>1 DEF IngestUpsert
  <2> HIDE DEF new, old
  <2>1. /\ UNCHANGED <<file, remote, dq, uq, dw, uw, failEvents, sweep, clean>>
        /\ ing'[i].pc = "upserted" /\ \A k \in Items \ {i} : ing'[k] = ing[k]
    <3>1. UNCHANGED <<file, remote, dq, uq, dw, uw, failEvents, sweep, clean>>
      BY <1>1 DEF IngestUpsert, downloadVars, uploadVars
    <3> QED BY <1>a, <2>0, <2>q, <3>1
  <2>2. CASE row[i].status # "absent"
    <3>1. /\ UNCHANGED row /\ ing'[i].path = row[i].localPath
          /\ ing'[i].status = row[i].status
      <4>1. UNCHANGED row
        BY <1>1, <2>2 DEF IngestUpsert
      <4> QED BY <1>a, <2>0, <2>q, <2>2, <4>1
    <3>2. Others(i)
      BY <2>1, <3>1 DEF Others, Untouched
    <3>3. Stage(i)'
      BY <1>a, <2>1, <3>1 DEF Stage, Exempt, SkipsOnly, Uploads, Downloads, Unstaged, Staged, Retired
    <3> QED BY <2>1, <3>1, <3>2, <3>3 DEF StepOK, ItemOK, RowLives, StoresWhole, KeepsFile
  <2>3. CASE row[i].status = "absent"
    <3>1. /\ row'[i].status = "queued" /\ row'[i].localPath = row[i].localPath
          /\ row'[i].age = row[i].age
          /\ \A k \in Items \ {i} : row'[k] = row[k]
      <4> PICK s \in Senders : row' = [row EXCEPT ![i] = [@ EXCEPT !.status = "queued", !.sender = s]]
        BY <1>1, <2>3 DEF IngestUpsert
      <4> DEFINE r == [row[i] EXCEPT !.status = "queued", !.sender = s]
      <4>1. r.status = "queued" /\ r.localPath = row[i].localPath /\ r.age = row[i].age
        BY <1>a DEF MediaItem
      <4>2. row' = [row EXCEPT ![i] = r]
        OBVIOUS
      <4> HIDE DEF r
      <4> QED BY <1>a, <4>1, <4>2
    <3>2. ~ing'[i].path
      BY <1>a, <2>0, <2>q, <2>3
    <3>3. Others(i)
      BY <2>1, <3>1 DEF Others, Untouched
    <3>4. Unstaged(i)
      BY <1>a, <2>3 DEF Stage, Exempt, Staged, Retired
    <3>5. Unstaged(i)'
      BY <2>1, <3>1, <3>2, <3>4 DEF Unstaged, Downloads
    <3>6. SkipsOnly(i)'
      BY <2>1, <3>4 DEF Unstaged, SkipsOnly, Uploads, Calm, Staging, JobsOwned, UploaderOwns
    <3> QED BY <2>1, <2>3, <3>1, <3>3, <3>5, <3>6
            DEF StepOK, ItemOK, Stage, RowLives, StoresWhole, KeepsFile
  <2> QED BY <2>2, <2>3
<1>2. CASE IngestEnqueue(i) \/ IngestFail(i)
  <2>1. /\ UNCHANGED <<row, file, remote, dw, uw, failEvents, sweep, clean>>
        /\ ing'[i] = IdleI /\ \A k \in Items \ {i} : ing'[k] = ing[k]
        /\ ing[i].pc # "idle"
    BY <1>a, <1>2 DEF IngestEnqueue, IngestFail, downloadVars, uploadVars
  <2>2. /\ OnlyDq(i) /\ OnlyUq(i)
        /\ UNCHANGED uq \/ (ing[i].pc = "upload" /\ uq'[i] = Enqueued(uq[i]))
        /\ ing[i].pc = "upserted" => UNCHANGED <<dq, uq>>
    BY <1>a, <1>2 DEF IngestEnqueue, IngestFail, OnlyDq, OnlyUq, downloadVars, uploadVars
  <2>3. Enqueued(uq[i]).state # "active" \/ Enqueued(uq[i]) = uq[i]
    BY <1>a DEF Enqueued, NoJob, Job
  <2>4. Others(i)
    BY <2>1, <2>2 DEF Others, Untouched, OnlyDq, OnlyUq
  <2>5. Exempt(i) /\ SkipsOnly(i) => Exempt(i)' /\ SkipsOnly(i)'
    BY <2>1 DEF Exempt, SkipsOnly, Uploads
  <2>6. Unstaged(i) => Unstaged(i)'
    BY <1>b, <2>1, <2>2 DEF Unstaged, Downloads
  <2>7. Staged(i) => Staged(i)'
    BY <2>1, <2>2, <2>3 DEF Staged, Downloads, Uploads
  <2>8. Retired(i) => Retired(i)'
    BY <1>b, <2>1, <2>2 DEF Retired
  <2>9. Stage(i)'
    BY <1>a, <2>1, <2>5, <2>6, <2>7, <2>8 DEF Stage, Exempt
  <2> QED BY <2>1, <2>4, <2>9 DEF StepOK, ItemOK, RowLives, StoresWhole, KeepsFile
<1>3. CASE IngestCheck(i)
  <2> PICK pc : /\ ing' = [ing EXCEPT ![i] = [IdleI EXCEPT !.pc = pc]]
                /\ pc = "upload" => ing[i].path
                /\ ing[i].status = "uploaded" => pc = "idle"
    BY <1>3 DEF IngestCheck, canResumeUpload
  <2>1. /\ UNCHANGED <<row, file, remote, dq, uq, dw, uw, failEvents, sweep, clean>>
        /\ ing'[i].pc = pc /\ ~ing'[i].path /\ \A k \in Items \ {i} : ing'[k] = ing[k]
        /\ ing[i].pc = "upserted"
    <3>1. [IdleI EXCEPT !.pc = pc].pc = pc /\ ~[IdleI EXCEPT !.pc = pc].path
      BY DEF IdleI
    <3> QED BY <1>a, <1>3, <3>1 DEF IngestCheck, downloadVars, uploadVars
  <2>2. Others(i)
    BY <2>1 DEF Others, Untouched
  <2>3. Exempt(i) /\ SkipsOnly(i) => Exempt(i)' /\ SkipsOnly(i)'
    BY <2>1 DEF Exempt, SkipsOnly, Uploads
  <2>4. Unstaged(i) => Unstaged(i)'
    BY <2>1 DEF Unstaged, Downloads
  <2>5. Staged(i) => Staged(i)'
    BY <2>1 DEF Staged, Downloads, Uploads
  <2>6. Retired(i) => Retired(i)'
    BY <2>1 DEF Retired
  <2>7. Stage(i)'
    BY <1>a, <2>1, <2>3, <2>4, <2>5, <2>6 DEF Stage, Exempt
  <2> QED BY <2>1, <2>2, <2>7 DEF StepOK, ItemOK, RowLives, StoresWhole, KeepsFile
<1> QED BY <1>1, <1>2, <1>3

\* The rows, files and upload jobs that a step may change.
OnlyRow(i) == \A k \in Items \ {i} : row'[k] = row[k]
OnlyFile(i) == \A k \in Items \ {i} : file'[k] = file[k]

\* A busy download worker is the only one of its item, which is still in the
\* download queue.
LEMMA SoleDownloader ==
  ASSUME Calm, NEW w \in DWorkers, NEW i \in Items, Downloads(w, i)
  PROVE  /\ \A v \in DWorkers : Downloads(v, i) => v = w
         /\ ~Exempt(i) => Unstaged(i) \/ Staged(i)
<1>1. \A v \in DWorkers : DownloaderOwns(v)
  BY DEF Calm, Staging, JobsOwned
<1>2. Stage(i)
  BY DEF Calm, Staging
<1> QED BY <1>1, <1>2 DEF DownloaderOwns, Downloads, Stage, Retired

\* A step of a download worker is sound when it is sound for its own item.
LEMMA DownloadFrame ==
  ASSUME Calm, NEW w \in DWorkers, NEW i \in Items, Downloads(w, i),
         Leaves(w) \/ (\E pc : GoesTo(w, pc)),
         OnlyDq(i), OnlyUq(i), OnlyRow(i), OnlyFile(i),
         UNCHANGED <<remote, uw, failEvents, sweep, ing, clean>>,
         RowLives(i), KeepsFile(i),
         ~Exempt(i) => Unstaged(i)' \/ Staged(i)'
  PROVE  StepOK(i)
<1>1. Stage(i) /\ remote[i].whole
  BY DEF Calm, Staging
<1>2. Others(i)
  BY <1>1 DEF Others, Untouched, OnlyDq, OnlyUq, OnlyRow, OnlyFile, Leaves, GoesTo, Downloads
<1>3. StoresWhole(i)
  BY DEF StoresWhole
<1>4. CASE Exempt(i)
  <2>1. Exempt(i)' /\ SkipsOnly(i)'
    BY <1>1, <1>4 DEF Exempt, RowLives, Stage, SkipsOnly, Uploads
  <2> QED BY <1>2, <1>3, <2>1 DEF StepOK, ItemOK, Stage
<1>5. CASE ~Exempt(i)
  <2>1. Exempt(i)' => SkipsOnly(i)'
    <3>1. row[i].status = "absent" => \A u \in UWorkers : ~Uploads(u, i)
      <4>1. row[i].status = "absent" => uq[i].state = "none"
        BY <1>1, <1>5 DEF Stage, Unstaged, Staged, Retired
      <4> QED BY <4>1 DEF Calm, Staging, JobsOwned, UploaderOwns, Uploads
    <3>2. row[i].status # "absent" => ~Exempt(i)'
      BY <1>5 DEF Exempt, RowLives
    <3> QED BY <3>1, <3>2 DEF SkipsOnly, Uploads
  <2> QED BY <1>2, <1>3, <1>5, <2>1 DEF StepOK, ItemOK, Stage
<1> QED BY <1>4, <1>5

LEMMA RowLivesOn ==
  ASSUME NEW i, row'[i] = row[i]
  PROVE  RowLives(i)
BY DEF RowLives, Exempt

\* A write by the owner of the row's download.
LEMMA OwnerWrites ==
  ASSUME row \in [Items -> MediaItem], NEW i \in Items, NEW s, NEW l, NEW p, Write(i, s, l, p),
         row[i].status \notin {"absent", "deleted"}, s # "absent"
  PROVE  RowLives(i) /\ OnlyRow(i)
BY WriteFields DEF RowLives, OnlyRow

\* Steps that only end a worker's work: the item stays in its stage.
LEMMA DownloadLeaves ==
  ASSUME Calm, NEW w \in DWorkers, NEW i \in Items, dw[w].item = i,
         DownloadResume(w) \/ DownloadDecline(w) \/ DownloadHandoff(w) \/ DownloadCrash(w)
  PROVE  StepOK(i)
<1>0. Typed
  BY DEF Calm, Snapshots
<1>1. Downloads(w, i) /\ UNCHANGED <<row, file, remote, uw, failEvents, sweep, ing, clean>>
  BY DEF Downloads, DownloadResume, DownloadDecline, DownloadHandoff, DownloadCrash, uploadVars, otherVars
<1>2. Leaves(w) /\ OnlyDq(i)
  BY <1>0, WorkerMoves DEF OnlyDq
<1>3. /\ uq \in [Items -> Job(UWorkers)]
      /\ ~Exempt(i) => Unstaged(i) \/ Staged(i)
  BY <1>0, <1>1, Shapes, SoleDownloader
<1>4. OnlyUq(i) /\ (uq'[i] = uq[i] \/ uq'[i] = Enqueued(uq[i]))
  BY <1>3 DEF OnlyUq, DownloadResume, DownloadDecline, DownloadHandoff, DownloadCrash, uploadVars
<1>5. Enqueued(uq[i]).state # "active" \/ Enqueued(uq[i]) = uq[i]
  BY <1>3 DEF Enqueued, NoJob, Job
<1>6. Unstaged(i) => Unstaged(i)'
  <2> SUFFICES ASSUME Unstaged(i) PROVE Unstaged(i)'
    OBVIOUS
  <2>1. ~DownloadResume(w) /\ ~DownloadHandoff(w)
    BY <1>1 DEF Unstaged, Downloads, DownloadResume, DownloadHandoff
  <2>2. UNCHANGED uq
    BY <2>1 DEF DownloadDecline, DownloadCrash, uploadVars
  <2> QED BY <1>1, <1>2, <2>2 DEF Unstaged, Leaves, Downloads
<1>7. Staged(i) => Staged(i)'
  BY <1>1, <1>2, <1>4, <1>5 DEF Staged, Leaves, Downloads, Uploads
<1>8. RowLives(i) /\ KeepsFile(i) /\ OnlyRow(i) /\ OnlyFile(i)
  BY <1>1, RowLivesOn DEF KeepsFile, OnlyRow, OnlyFile
<1> QED BY <1>1, <1>2, <1>3, <1>4, <1>6, <1>7, <1>8, DownloadFrame

\* The look at the staged file changes neither the row nor the file.
LEMMA CheckStage ==
  ASSUME Calm, NEW w \in DWorkers, NEW i \in Items, dw[w].item = i, DownloadCheck(w)
  PROVE  StepOK(i)
<1>0. Typed
  BY DEF Calm, Snapshots
<1>1. /\ Downloads(w, i)
      /\ UNCHANGED <<row, file, remote, dq, uq, uw, failEvents, sweep, ing, clean>>
  BY DEF Downloads, DownloadCheck, uploadVars, otherVars
<1>2. PICK pc \in {"resuming", "checked"} :
        GoesTo(w, pc) /\ (pc = "resuming" => dw[w].path)
  BY <1>0, WorkerMoves DEF canResumeUpload
<1>3. /\ \A v \in DWorkers : Downloads(v, i) => v = w
      /\ ~Exempt(i) => Unstaged(i) \/ Staged(i)
  BY <1>1, SoleDownloader
<1>4. Unstaged(i) => Unstaged(i)'
  BY <1>1, <1>2, <1>3 DEF Unstaged, Downloads, GoesTo
<1>5. Staged(i) => Staged(i)'
  BY <1>1, <1>2, <1>3 DEF Staged, Downloads, Uploads, GoesTo
<1>6. RowLives(i) /\ KeepsFile(i) /\ OnlyRow(i) /\ OnlyFile(i) /\ OnlyDq(i) /\ OnlyUq(i)
  BY <1>1, RowLivesOn DEF KeepsFile, OnlyRow, OnlyFile, OnlyDq, OnlyUq
<1> QED BY <1>1, <1>2, <1>3, <1>4, <1>5, <1>6, DownloadFrame

\* The claim, and all a worker does until its file is persisted: the row has no
\* staged path, and the worker is alone with the file.
LEMMA DownloadStages ==
  ASSUME Calm, NEW w \in DWorkers, NEW i \in Items, dw[w].item = i,
         \/ DownloadClaim(w) \/ DownloadWrite(w) \/ DownloadWritten(w)
         \/ DownloadTelegramFail(w) \/ DownloadIoFail(w) \/ DownloadPersist(w)
         \/ DownloadRecordFailure(w) \/ DownloadRemove(w) \/ DownloadHandoffFail(w)
  PROVE  StepOK(i)
<1>0. Typed
  BY DEF Calm, Snapshots
<1>a. Downloads(w, i) /\ UNCHANGED <<remote, uq, uw, failEvents, sweep, ing, clean>>
  BY DEF Downloads, DownloadClaim, DownloadWrite, DownloadWritten, DownloadTelegramFail, DownloadIoFail,
         DownloadPersist, DownloadRecordFailure, DownloadRemove, DownloadHandoffFail,
         uploadVars, otherVars
<1>b. /\ row \in [Items -> MediaItem]
      /\ file \in [Items -> {"absent", "partial", "whole"}]
  BY <1>0, Shapes
<1>c. /\ \A v \in DWorkers : Downloads(v, i) => v = w
      /\ ~Exempt(i) => Unstaged(i) \/ Staged(i)
  BY <1>a, SoleDownloader
<1>d. OnlyUq(i)
  BY <1>a DEF OnlyUq
<1>e. UNCHANGED row => RowLives(i) /\ OnlyRow(i)
  BY RowLivesOn DEF OnlyRow
<1>f. UNCHANGED file => KeepsFile(i) /\ OnlyFile(i)
  BY DEF KeepsFile, OnlyFile
<1>g. UNCHANGED dq => OnlyDq(i)
  BY DEF OnlyDq
<1>h. Staged(i) => dw[w].pc \in {"read", "checked", "resuming", "persisted"}
  BY <1>a DEF Staged, Downloads
<1>i. Unstaged(i) => ~row[i].localPath /\ dw[w].pc # "persisted"
  BY <1>a DEF Unstaged, Downloads
<1>1. CASE DownloadClaim(w)
  <2>1. GoesTo(w, "claimed") /\ UNCHANGED <<dq, file>>
    BY <1>0, <1>1, WorkerMoves DEF DownloadClaim
  <2>2. /\ Write(i, "downloading", Fresh(i), row[i].localPath)
        /\ dw[w].pc = "checked" /\ Unchanged(i, dw[w].status, dw[w].at)
    BY <1>1 DEF DownloadClaim
  <2>3. /\ row[i].status \notin {"absent", "uploaded", "deleted"}
        /\ ~Exempt(i) => ~row[i].localPath
    BY <2>2 DEF Calm, Snapshots, ReadsHold, LooksHold, Unchanged, DownloadDone
  <2>4. RowLives(i) /\ OnlyRow(i)
    BY <1>b, <2>2, <2>3, OwnerWrites
  <2>5. ~Exempt(i) => ~Staged(i)
    BY <2>3 DEF Staged
  <2>6. Unstaged(i) => Unstaged(i)'
    <3>1. /\ row'[i].status = "downloading" /\ row'[i].localPath = row[i].localPath
          /\ row'[i].age = "young"
      BY <1>b, <2>2, WriteFields
    <3> QED BY <1>a, <1>c, <2>1, <3>1 DEF Unstaged, Downloads, GoesTo
  <2> QED BY <1>a, <1>c, <1>d, <1>f, <1>g, <2>1, <2>4, <2>5, <2>6, DownloadFrame
<1>2. CASE DownloadWrite(w)
  <2>1. GoesTo(w, "writing") /\ UNCHANGED <<dq, row>> /\ dw[w].pc = "claimed"
        /\ file' = [file EXCEPT ![i] = "partial"]
    BY <1>0, <1>2, WorkerMoves DEF DownloadWrite
  <2>2. Unstaged(i) => Unstaged(i)'
    BY <1>a, <1>b, <1>c, <2>1 DEF Unstaged, Downloads, GoesTo
  <2>3. KeepsFile(i) /\ OnlyFile(i)
    BY <1>b, <1>c, <1>h, <1>i, <2>1 DEF KeepsFile, OnlyFile
  <2> QED BY <1>a, <1>c, <1>d, <1>e, <1>g, <1>h, <2>1, <2>2, <2>3, DownloadFrame
<1>3. CASE DownloadWritten(w)
  <2>1. /\ GoesTo(w, IF file[i] = "absent" THEN "failing" ELSE "written")
        /\ UNCHANGED <<dq, row>> /\ dw[w].pc = "writing"
    BY <1>0, <1>3, WorkerMoves DEF DownloadWritten
  <2>2. /\ \A k \in Items \ {i} : file'[k] = file[k]
        /\ file[i] = "partial" => file'[i] = "whole"
    BY <1>b, <1>c, <1>3 DEF DownloadWritten, Downloads
  <2>3. Unstaged(i) => Unstaged(i)'
    BY <1>a, <1>b, <1>c, <2>1, <2>2 DEF Unstaged, Downloads, GoesTo
  <2>4. KeepsFile(i) /\ OnlyFile(i)
    BY <1>b, <1>c, <1>h, <1>i, <2>1, <2>2 DEF KeepsFile, OnlyFile
  <2> QED BY <1>a, <1>c, <1>d, <1>e, <1>g, <1>h, <2>1, <2>2, <2>3, <2>4, DownloadFrame
<1>4. CASE DownloadTelegramFail(w) \/ DownloadIoFail(w)
  <2>1. /\ GoesTo(w, "failing") /\ UNCHANGED <<dq, row, file>>
        /\ dw[w].pc \in {"claimed", "writing", "written"}
    BY <1>0, <1>4, WorkerMoves DEF DownloadTelegramFail, DownloadIoFail
  <2>2. Unstaged(i) => Unstaged(i)'
    BY <1>a, <1>b, <1>c, <2>1 DEF Unstaged, Downloads, GoesTo
  <2> QED BY <1>a, <1>c, <1>d, <1>e, <1>f, <1>g, <1>h, <2>1, <2>2, DownloadFrame
<1>5. CASE DownloadPersist(w)
  <2>1. dw[w].pc = "written" /\ UNCHANGED file
    BY <1>5 DEF DownloadPersist
  <2>2. CASE ~OwnsLease(w)
    <3>1. Leaves(w) /\ OnlyDq(i) /\ UNCHANGED row
      BY <1>0, <1>5, <2>2, WorkerMoves DEF DownloadPersist
    <3>2. Unstaged(i) => Unstaged(i)'
      BY <1>a, <1>b, <1>c, <2>1, <3>1 DEF Unstaged, Downloads, Leaves
    <3> QED BY <1>a, <1>c, <1>d, <1>e, <1>f, <1>h, <2>1, <3>1, <3>2, DownloadFrame
  <2>3. CASE OwnsLease(w)
    <3>1. /\ GoesTo(w, "persisted") /\ UNCHANGED dq
          /\ Write(i, "downloaded", NoStamp, TRUE) /\ row[i].status = "downloading"
      BY <1>0, <1>5, <2>3, WorkerMoves DEF DownloadPersist, OwnsLease
    <3>2. RowLives(i) /\ OnlyRow(i)
      BY <1>b, <3>1, OwnerWrites
    <3>3. Unstaged(i) => Staged(i)'
      <4> SUFFICES ASSUME Unstaged(i) PROVE Staged(i)'
        OBVIOUS
      <4>1. row'[i].status = "downloaded" /\ row'[i].localPath /\ row'[i].age = "young"
        BY <1>b, <3>1, WriteFields
      <4>2. file[i] = "whole" /\ clean[i] = "idle" /\ uq[i].state = "none"
        BY <1>a, <2>1 DEF Unstaged, Downloads
      <4>3. \A u \in UWorkers : ~Uploads(u, i)
        BY <4>2 DEF Calm, Staging, JobsOwned, UploaderOwns, Uploads
      <4> QED BY <1>a, <1>c, <2>1, <3>1, <4>1, <4>2, <4>3 DEF Staged, Downloads, Uploads, GoesTo
    <3> QED BY <1>a, <1>c, <1>d, <1>f, <1>g, <1>h, <2>1, <3>1, <3>2, <3>3, DownloadFrame
  <2> QED BY <2>2, <2>3
<1>6. CASE DownloadRecordFailure(w)
  <2>1. dw[w].pc = "failing" /\ UNCHANGED file
    BY <1>6 DEF DownloadRecordFailure
  <2>2. \/ GoesTo(w, "removing") /\ UNCHANGED dq
        \/ Leaves(w) /\ OnlyDq(i)
    BY <1>0, <1>6, WorkerMoves
  <2>3. \/ UNCHANGED row
        \/ /\ row[i].status = "downloading"
           /\ \E s \in {"deleted", "failed"} : Write(i, s, NoStamp, row[i].localPath)
    BY <1>6 DEF DownloadRecordFailure, OwnsLease
  <2>4. RowLives(i) /\ OnlyRow(i)
    BY <1>b, <1>e, <2>3, OwnerWrites
  <2>5. /\ row'[i].localPath = row[i].localPath
        /\ row'[i].age \in {row[i].age, "young"}
        /\ row'[i].status \in {row[i].status, "deleted", "failed"}
    BY <1>b, <2>3, WriteFields
  <2>6. Unstaged(i) => Unstaged(i)'
    BY <1>a, <1>c, <2>1, <2>2, <2>5 DEF Unstaged, Downloads, GoesTo, Leaves
  <2> QED BY <1>a, <1>c, <1>d, <1>f, <1>g, <1>h, <2>1, <2>2, <2>4, <2>6, DownloadFrame
<1>7. CASE DownloadRemove(w)
  <2>1. /\ dw[w].pc = "removing" /\ UNCHANGED row /\ Leaves(w) /\ OnlyDq(i)
        /\ file' = [file EXCEPT ![i] = "absent"]
    BY <1>0, <1>7, WorkerMoves DEF DownloadRemove
  <2>2. Unstaged(i) => Unstaged(i)'
    BY <1>a, <1>c, <2>1 DEF Unstaged, Downloads, Leaves
  <2>3. KeepsFile(i) /\ OnlyFile(i)
    BY <1>b, <1>c, <1>h, <1>i, <2>1 DEF KeepsFile, OnlyFile
  <2> QED BY <1>a, <1>c, <1>d, <1>e, <1>h, <2>1, <2>2, <2>3, DownloadFrame
<1>8. CASE DownloadHandoffFail(w)
  <2>1. dw[w].pc = "persisted" /\ UNCHANGED file /\ Leaves(w) /\ OnlyDq(i)
    BY <1>0, <1>8, WorkerMoves DEF DownloadHandoffFail
  <2>2. \/ UNCHANGED row
        \/ row[i].status = "downloaded" /\ Write(i, "downloaded", NoStamp, row[i].localPath)
    BY <1>8 DEF DownloadHandoffFail, Unchanged
  <2>3. RowLives(i) /\ OnlyRow(i)
    BY <1>b, <1>e, <2>2, OwnerWrites
  <2>4. /\ row'[i].localPath = row[i].localPath /\ row'[i].status = row[i].status
        /\ row'[i].age \in {row[i].age, "young"} /\ row'[i].driveFileId = row[i].driveFileId
    BY <1>b, <2>2, WriteFields
  <2>5. Staged(i) => Staged(i)'
    BY <1>a, <1>c, <2>1, <2>4 DEF Staged, Downloads, Uploads, Leaves
  <2> QED BY <1>a, <1>c, <1>d, <1>f, <1>i, <2>1, <2>3, <2>5, DownloadFrame
<1> QED BY <1>1, <1>2, <1>3, <1>4, <1>5, <1>6, <1>7, <1>8

LEMMA DownloadStartStage ==
  ASSUME Calm, NEW w \in DWorkers, NEW i \in Items, DownloadStart(w, i)
  PROVE  StepOK(i)
<1>1. Begins(w, i) /\ UNCHANGED <<row, file, remote, uq, uw, failEvents, sweep, ing, clean>>
  BY WorkerBegins DEF Calm, Snapshots, DownloadStart, uploadVars, otherVars
<1>2. Stage(i)
  BY DEF Calm, Staging
<1>3. Others(i)
  BY <1>1 DEF Begins, OnlyDq, Others, Untouched, Downloads
<1>4. ~Retired(i)
  BY <1>1 DEF Retired, Begins
<1>5. Unstaged(i) => Unstaged(i)'
  BY <1>1 DEF Unstaged, Begins, Downloads
<1>6. Staged(i) => Staged(i)'
  BY <1>1 DEF Staged, Begins, Downloads, Uploads
<1>7. Stage(i)'
  BY <1>1, <1>2, <1>4, <1>5, <1>6 DEF Stage, Exempt, SkipsOnly, Uploads
<1> QED BY <1>1, <1>3, <1>7 DEF StepOK, ItemOK, RowLives, Exempt, StoresWhole, KeepsFile

LEMMA HeartbeatStage ==
  ASSUME Calm, NEW w \in DWorkers, NEW i \in Items, dw[w].item = i, DownloadHeartbeat(w)
  PROVE  StepOK(i)
<1>1. /\ UNCHANGED <<file, remote, dq, dw, uq, uw, failEvents, sweep, ing, clean>>
      /\ Write(i, "downloading", row[i].lease, row[i].localPath)
      /\ row[i].status = "downloading" /\ Downloads(w, i)
  BY DEF DownloadHeartbeat, OwnsLease, Downloads, downloadVars, uploadVars, otherVars
<1>2. row \in [Items -> MediaItem] /\ Stage(i)
  BY Shapes DEF Calm, Snapshots, Staging
<1>3. /\ row'[i].status = "downloading" /\ row'[i].localPath = row[i].localPath
      /\ row'[i].age = "young" /\ row'[i].sender = row[i].sender
      /\ \A k \in Items \ {i} : row'[k] = row[k]
  BY <1>1, <1>2, WriteFields
<1>4. Others(i)
  BY <1>1, <1>3 DEF Others, Untouched
<1>5. ~Staged(i) /\ ~Retired(i)
  BY <1>1 DEF Staged, Retired
<1>6. Unstaged(i) => Unstaged(i)'
  BY <1>1, <1>3 DEF Unstaged, Downloads
<1>7. Stage(i)'
  BY <1>1, <1>2, <1>3, <1>5, <1>6 DEF Stage, Exempt, SkipsOnly, Uploads
<1> QED BY <1>1, <1>3, <1>4, <1>7 DEF StepOK, ItemOK, RowLives, Exempt, StoresWhole, KeepsFile

\* A busy upload worker is the only one of its item, and the staged file is
\* there, whole, as long as it is.
LEMMA SoleUploader ==
  ASSUME Calm, NEW u \in UWorkers, NEW i \in Items, Uploads(u, i)
  PROVE  /\ \A v \in UWorkers : Uploads(v, i) => v = u
         /\ row[i].status # "absent" /\ failEvents[i] = 0
         /\ ~Exempt(i) => Staged(i) /\ file[i] = "whole"
         /\ Exempt(i) => uw[u].pc = "read"
<1>1. \A v \in UWorkers : UploaderOwns(v)
  BY DEF Calm, Staging, JobsOwned
<1>2. Stage(i)
  BY DEF Calm, Staging
<1>3. ~Unstaged(i) /\ ~Retired(i)
  BY <1>1 DEF UploaderOwns, Uploads, Unstaged, Retired
<1>4. ~Exempt(i) => Staged(i) /\ file[i] = "whole"
  BY <1>1, <1>2, <1>3 DEF UploaderOwns, Uploads, Stage, Staged
<1>5. row[i].status # "absent"
  BY <1>4 DEF Exempt, Staged
<1>6. Exempt(i) => uw[u].pc = "read"
  BY <1>2 DEF Stage, SkipsOnly
<1> QED BY <1>1, <1>4, <1>5, <1>6 DEF UploaderOwns, Uploads

\* A step of an upload worker is sound when it is sound for its own item.
LEMMA UploadFrame ==
  ASSUME Calm, NEW u \in UWorkers, NEW i \in Items, Uploads(u, i),
         ULeaves(u) \/ (\E pc : UGoesTo(u, pc) /\ ~Exempt(i)),
         OnlyUq(i), OnlyFailed(i), OnlyRow(i), OnlyFile(i),
         \A k \in Items \ {i} : remote'[k] = remote[k],
         UNCHANGED <<dq, dw, sweep, ing, clean>>,
         row'[i].sender = row[i].sender,
         row'[i].status \in {row[i].status, "skipped", "uploading", "uploaded"},
         StoresWhole(i), KeepsFile(i),
         ~Exempt(i) => Staged(i)'
  PROVE  StepOK(i)
<1>1. /\ row[i].status # "absent" /\ (~Exempt(i) => Staged(i))
      /\ Stage(i)
  BY SoleUploader DEF Calm, Staging
<1>2. Others(i)
  BY DEF Others, Untouched, OnlyUq, OnlyFailed, OnlyRow, OnlyFile, ULeaves, UGoesTo, Uploads
<1>3. RowLives(i)
  BY <1>1 DEF RowLives, Exempt, Staged
<1>4. Exempt(i) => Exempt(i)' /\ SkipsOnly(i)'
  BY <1>1 DEF Exempt, Stage, SkipsOnly, ULeaves, Uploads
<1>5. ~Exempt(i) => ~Exempt(i)'
  BY <1>1 DEF Exempt
<1> QED BY <1>2, <1>3, <1>4, <1>5 DEF StepOK, ItemOK, Stage

\* An attempt that throws leaves the row and the file as they are.
LEMMA ThrowStage ==
  ASSUME Calm, NEW u \in UWorkers, NEW i \in Items, Uploads(u, i),
         \/ ULeaves(u) /\ OnlyUq(i) /\ OnlyFailed(i)
         \/ ULeaves(u) /\ UNCHANGED <<uq, failEvents>>,
         UNCHANGED <<row, file, remote, dq, dw, sweep, ing, clean>>
  PROVE  StepOK(i)
<1>1. ~Exempt(i) => Staged(i)'
  <2> SUFFICES ASSUME ~Exempt(i) PROVE Staged(i)'
    OBVIOUS
  <2>1. Staged(i) /\ file[i] = "whole"
    BY SoleUploader
  <2> QED BY <2>1 DEF Staged, Downloads, Uploads, ULeaves
<1>2. StoresWhole(i) /\ KeepsFile(i) /\ OnlyRow(i) /\ OnlyFile(i) /\ OnlyUq(i) /\ OnlyFailed(i)
  BY DEF StoresWhole, KeepsFile, OnlyRow, OnlyFile, OnlyUq, OnlyFailed
<1> QED BY <1>1, <1>2, UploadFrame

LEMMA UploadStage ==
  ASSUME Calm, NEW u \in UWorkers, NEW i \in Items, uw[u].item = i,
         \/ UploadSkip(u) \/ UploadRefuse(u) \/ UploadMark(u) \/ UploadCopy(u)
         \/ UploadMissing(u) \/ UploadStore(u) \/ UploadFinish(u)
         \/ UploadDriveFail(u) \/ UploadIoFail(u) \/ UploadCrash(u)
  PROVE  StepOK(i)
<1>0. Typed
  BY DEF Calm, Snapshots
<1>a. Uploads(u, i) /\ UNCHANGED <<dq, dw, sweep, ing, clean>>
  BY DEF Uploads, UploadSkip, UploadRefuse, UploadMark, UploadCopy, UploadMissing, UploadStore,
         UploadFinish, UploadDriveFail, UploadIoFail, UploadCrash, downloadVars, otherVars
<1>b. /\ row \in [Items -> MediaItem] /\ remote \in [Items -> Remote]
      /\ file \in [Items -> {"absent", "partial", "whole"}]
      /\ uq \in [Items -> Job(UWorkers)]
  BY <1>0, Shapes
<1>c. /\ \A v \in UWorkers : Uploads(v, i) => v = u
      /\ row[i].status # "absent" /\ failEvents[i] = 0
      /\ ~Exempt(i) => Staged(i) /\ file[i] = "whole"
      /\ Exempt(i) => uw[u].pc = "read"
  BY <1>a, SoleUploader
<1>d. /\ UNCHANGED row => OnlyRow(i)
      /\ UNCHANGED file => OnlyFile(i) /\ KeepsFile(i)
      /\ UNCHANGED remote => StoresWhole(i)
      /\ UNCHANGED uq => OnlyUq(i)
      /\ UNCHANGED failEvents => OnlyFailed(i)
  BY DEF OnlyRow, OnlyFile, KeepsFile, StoresWhole, OnlyUq, OnlyFailed
<1>1. CASE \/ UploadRefuse(u) \/ UploadMissing(u) \/ UploadDriveFail(u) \/ UploadIoFail(u)
           \/ UploadCrash(u)
  <2>1. UNCHANGED <<row, file, remote>>
    BY <1>1 DEF UploadRefuse, UploadMissing, UploadDriveFail, UploadIoFail, UploadCrash
  <2>2. \/ ULeaves(u) /\ OnlyUq(i) /\ OnlyFailed(i)
        \/ ULeaves(u) /\ UNCHANGED <<uq, failEvents>>
    BY <1>0, <1>1, UploaderMoves
  <2> QED BY <1>a, <2>1, <2>2, ThrowStage
<1>2. CASE UploadSkip(u)
  <2>1. /\ ULeaves(u) /\ OnlyUq(i) /\ UNCHANGED <<failEvents, file, remote>>
        /\ row[i].sender = "whitelisted" /\ Write(i, "skipped", row[i].lease, row[i].localPath)
    BY <1>0, <1>2, UploaderMoves DEF UploadSkip
  <2>2. Exempt(i)
    BY <1>c, <2>1 DEF Exempt
  <2>3. row'[i].sender = row[i].sender /\ row'[i].status = "skipped" /\ OnlyRow(i)
    BY <1>b, <2>1, WriteFields DEF OnlyRow
  <2> QED BY <1>a, <1>d, <2>1, <2>2, <2>3, UploadFrame
<1>3. CASE UploadMark(u)
  <2>1. /\ UGoesTo(u, "marked") /\ UNCHANGED <<uq, failEvents, file, remote>>
        /\ row[i].sender = "registered" /\ Write(i, "uploading", row[i].lease, row[i].localPath)
    BY <1>0, <1>3, UploaderMoves DEF UploadMark
  <2>2. ~Exempt(i)
    BY <2>1 DEF Exempt
  <2>3. /\ row'[i].sender = row[i].sender /\ row'[i].status = "uploading"
        /\ row'[i].localPath = row[i].localPath /\ row'[i].age = "young" /\ OnlyRow(i)
    BY <1>b, <2>1, WriteFields DEF OnlyRow
  <2>4. Staged(i)'
    BY <1>a, <1>c, <2>1, <2>2, <2>3 DEF Staged, Downloads, Uploads, UGoesTo
  <2> QED BY <1>a, <1>d, <2>1, <2>2, <2>3, <2>4, UploadFrame
<1>4. CASE UploadCopy(u)
  <2>1. UGoesTo(u, "copied") /\ UNCHANGED <<uq, failEvents, row, file>> /\ uw[u].pc = "marked"
    BY <1>0, <1>4, UploaderMoves DEF UploadCopy
  <2>2. ~Exempt(i)
    BY <1>c, <2>1
  <2>3. /\ remote'[i].copies > 0 /\ remote'[i].whole
        /\ \A k \in Items \ {i} : remote'[k] = remote[k]
    <3> DEFINE n == IF Overwrites \/ remote[i].copies = 0 THEN 1 ELSE 2
               r == [copies |-> n, whole |-> TRUE]
    <3>1. (remote[i].whole /\ file[i] = "whole") = TRUE
      BY <1>c, <2>2 DEF Calm, Staging
    <3>2. remote' = [remote EXCEPT ![i] = r]
      BY <1>4, <3>1 DEF UploadCopy
    <3>3. n > 0
      OBVIOUS
    <3> HIDE DEF n
    <3>4. r.copies > 0 /\ r.whole
      BY <3>3
    <3> HIDE DEF r
    <3> QED BY <1>b, <3>2, <3>4
  <2>4. StoresWhole(i)
    BY <1>c, <2>2, <2>3 DEF StoresWhole, Staged
  <2>5. Staged(i)'
    BY <1>a, <1>c, <2>1, <2>2 DEF Staged, Downloads, Uploads, UGoesTo
  <2> QED BY <1>a, <1>d, <2>1, <2>2, <2>3, <2>4, <2>5, UploadFrame
<1>5. CASE UploadStore(u)
  <2>1. UGoesTo(u, "stored") /\ UNCHANGED <<uq, failEvents, file, remote>> /\ uw[u].pc = "copied"
    BY <1>0, <1>5, UploaderMoves DEF UploadStore
  <2>2. ~Exempt(i)
    BY <1>c, <2>1
  <2>3. /\ row'[i].sender = row[i].sender /\ row'[i].status = "uploaded" /\ row'[i].driveFileId
        /\ row'[i].localPath = row[i].localPath /\ row'[i].age = "young" /\ OnlyRow(i)
    <3> DEFINE r == [row[i] EXCEPT !.status = "uploaded", !.driveFileId = TRUE,
                                   !.updatedAt = Fresh(i), !.age = "young"]
    <3>1. /\ r.sender = row[i].sender /\ r.status = "uploaded" /\ r.driveFileId
          /\ r.localPath = row[i].localPath /\ r.age = "young"
      BY <1>b DEF MediaItem
    <3>2. row' = [row EXCEPT ![i] = r]
      BY <1>5 DEF UploadStore
    <3> HIDE DEF r
    <3> QED BY <1>b, <3>1, <3>2 DEF OnlyRow
  <2>4. Staged(i)'
    BY <1>a, <1>c, <2>1, <2>2, <2>3 DEF Staged, Downloads, Uploads, UGoesTo
  <2> QED BY <1>a, <1>d, <2>1, <2>2, <2>3, <2>4, UploadFrame
<1>6. CASE UploadFinish(u)
  <2>1. /\ ULeaves(u) /\ OnlyUq(i) /\ UNCHANGED <<failEvents, row, remote>> /\ uw[u].pc = "stored"
        /\ file' = file \/ file' = [file EXCEPT ![i] = "absent"]
        /\ uq'[i] = Completed(uq[i], u)
    BY <1>0, <1>b, <1>6, UploaderMoves DEF UploadFinish
  <2>2. ~Exempt(i)
    BY <1>c, <2>1
  <2>3. uq'[i].state = "none"
    BY <1>a, <2>1 DEF Completed, NoJob, Calm, Staging, JobsOwned, UploaderOwns, Uploads
  <2>4. row[i].status = "uploaded" /\ row[i].driveFileId
    BY <1>a, <1>c, <2>1, <2>2 DEF Staged
  <2>5. Staged(i)'
    BY <1>a, <1>c, <2>1, <2>2, <2>3, <2>4 DEF Staged, Downloads, Uploads, ULeaves
  <2>6. KeepsFile(i) /\ OnlyFile(i)
    BY <1>b, <2>1, <2>4 DEF KeepsFile, OnlyFile
  <2> QED BY <1>a, <1>d, <2>1, <2>2, <2>5, <2>6, UploadFrame
<1> QED BY <1>1, <1>2, <1>3, <1>4, <1>5, <1>6

LEMMA UploadStartStage ==
  ASSUME Calm, NEW u \in UWorkers, NEW i \in Items, UploadStart(u, i)
  PROVE  StepOK(i)
<1>1. UBegins(u, i) /\ UNCHANGED <<row, file, remote, dq, dw, failEvents, sweep, ing, clean>>
  BY UploaderBegins DEF Calm, Snapshots, UploadStart, downloadVars, otherVars
<1>2. Stage(i)
  BY DEF Calm, Staging
<1>3. Others(i)
  BY <1>1 DEF UBegins, OnlyUq, Others, Untouched, Uploads
<1>4. ~Retired(i) /\ ~Unstaged(i)
  BY <1>1 DEF Retired, Unstaged, UBegins
<1>5. Staged(i) => Staged(i)'
  BY <1>1 DEF Staged, UBegins, Downloads, Uploads
<1>6. SkipsOnly(i) => SkipsOnly(i)'
  BY <1>1 DEF UBegins, SkipsOnly, Uploads
<1>7. Stage(i)'
  BY <1>1, <1>2, <1>4, <1>5, <1>6 DEF Stage, Exempt
<1> QED BY <1>1, <1>3, <1>7 DEF StepOK, ItemOK, RowLives, Exempt, StoresWhole, KeepsFile

\* A step that leaves the processors, the rows and the files alone and only
\* loses, stalls or counts something.
LEMMA QueueStage ==
  ASSUME Calm, Timely, NEW i \in Items, failJob(i) \/ UploadStall(i) \/ DownloadStall(i)
  PROVE  StepOK(i)
<1>a. Stage(i) /\ UNCHANGED <<file, remote, dw, uw, sweep, ing, clean>>
  BY DEF Calm, Staging, failJob, UploadStall, DownloadStall, downloadVars, uploadVars, otherVars
<1>b. /\ row \in [Items -> MediaItem] /\ failEvents \in [Items -> Nat]
      /\ dq \in [Items -> Job(DWorkers)] /\ uq \in [Items -> Job(UWorkers)]
  BY Shapes DEF Calm, Snapshots
<1>c. StoresWhole(i) /\ KeepsFile(i)
  BY <1>a DEF StoresWhole, KeepsFile
<1>d. SkipsOnly(i) => SkipsOnly(i)'
  BY <1>a DEF SkipsOnly, Uploads
<1>1. CASE failJob(i)
  <2>1. /\ failEvents[i] # 0 /\ UNCHANGED <<dq, uq>>
        /\ Write(i, "failed", row[i].lease, row[i].localPath)
        /\ \A k \in Items \ {i} : failEvents'[k] = failEvents[k]
    BY <1>b, <1>1 DEF failJob, downloadVars
  <2>2. /\ row'[i].status = "failed" /\ row'[i].sender = row[i].sender
        /\ row'[i].localPath = row[i].localPath /\ row'[i].age = "young"
        /\ \A k \in Items \ {i} : row'[k] = row[k]
    BY <1>b, <2>1, WriteFields
  <2>3. Others(i)
    BY <1>a, <2>1, <2>2 DEF Others, Untouched
  <2>4. ~Unstaged(i) /\ ~Retired(i)
    BY <2>1 DEF Unstaged, Retired
  <2>5. Staged(i) => Staged(i)' /\ row[i].status \notin {"absent", "deleted"}
    <3>1. \A u \in UWorkers : ~Uploads(u, i)
      BY <2>1 DEF Calm, Staging, JobsOwned, UploaderOwns, Uploads
    <3> QED BY <1>a, <2>1, <2>2, <3>1 DEF Staged, Downloads, Uploads
  <2>6. Stage(i)' /\ RowLives(i)
    BY <1>a, <1>d, <2>2, <2>4, <2>5 DEF Stage, Exempt, RowLives
  <2> QED BY <1>c, <2>3, <2>6 DEF StepOK, ItemOK
<1>2. CASE UploadStall(i)
  <2>1. /\ uq[i].state = "active" /\ uq'[i] = Stalled(uq[i]) /\ UNCHANGED <<dq, row>>
        /\ \A k \in Items \ {i} : uq'[k] = uq[k] /\ failEvents'[k] = failEvents[k]
    BY <1>b, <1>2 DEF UploadStall, downloadVars
  <2>2. Others(i)
    BY <1>a, <2>1 DEF Others, Untouched
  <2>3. ~Unstaged(i) /\ ~Retired(i)
    BY <2>1 DEF Unstaged, Retired
  <2>4. Staged(i) => Staged(i)'
    BY <1>a, <2>1 DEF Staged, Downloads, Uploads
  <2>5. Stage(i)' /\ RowLives(i)
    BY <1>a, <1>d, <2>1, <2>3, <2>4 DEF Stage, Exempt, RowLives
  <2> QED BY <1>c, <2>2, <2>5 DEF StepOK, ItemOK
<1>3. CASE DownloadStall(i)
  <2>1. /\ dq[i].state = "active" /\ UNCHANGED <<uq, row, failEvents>>
        /\ \A k \in Items \ {i} : dq'[k] = dq[k]
    BY <1>b, <1>3 DEF DownloadStall, uploadVars
  <2>2. Others(i)
    BY <1>a, <2>1 DEF Others, Untouched
  <2>3. ~Retired(i)
    BY <2>1 DEF Retired
  <2>4. (Unstaged(i) => Unstaged(i)') /\ (Staged(i) => Staged(i)')
    BY <1>a, <2>1 DEF Unstaged, Staged, Downloads, Uploads
  <2>5. Stage(i)' /\ RowLives(i)
    BY <1>a, <1>d, <2>1, <2>3, <2>4 DEF Stage, Exempt, RowLives
  <2> QED BY <1>c, <2>2, <2>5 DEF StepOK, ItemOK
<1> QED BY <1>1, <1>2, <1>3

LEMMA AgeStage ==
  ASSUME Calm, NEW i \in Items, Age(i)
  PROVE  StepOK(i)
<1>a. Stage(i) /\ UNCHANGED <<file, remote, dq, dw, uq, uw, failEvents, sweep, ing, clean>>
  BY DEF Calm, Staging, Age, downloadVars, uploadVars, otherVars
<1>b. /\ row \in [Items -> MediaItem] /\ failEvents \in [Items -> Nat] /\ ing \in [Items -> Ingest]
  BY Shapes DEF Calm, Snapshots
<1>1. /\ row'[i].status = row[i].status /\ row'[i].sender = row[i].sender
      /\ row'[i].localPath = row[i].localPath /\ row'[i].driveFileId = row[i].driveFileId
      /\ \A k \in Items \ {i} : row'[k] = row[k]
      /\ \/ row[i].age = "young" /\ row'[i].age = "stale"
         \/ /\ row[i].age = "stale" /\ row'[i].age = "old"
            /\ row[i].status \in {"uploaded", "skipped"} /\ ~InStep(i) /\ ~Held(i)
  <2> DEFINE s == [row[i] EXCEPT !.age = "stale"]
             o == [row[i] EXCEPT !.age = "old"]
  <2>1. /\ s.status = row[i].status /\ s.sender = row[i].sender /\ s.age = "stale"
        /\ s.localPath = row[i].localPath /\ s.driveFileId = row[i].driveFileId
    BY <1>b DEF MediaItem
  <2>2. /\ o.status = row[i].status /\ o.sender = row[i].sender /\ o.age = "old"
        /\ o.localPath = row[i].localPath /\ o.driveFileId = row[i].driveFileId
    BY <1>b DEF MediaItem
  <2>3. \/ row[i].age = "young" /\ row' = [row EXCEPT ![i] = s]
        \/ /\ row[i].age = "stale" /\ row' = [row EXCEPT ![i] = o]
           /\ row[i].status \in {"uploaded", "skipped"} /\ ~InStep(i) /\ ~Held(i)
    BY DEF Age
  <2> HIDE DEF s, o
  <2> QED BY <1>b, <2>1, <2>2, <2>3
<1>2. Others(i)
  BY <1>a, <1>1 DEF Others, Untouched
<1>3. ~Retired(i)
  BY <1>1 DEF Retired
<1>4. Unstaged(i) => Unstaged(i)'
  BY <1>a, <1>1 DEF Unstaged, Downloads
<1>5. Staged(i) => Staged(i)' \/ Retired(i)'
  <2>1. CASE row'[i].age = "stale"
    BY <1>a, <1>1, <2>1 DEF Staged, Downloads, Uploads
  <2>2. CASE row'[i].age = "old"
    <3>1. dq[i].state = "none" /\ uq[i].state = "none" /\ ~(failEvents[i] > 0)
          /\ sweep.item # i /\ ing[i].pc = "idle"
      BY <1>1, <2>2 DEF InStep, Held
    <3>2. failEvents[i] = 0
      BY <1>b, <3>1
    <3> QED BY <1>a, <1>1, <2>2, <3>1, <3>2 DEF Staged, Retired
  <2> QED BY <1>1, <2>1, <2>2
<1>6. Stage(i)'
  BY <1>a, <1>1, <1>3, <1>4, <1>5 DEF Stage, Exempt, SkipsOnly, Uploads
<1> QED BY <1>a, <1>1, <1>2, <1>6 DEF StepOK, ItemOK, RowLives, Exempt, StoresWhole, KeepsFile

LEMMA CleanupStage ==
  ASSUME Calm, NEW i \in Items, CleanupStep(i)
  PROVE  StepOK(i)
<1>a. Stage(i) /\ UNCHANGED <<remote, dq, dw, uq, uw, failEvents, sweep, ing>>
  BY DEF Calm, Staging, CleanupStep, CleanupList, CleanupRemove, CleanupForget, downloadVars,
         uploadVars
<1>b. /\ row \in [Items -> MediaItem] /\ clean \in [Items -> {"idle", "listed", "removed"}]
      /\ file \in [Items -> {"absent", "partial", "whole"}]
  BY Shapes DEF Calm, Snapshots
<1>1. /\ row'[i].status = row[i].status /\ row'[i].sender = row[i].sender /\ row'[i].age = row[i].age
      /\ \A k \in Items \ {i} : row'[k] = row[k]
  <2>1. CASE UNCHANGED row
    BY <2>1
  <2>2. CASE CleanupForget(i)
    <3> DEFINE r == [row[i] EXCEPT !.localPath = FALSE]
    <3>1. r.status = row[i].status /\ r.sender = row[i].sender /\ r.age = row[i].age
      BY <1>b DEF MediaItem
    <3>2. row' = [row EXCEPT ![i] = r]
      BY <2>2 DEF CleanupForget
    <3> HIDE DEF r
    <3> QED BY <1>b, <3>1, <3>2
  <2> QED BY <2>1, <2>2 DEF CleanupStep, CleanupList, CleanupRemove
<1>2. \A k \in Items \ {i} : clean'[k] = clean[k] /\ file'[k] = file[k]
  BY <1>b DEF CleanupStep, CleanupList, CleanupRemove, CleanupForget
<1>3. Others(i)
  BY <1>a, <1>1, <1>2 DEF Others, Untouched
<1>4. ~Unstaged(i) /\ ~Staged(i)
  BY DEF Unstaged, Staged, CleanupStep, CleanupList, CleanupRemove, CleanupForget
<1>5. Retired(i) => Retired(i)' /\ row[i].status = "uploaded"
  BY <1>a, <1>1 DEF Retired
<1>6. Stage(i)'
  BY <1>a, <1>1, <1>4, <1>5 DEF Stage, Exempt, SkipsOnly, Uploads
<1>7. KeepsFile(i)
  BY <1>a, <1>4, <1>5 DEF KeepsFile, Stage
<1> QED BY <1>a, <1>1, <1>3, <1>6, <1>7 DEF StepOK, ItemOK, RowLives, Exempt, StoresWhole

\* The sweep reads a selected row again, or drops it: a retired item is dropped.
LEMMA SweepReadStage ==
  ASSUME Calm, NEW i \in Items, SweepRead(i)
  PROVE  StepOK(i)
<1>a. Stage(i) /\ UNCHANGED <<row, file, remote, dq, dw, uq, uw, failEvents, ing, clean>>
  BY DEF Calm, Staging, SweepRead, downloadVars, uploadVars
<1>b. sweep \in Sweep /\ Typed
  BY Shapes DEF Calm, Snapshots
<1>1. CASE sweep' = Dropped(i)
  <2>1. sweep'.item = NoItem
    BY <1>1, <1>b, DroppedTypes
  <2>2. Others(i) /\ Untouched(i)
    BY <1>a, <2>1, ItemsAssumption DEF Others, Untouched
  <2> QED BY <1>a, <2>2, UntouchedOK DEF StepOK
<1>2. CASE sweep' # Dropped(i)
  <2> DEFINE s == [sweep EXCEPT !.pc = "read", !.item = i, !.seen = row[i].status,
                                !.path = row[i].localPath]
  <2>1. s.item = i /\ s.path = row[i].localPath /\ s.resume = sweep.resume
    BY <1>b DEF Sweep
  <2>2. sweep' = s /\ isRecoverableStatus(row[i].status) /\ sweep.pc = "idle"
    BY <1>2 DEF SweepRead
  <2> HIDE DEF s
  <2>3. Others(i)
    BY <1>a, <2>1, <2>2 DEF Others, Untouched
  <2>4. ~Retired(i)
    BY <2>2 DEF Retired, isRecoverableStatus
  <2>5. ~sweep.resume
    BY <2>2 DEF Calm, Snapshots, SelectionHolds
  <2>6. Unstaged(i) => Unstaged(i)'
    BY <1>a, <2>1, <2>2, <2>5 DEF Unstaged, Downloads
  <2>7. Staged(i) => Staged(i)'
    BY <1>a DEF Staged, Downloads, Uploads
  <2>8. Stage(i)'
    BY <1>a, <2>4, <2>6, <2>7 DEF Stage, Exempt, SkipsOnly, Uploads
  <2> QED BY <1>a, <2>3, <2>8 DEF StepOK, ItemOK, RowLives, Exempt, StoresWhole, KeepsFile
<1> QED BY <1>1, <1>2

LEMMA SweepCheckStage ==
  ASSUME Calm, NEW i \in Items, sweep.item = i, SweepCheck
  PROVE  StepOK(i)
<1> DEFINE b == canResumeUpload(sweep.seen, sweep.path, sweep.item)
<1>a. Stage(i) /\ UNCHANGED <<row, file, remote, dq, dw, uq, uw, failEvents, ing, clean>>
  BY DEF Calm, Staging, SweepCheck, downloadVars, uploadVars
<1>1. sweep'.item = i /\ ~sweep'.path /\ sweep'.resume = b
  <2>1. sweep \in Sweep
    BY Shapes DEF Calm, Snapshots
  <2>2. sweep' = [sweep EXCEPT !.pc = "checked", !.seen = "absent", !.path = FALSE, !.resume = b]
    BY DEF SweepCheck
  <2> HIDE DEF b
  <2> QED BY <2>1, <2>2 DEF Sweep
<1>2. b => sweep.path
  BY DEF canResumeUpload
<1> HIDE DEF b
<1>3. Others(i)
  BY <1>a, <1>1 DEF Others, Untouched
<1>4. ~Retired(i)
  BY DEF Retired
<1>5. Unstaged(i) => Unstaged(i)'
  BY <1>a, <1>1, <1>2 DEF Unstaged, Downloads
<1>6. Staged(i) => Staged(i)'
  BY <1>a DEF Staged, Downloads, Uploads
<1>7. Stage(i)'
  BY <1>a, <1>4, <1>5, <1>6 DEF Stage, Exempt, SkipsOnly, Uploads
<1> QED BY <1>a, <1>3, <1>7 DEF StepOK, ItemOK, RowLives, Exempt, StoresWhole, KeepsFile

LEMMA SweepClaimStage ==
  ASSUME Calm, NEW i \in Items, sweep.item = i, SweepClaim
  PROVE  StepOK(i)
<1>a. Stage(i) /\ UNCHANGED <<file, remote, dq, dw, uq, uw, failEvents, ing, clean>>
  BY DEF Calm, Staging, SweepClaim, downloadVars, uploadVars
<1>b. row \in [Items -> MediaItem] /\ sweep \in Sweep /\ Typed
  BY Shapes DEF Calm, Snapshots
<1> DEFINE D == Dropped(i)
           to == IF sweep.resume THEN "downloaded" ELSE "queued"
<1>c. D \in Sweep /\ D.item = NoItem /\ ~D.path /\ ~D.resume
  BY <1>b, DroppedTypes DEF Dropped, IdleS
<1>1. \/ UNCHANGED row /\ sweep' = D
      \/ /\ Write(i, to, NoStamp, row[i].localPath)
         /\ sweep' = [D EXCEPT !.pc = "claimed", !.item = i, !.resume = sweep.resume]
         /\ Unchanged(i, sweep.status[i], sweep.at[i])
  BY DEF SweepClaim
<1> HIDE DEF D
<1>2. CASE UNCHANGED row /\ sweep' = D
  <2>1. Others(i) /\ Untouched(i)
    BY <1>a, <1>c, <1>2, ItemsAssumption DEF Others, Untouched
  <2> QED BY <1>a, <2>1, UntouchedOK DEF StepOK
<1>3. CASE /\ Write(i, to, NoStamp, row[i].localPath)
           /\ sweep' = [D EXCEPT !.pc = "claimed", !.item = i, !.resume = sweep.resume]
           /\ Unchanged(i, sweep.status[i], sweep.at[i])
  <2>1. sweep'.item = i /\ ~sweep'.path /\ sweep'.resume = sweep.resume
    BY <1>c, <1>3 DEF Sweep
  <2>2. /\ row'[i].status = to /\ row'[i].sender = row[i].sender
        /\ row'[i].localPath = row[i].localPath /\ row'[i].age = "young"
        /\ \A k \in Items \ {i} : row'[k] = row[k]
    BY <1>b, <1>3, WriteFields
  <2>3. Others(i)
    BY <1>a, <2>1, <2>2 DEF Others, Untouched
  <2>4. /\ row[i].status \in {"queued", "downloading", "downloaded", "uploading", "failed"}
        /\ ~sweep.resume /\ ~Exempt(i) => ~row[i].localPath
    BY <1>3 DEF isRecoverableStatus, Unchanged, SweepClaim, Calm, Snapshots, SelectionHolds, LooksHold
  <2>5. ~Retired(i)
    BY <2>4 DEF Retired
  <2>6. Unstaged(i) => Unstaged(i)'
    <3>1. Unstaged(i) => ~sweep.resume /\ to = "queued"
      BY DEF Unstaged
    <3> HIDE DEF to
    <3> QED BY <1>a, <2>1, <2>2, <3>1 DEF Unstaged, Downloads
  <2>7. ~Exempt(i) /\ Staged(i) => Staged(i)'
    <3>1. ~Exempt(i) /\ Staged(i) => to = "downloaded" /\ file[i] = "whole"
      BY <2>4 DEF Staged
    <3> HIDE DEF to
    <3> QED BY <1>a, <2>2, <2>4, <3>1 DEF Staged, Downloads, Uploads
  <2>8. to \in {"downloaded", "queued"}
    OBVIOUS
  <2> HIDE DEF to
  <2>9. Stage(i)' /\ RowLives(i)
    BY <1>a, <2>2, <2>4, <2>5, <2>6, <2>7, <2>8 DEF Stage, Exempt, SkipsOnly, Uploads, RowLives
  <2> QED BY <1>a, <2>3, <2>9 DEF StepOK, ItemOK, StoresWhole, KeepsFile
<1> QED BY <1>1, <1>2, <1>3

LEMMA SweepEnqueueStage ==
  ASSUME Calm, NEW i \in Items, sweep.item = i, SweepEnqueue
  PROVE  StepOK(i)
<1>a. Stage(i) /\ UNCHANGED <<row, file, remote, dw, uw, failEvents, ing, clean>>
  BY DEF Calm, Staging, SweepEnqueue
<1>b. /\ uq \in [Items -> Job(UWorkers)] /\ dq \in [Items -> Job(DWorkers)] /\ Typed
  BY Shapes DEF Calm, Snapshots
<1>1. sweep'.item = NoItem
  BY <1>b, DroppedTypes DEF SweepEnqueue
<1>2. /\ OnlyDq(i) /\ OnlyUq(i)
      /\ ~sweep.resume => UNCHANGED uq
      /\ uq'[i] = uq[i] \/ uq'[i] = Enqueued(uq[i])
  BY <1>b DEF SweepEnqueue, OnlyDq, OnlyUq
<1>3. Enqueued(uq[i]).state # "active" \/ Enqueued(uq[i]) = uq[i]
  BY <1>b DEF Enqueued, NoJob, Job
<1>4. Others(i)
  BY <1>a, <1>1, <1>2, ItemsAssumption DEF Others, Untouched, OnlyDq, OnlyUq
<1>5. ~Retired(i)
  BY DEF Retired
<1>6. Unstaged(i) => Unstaged(i)'
  BY <1>a, <1>1, <1>2, ItemsAssumption DEF Unstaged, Downloads
<1>7. Staged(i) => Staged(i)'
  BY <1>a, <1>2, <1>3 DEF Staged, Downloads, Uploads
<1>8. Stage(i)'
  BY <1>a, <1>5, <1>6, <1>7 DEF Stage, Exempt, SkipsOnly, Uploads
<1> QED BY <1>a, <1>4, <1>8 DEF StepOK, ItemOK, RowLives, Exempt, StoresWhole, KeepsFile

\* A sweep that begins or is cut off, and a switch of the group, touch no item.
LEMMA NoItemStep ==
  ASSUME Calm,
         \/ SweepSelect \/ SweepIoFail \/ SweepCut \/ GroupDeactivate \/ GroupReactivate
         \/ UNCHANGED vars,
         NEW i \in Items
  PROVE  Untouched(i)
<1>1. UNCHANGED <<row, file, remote, dq, dw, uq, uw, failEvents, ing, clean>>
  BY DEF SweepSelect, SweepIoFail, SweepCut, GroupDeactivate, GroupReactivate, vars,
         downloadVars, uploadVars, otherVars
<1>2. UNCHANGED sweep \/ sweep'.item = NoItem
  <2>1. CASE UNCHANGED vars \/ GroupDeactivate \/ GroupReactivate
    BY <2>1 DEF vars, GroupDeactivate, GroupReactivate, otherVars
  <2>2. CASE SweepSelect \/ SweepCut
    <3>1. IdleS \in Sweep /\ IdleS.item = NoItem
      BY IdleTypes DEF IdleS
    <3> QED BY <2>2, <3>1 DEF SweepSelect, SweepCut, Sweep
  <2>3. CASE SweepIoFail
    <3>1. Typed /\ sweep.item \in Items
      BY <2>3 DEF SweepIoFail, Calm, Snapshots, Typed, HoldsItem
    <3> QED BY <2>3, <3>1, DroppedTypes DEF SweepIoFail
  <2> QED BY <2>1, <2>2, <2>3
<1> QED BY <1>1, <1>2, ItemsAssumption DEF Untouched

\* Every step touches at most one item, and is sound for it.
LEMMA CalmStep ==
  ASSUME Calm, Timely, [Next]_vars
  PROVE  (\A i \in Items : Untouched(i)) \/ (\E i \in Items : StepOK(i))
<1>1. CASE \/ SweepSelect \/ SweepIoFail \/ SweepCut \/ GroupDeactivate \/ GroupReactivate
           \/ UNCHANGED vars
  BY <1>1, NoItemStep
<1>2. ASSUME NEW i \in Items,
             \/ IngestUpsert(i) \/ IngestCheck(i) \/ IngestEnqueue(i) \/ IngestFail(i) \/ failJob(i)
             \/ DownloadStall(i) \/ UploadStall(i) \/ Age(i) \/ CleanupStep(i) \/ SweepRead(i)
      PROVE  StepOK(i)
  BY <1>2, IngestStage, QueueStage, AgeStage, CleanupStage, SweepReadStage
<1>3. ASSUME NEW w \in DWorkers,
             \/ DownloadStep(w) \/ DownloadHeartbeat(w) \/ DownloadTelegramFail(w)
             \/ DownloadIoFail(w) \/ DownloadHandoffFail(w) \/ DownloadCrash(w)
      PROVE  \E i \in Items : StepOK(i)
  <2>1. CASE \E i \in Items : DownloadStart(w, i)
    BY <2>1, DownloadStartStage
  <2>2. CASE ~\E i \in Items : DownloadStart(w, i)
    <3>1. dw[w].pc # "idle"
      BY <1>3, <2>2 DEF DownloadStep, DownloadCheck, DownloadResume, DownloadDecline, DownloadClaim, DownloadWrite,
            DownloadWritten, DownloadPersist, DownloadHandoff, DownloadRecordFailure, DownloadRemove,
            DownloadHeartbeat, DownloadTelegramFail, DownloadIoFail, DownloadHandoffFail, DownloadCrash
    <3>2. PICK i \in Items : dw[w].item = i
      BY <3>1 DEF Calm, Snapshots, Typed, HoldsItem
    <3>3. StepOK(i)
      BY <1>3, <2>2, <3>2, CheckStage, DownloadLeaves, DownloadStages, HeartbeatStage DEF DownloadStep
    <3> QED BY <3>3
  <2> QED BY <2>1, <2>2
<1>4. ASSUME NEW u \in UWorkers,
             UploadStep(u) \/ UploadDriveFail(u) \/ UploadIoFail(u) \/ UploadCrash(u)
      PROVE  \E i \in Items : StepOK(i)
  <2>1. CASE \E i \in Items : UploadStart(u, i)
    BY <2>1, UploadStartStage
  <2>2. CASE ~\E i \in Items : UploadStart(u, i)
    <3>1. uw[u].pc # "idle"
      BY <1>4, <2>2 DEF UploadStep, UploadSkip, UploadRefuse, UploadMark, UploadCopy, UploadMissing,
            UploadStore, UploadFinish, UploadDriveFail, UploadIoFail, UploadCrash
    <3>2. PICK i \in Items : uw[u].item = i
      BY <3>1 DEF Calm, Snapshots, Typed, HoldsItem
    <3>3. StepOK(i)
      BY <1>4, <2>2, <3>2, UploadStage DEF UploadStep
    <3> QED BY <3>3
  <2> QED BY <2>1, <2>2
<1>5. CASE SweepCheck \/ SweepClaim \/ SweepEnqueue
  <2>1. PICK i \in Items : sweep.item = i
    BY <1>5 DEF SweepCheck, SweepClaim, SweepEnqueue, Calm, Snapshots, Typed, HoldsItem
  <2> QED BY <1>5, <2>1, SweepCheckStage, SweepClaimStage, SweepEnqueueStage
<1> QED BY <1>1, <1>2, <1>3, <1>4, <1>5 DEF Next, FaultStep, SweepStep

\* An item stays with its sender's kind once it is known.
LEMMA ExemptStays ==
  ASSUME NEW i, RowLives(i), Exempt(i)
  PROVE  Exempt(i)'
BY DEF RowLives, Exempt

\* In the stage of a staged item nobody fails to find its file.
LEMMA FoundIfStaged ==
  ASSUME Calm, NEW i \in Items, ~Exempt(i), row[i].localPath,
         row[i].status \in {"queued", "downloading", "downloaded", "uploading", "failed", "skipped"}
  PROVE  /\ Staged(i) /\ file[i] = "whole"
         /\ row[i].status \in {"downloaded", "uploading", "failed"}
<1>1. Unstaged(i) \/ Staged(i) \/ Retired(i)
  BY DEF Calm, Staging, Stage
<1> QED BY <1>1 DEF Unstaged, Staged, Retired

\* Only SweepCheck gets the sweep past its look at the file.
LEMMA LooksOnce ==
  ASSUME Typed, [Next]_vars, sweep'.pc = "checked"
  PROVE  UNCHANGED sweep \/ SweepCheck
<1>1. CASE sweep' = IdleS
  BY <1>1 DEF IdleS
<1>2. CASE SweepSelect
  <2>1. sweep'.pc = "idle"
    BY <1>2 DEF SweepSelect, IdleS
  <2> QED BY <2>1
<1>3. ASSUME NEW i \in Items, SweepRead(i)
      PROVE  FALSE
  <2> DEFINE s == [sweep EXCEPT !.pc = "read", !.item = i, !.seen = row[i].status,
                                !.path = row[i].localPath]
  <2>1. s.pc = "read"
    BY DEF Typed, TypeOK, Sweep
  <2>2. sweep' = s \/ sweep' = Dropped(i)
    BY <1>3 DEF SweepRead
  <2> HIDE DEF s
  <2> QED BY <2>1, <2>2, DroppedTypes
<1>4. CASE SweepClaim \/ SweepEnqueue \/ SweepIoFail
  <2> DEFINE D == Dropped(sweep.item)
  <2>1. D \in Sweep /\ D.pc = "idle"
    BY <1>4, DroppedTypes DEF SweepClaim, SweepEnqueue, SweepIoFail, Typed, HoldsItem
  <2>2. \/ sweep' = D
        \/ sweep' = [D EXCEPT !.pc = "claimed", !.item = sweep.item, !.resume = sweep.resume]
    BY <1>4 DEF SweepClaim, SweepEnqueue, SweepIoFail
  <2> HIDE DEF D
  <2> QED BY <2>1, <2>2 DEF Sweep
<1> QED BY <1>1, <1>2, <1>3, <1>4, SweepCases

LEMMA LooksStep ==
  ASSUME Calm, [Next]_vars, \A i \in Items : RowLives(i)
  PROVE  LooksHold'
<1>a. Typed /\ Typed' /\ Snapshots /\ \A i \in Items : Outdates(i)
  BY RowStep, StepTyped DEF Calm, Snapshots, RowStepOK
<1>b. \A i \in Items : ~Exempt(i)' => ~Exempt(i)
  BY ExemptStays
<1>1. ASSUME NEW w \in DWorkers, NEW i \in Items, dw'[w].item = i, dw'[w].pc = "checked",
             ~Exempt(i)', dw'[w].at = row'[i].updatedAt
      PROVE  ~row'[i].localPath
  <2>a. ~Exempt(i)
    BY <1>1, <1>b
  <2>1. CASE dw'[w] = dw[w]
    <3>1. dw[w].pc = "checked" /\ dw[w].item = i /\ row'[i].updatedAt = dw[w].at
      BY <1>1, <2>1
    <3>2. row[i].updatedAt = dw[w].at /\ (row'[i].localPath => row[i].localPath)
      BY <1>a, <3>1 DEF Outdates
    <3> QED BY <2>a, <3>1, <3>2 DEF Calm, LooksHold
  <2>2. CASE dw[w].pc = "read" /\ DownloadCheck(w)
    <3>1. /\ UNCHANGED row /\ dw[w].item = i /\ dw'[w].at = dw[w].at
          /\ ~canResumeUpload(dw[w].status, dw[w].path, i)
      <4> PICK d : /\ dw' = [dw EXCEPT ![w] = d] /\ d.item = dw[w].item /\ d.at = dw[w].at
                   /\ d.pc = IF canResumeUpload(dw[w].status, dw[w].path, dw[w].item)
                             THEN "resuming" ELSE "checked"
        BY <1>a, <2>2, CheckEffect
      <4>1. dw'[w] = d
        BY <1>a DEF Typed, TypeOK
      <4> QED BY <1>1, <2>2, <4>1 DEF DownloadCheck
    <3>2. /\ dw[w].status = row[i].status /\ (row[i].localPath => dw[w].path)
          /\ ~DownloadDone(row[i].status)
      BY <1>1, <1>a, <2>2, <3>1 DEF Snapshots, ReadsHold
    <3>3. row[i].status \in {"queued", "downloading", "downloaded", "uploading", "failed", "skipped"}
      BY <1>a, <3>2 DEF DownloadDone, Typed, TypeOK, MediaItem, Statuses
    <3> QED BY <2>a, <3>1, <3>2, <3>3, FoundIfStaged DEF canResumeUpload
  <2>3. ASSUME NEW v \in DWorkers, NEW k \in Items, DownloadStart(v, k)
        PROVE  dw'[w] = dw[w]
    <3>1. Begins(v, k) \/ UNCHANGED dw
      BY <1>a, <2>3, WorkerBegins
    <3> QED BY <1>1, <3>1 DEF Begins
  <2>4. ASSUME NEW v \in DWorkers, DownloadClaim(v)
        PROVE  dw'[w] = dw[w]
    <3>1. GoesTo(v, "claimed")
      BY <1>a, <2>4, WorkerMoves
    <3> QED BY <1>1, <3>1 DEF GoesTo
  <2>5. ASSUME NEW v \in DWorkers, MovesOn(v)
        PROVE  dw'[w] = dw[w]
    BY <1>1, <1>a, <2>5 DEF MovesOn, Typed, TypeOK
  <2>6. ASSUME NEW v \in DWorkers, DownloadCheck(v)
        PROVE  dw'[w] = dw[w] \/ (v = w /\ dw[w].pc = "read")
    BY <1>a, <2>6, CheckEffect DEF Typed, TypeOK
  <2> QED BY <1>a, <2>1, <2>2, <2>3, <2>4, <2>5, <2>6, WorkerCases
<1>2. ASSUME NEW i \in Items, sweep'.item = i, sweep'.pc = "checked", ~sweep'.resume,
             ~Exempt(i)', sweep'.at[i] = row'[i].updatedAt
      PROVE  ~row'[i].localPath
  <2>a. ~Exempt(i)
    BY <1>2, <1>b
  <2>1. CASE UNCHANGED sweep
    <3>1. sweep.pc = "checked" /\ ~sweep.resume /\ sweep.item = i /\ row'[i].updatedAt = sweep.at[i]
      BY <1>2, <2>1
    <3>2. row[i].updatedAt = sweep.at[i] /\ (row'[i].localPath => row[i].localPath)
      BY <1>a, <3>1 DEF Outdates
    <3> QED BY <2>a, <3>1, <3>2 DEF Calm, LooksHold
  <2>2. CASE SweepCheck
    <3> DEFINE b == canResumeUpload(sweep.seen, sweep.path, sweep.item)
    <3>1. /\ UNCHANGED row /\ sweep.pc = "read" /\ sweep.item = i
          /\ sweep'.at = sweep.at /\ ~b
      <4>1. /\ sweep.pc = "read" /\ sweep \in Sweep /\ UNCHANGED row
            /\ sweep' = [sweep EXCEPT !.pc = "checked", !.seen = "absent", !.path = FALSE, !.resume = b]
        BY <1>a, <2>2 DEF SweepCheck, Typed, TypeOK
      <4> HIDE DEF b
      <4> QED BY <1>2, <4>1 DEF Sweep
    <3>2. /\ sweep.seen = row[i].status /\ (row[i].localPath => sweep.path)
          /\ isRecoverableStatus(sweep.seen)
      BY <1>2, <1>a, <3>1 DEF Snapshots, SelectionHolds
    <3>3. row[i].localPath => row[i].status \in {"downloaded", "uploading", "failed"} /\ file[i] = "whole"
      BY <2>a, <3>2, FoundIfStaged DEF isRecoverableStatus
    <3> QED BY <3>1, <3>2, <3>3 DEF canResumeUpload
  <2>3. sweep'.pc = "checked" => UNCHANGED sweep \/ SweepCheck
    BY <1>a, LooksOnce
  <2> QED BY <1>2, <2>1, <2>2, <2>3
<1>3. /\ \A w \in DWorkers : dw'[w].pc = "checked" => dw'[w].item \in Items
      /\ sweep'.pc = "checked" => sweep'.item \in Items
  BY <1>a DEF Typed, HoldsItem
<1> QED BY <1>1, <1>2, <1>3 DEF LooksHold, Exempt

LEMMA CalmKept ==
  ASSUME Calm, Timely, [Next]_vars
  PROVE  Calm' /\ \A i \in Items : ItemOK(i)
<1>1. Snapshots'
  BY StepTyped, TokensStep, ReadsStep, SelectionStep DEF Calm, Snapshots
<1>2. JobsOwned'
  BY DownloadersOwn, UploadersOwn DEF Calm, Snapshots, Staging, JobsOwned
<1>3. \A i \in Items : Stage(i) /\ remote[i].whole
  BY DEF Calm, Staging
<1>4. \A i \in Items : ItemOK(i)
  BY <1>3, CalmStep, UntouchedOK DEF StepOK, Others
<1>5. \A i \in Items : remote'[i].whole
  BY <1>3, <1>4 DEF ItemOK, StoresWhole
<1>6. LooksHold'
  BY <1>4, LooksStep DEF ItemOK
<1> QED BY <1>1, <1>2, <1>4, <1>5, <1>6 DEF Calm, Staging, ItemOK

LEMMA CalmInvariant ==
  ASSUME Timely
  PROVE  Spec => []Calm
<1>1. Calm /\ [Next]_vars => Calm'
  BY CalmKept
<1> QED BY InitCalm, <1>1, PTL DEF Spec

\* Whatever was lost on the way, the upload strategy only ever stored completely
\* written files, for senders of every kind.
THEOREM WholeFilesUploaded ==
  ASSUME Timely
  PROVE  Spec => []UploadsWholeFiles
<1>1. Calm => UploadsWholeFiles
  BY DEF Calm, Staging, UploadsWholeFiles
<1> QED BY CalmInvariant, <1>1, PTL

\* No staged file is given up before the row says uploaded.
THEOREM StagedUntilUploaded ==
  ASSUME Timely
  PROVE  Spec => StagedFileKept
<1>1. Calm /\ [Next]_vars =>
        [\A i \in Items :
           row[i].sender # "whitelisted" /\ row[i].localPath
             /\ file[i] = "whole" /\ file'[i] # "whole" => row[i].status = "uploaded"]_vars
  BY CalmKept DEF ItemOK, KeepsFile, Exempt
<1> QED BY CalmInvariant, <1>1, PTL DEF Spec, StagedFileKept

\* What a worker or the sweep found out of the staged file may be outdated when it
\* claims or requeues the row, and yet no staged item is downloaded again.
THEOREM DownloadedOnce ==
  ASSUME Timely
  PROVE  Spec => NoSecondDownload
<1>1. ASSUME Calm, [Next]_vars, NEW i \in Items,
             row[i].sender # "whitelisted", row[i].localPath, file[i] = "whole",
             row[i].status \in {"downloaded", "uploading", "failed"}
      PROVE  row'[i].status \notin {"queued", "downloading"}
  <2>1. ~Exempt(i)
    BY <1>1 DEF Exempt
  <2>2. Staged(i)
    BY <1>1, <2>1, FoundIfStaged
  <2>3. Stage(i)' /\ ~Exempt(i)'
    BY <1>1, <2>1, CalmKept DEF ItemOK, RowLives, Exempt
  <2>4. row'[i].localPath
    BY <1>1, <2>2, RowStep DEF Calm, RowStepOK, KeepsPath, Staged
  <2> QED BY <2>3, <2>4 DEF Stage, Unstaged, Staged, Retired
<1>2. Calm /\ [Next]_vars =>
        [\A i \in Items :
           row[i].sender # "whitelisted" /\ row[i].status \in {"downloaded", "uploading", "failed"}
             /\ row[i].localPath /\ file[i] = "whole"
             => row'[i].status \notin {"queued", "downloading"}]_vars
  BY <1>1
<1> QED BY CalmInvariant, <1>2, PTL DEF Spec, NoSecondDownload
----------------------------------------------------------------------------
(* The refinement of MediaLifecycle *)

\* The phase of an item that a step may turn into another one.
Moves(from, to) == \/ from \in {"unknown", "skipped"} /\ to = "pending"
                   \/ from = "pending" /\ to \in {"stored", "skipped", "lost"}

LEMMA PhaseMoves ==
  ASSUME Calm, NEW i \in Items, ItemOK(i)
  PROVE  phaseOf(i)' = phaseOf(i) \/ Moves(phaseOf(i), phaseOf(i)')
<1>a. Stage(i) /\ Stage(i)' /\ RowLives(i) /\ StoresWhole(i)
  BY DEF Calm, Staging, ItemOK
<1>b. remote[i].copies \in Nat
  BY Shapes DEF Calm, Snapshots, Remote
<1>1. CASE Exempt(i)
  <2>1. UNCHANGED remote[i] /\ Exempt(i)'
    BY <1>a, <1>1 DEF StoresWhole, RowLives, Exempt
  <2> QED BY <1>1, <2>1 DEF phaseOf, Moves, Exempt
<1>2. CASE ~Exempt(i) /\ row[i].status = "absent"
  <2>1. UNCHANGED remote[i] /\ remote[i].copies = 0
    BY <1>a, <1>2 DEF StoresWhole, Stage, Unstaged, Staged, Retired
  <2>2. row'[i].status \in {"absent", "queued"}
    BY <1>a, <1>2 DEF RowLives
  <2> QED BY <1>2, <2>1, <2>2 DEF phaseOf, Moves
<1>3. CASE ~Exempt(i) /\ row[i].status = "deleted"
  <2>1. UNCHANGED remote[i] /\ row'[i].status = "deleted" /\ row'[i].sender = row[i].sender
    BY <1>a, <1>3 DEF StoresWhole, RowLives
  <2> QED BY <1>3, <2>1 DEF phaseOf
<1>4. CASE ~Exempt(i) /\ row[i].status \notin {"absent", "deleted"}
  <2>1. row[i].status \notin {"skipped"} /\ row'[i].sender # "whitelisted"
        /\ row'[i].status # "absent"
    BY <1>a, <1>4 DEF Stage, Unstaged, Staged, Retired, RowLives, Exempt
  <2>2. row'[i].status # "skipped"
    BY <1>a, <2>1 DEF Stage, Exempt, Unstaged, Staged, Retired
  <2>3. remote[i].copies > 0 => remote'[i].copies > 0
    BY <1>a DEF StoresWhole
  <2>4. phaseOf(i) = IF remote[i].copies > 0 THEN "stored" ELSE "pending"
    BY <1>4, <2>1 DEF phaseOf
  <2>5. remote'[i].copies > 0 => phaseOf(i)' = "stored"
    BY DEF phaseOf
  <2>6. ~(remote'[i].copies > 0) => phaseOf(i)' \in {"pending", "lost"}
    <3>1. CASE row'[i].status = "deleted"
      BY <2>1, <3>1 DEF phaseOf
    <3>2. CASE row'[i].status # "deleted"
      BY <2>1, <2>2, <3>2 DEF phaseOf
    <3> QED BY <3>1, <3>2
  <2> QED BY <2>3, <2>4, <2>5, <2>6 DEF Moves
<1> QED BY <1>1, <1>2, <1>3, <1>4

LEMMA InitPhases == Init => Lifecycle!Init
<1> SUFFICES ASSUME Init, NEW i \in Items PROVE phaseOf(i) = "unknown"
  BY DEF Lifecycle!Init
<1>1. remote[i].copies = 0 /\ row[i].status = "absent"
  BY DEF Init, NoRow
<1> QED BY <1>1 DEF phaseOf

LEMMA StepPhases ==
  ASSUME Calm, Timely, [Next]_vars
  PROVE  [Lifecycle!Next]_[i \in Items |-> phaseOf(i)]
<1> DEFINE phase == [i \in Items |-> phaseOf(i)]
<1>1. CASE \A i \in Items : Untouched(i)
  <2>1. \A i \in Items : phaseOf(i)' = phaseOf(i)
    BY <1>1 DEF Untouched, phaseOf
  <2> QED BY <2>1
<1>2. ASSUME NEW i \in Items, StepOK(i)
      PROVE  [Lifecycle!Next]_[k \in Items |-> phaseOf(k)]
  <2>1. \A k \in Items \ {i} : phaseOf(k)' = phaseOf(k)
    BY <1>2 DEF StepOK, Others, Untouched, phaseOf
  <2>2. phaseOf(i)' = phaseOf(i) \/ Moves(phaseOf(i), phaseOf(i)')
    BY <1>2, PhaseMoves DEF StepOK
  <2>3. CASE phaseOf(i)' = phaseOf(i)
    <3>1. \A k \in Items : phaseOf(k)' = phaseOf(k)
      BY <2>1, <2>3
    <3> QED BY <3>1
  <2>4. CASE Moves(phaseOf(i), phaseOf(i)')
    <3>1. phase' = [phase EXCEPT ![i] = phaseOf(i)']
      BY <2>1
    <3>2. phase[i] = phaseOf(i)
      OBVIOUS
    <3>3. Lifecycle!Discover(i) \/ Lifecycle!Resolve(i)
      BY <2>4, <3>1, <3>2 DEF Moves, Lifecycle!Discover, Lifecycle!Resolve, Lifecycle!Move
    <3> QED BY <3>3 DEF Lifecycle!Next
  <2> QED BY <2>2, <2>3, <2>4
<1> QED BY <1>1, <1>2, CalmStep

\* Every behaviour of the queues, workers, sweeps and crons is one of the
\* abstract lifecycle: an attachment stored is stored for good, one given up
\* stays so, and each is resolved one at a time.
THEOREM LifecycleImplemented ==
  ASSUME Timely
  PROVE  Spec => ImplementsLifecycle
<1>1. Calm /\ [Next]_vars => [Lifecycle!Next]_[i \in Items |-> phaseOf(i)]
  BY StepPhases
<1> QED BY CalmInvariant, InitPhases, <1>1, PTL DEF Spec, ImplementsLifecycle, Lifecycle!Spec
=============================================================================
