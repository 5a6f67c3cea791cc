--------------------------- MODULE MediaPipeline ---------------------------
(***************************************************************************)
(* The life of a media item: the ingest path and the stale sweep of         *)
(* MediaService, the BullMQ download and upload queues, the download        *)
(* workers, the upload workers and their 'failed' handler, and the cleanup  *)
(* cron.  PostgreSQL rows, queue jobs and staged files are shared state;    *)
(* every await that another process can get between is a step of its own.   *)
(*                                                                          *)
(* A `faults` budget bounds how many things may go wrong in one behaviour;  *)
(* FaultKinds says which.  The two counters `faults` and `replays` are the  *)
(* only bounds of the model besides the pool of timestamps.                 *)
(***************************************************************************)
EXTENDS Integers

CONSTANTS
  Items,        \* media_item rows
  DWorkers,     \* concurrent processors of the download queue
  UWorkers,     \* concurrent processors of the upload queue
  NoItem,       \* no media item
  NoWorker,     \* no job owner
  Stamps,       \* pool of updatedAt instants and lease tokens
  NoStamp,      \* SQL NULL
  MaxAttempts,  \* DOWNLOAD_MAX_RETRIES = UPLOAD_MAX_RETRIES
  MaxFaults,    \* bound: faults in one behaviour
  MaxReplays,   \* bound: repeated deliveries of known messages
  FaultKinds,   \* which faults may happen
  Senders,      \* SUBSET SenderKinds: how user_tu may resolve a row's sender
  Overwrites    \* TRUE for drive_desktop (copyFile), FALSE for drive_api

Statuses == {"absent", "queued", "downloading", "downloaded", "uploading",
             "uploaded", "skipped", "failed", "deleted"}
Ages == {"young", "stale", "old"}
SenderKinds == {"registered", "whitelisted", "unknown"}
Kinds == {"telegram", "io", "drive", "crash", "stall", "slow", "inactive"}

ASSUME ItemsAssumption == NoItem \notin Items
ASSUME WorkersAssumption == NoWorker \notin DWorkers \cup UWorkers
ASSUME StampsAssumption == NoStamp \notin Stamps
ASSUME BoundsAssumption == /\ MaxAttempts \in Nat \ {0}
                           /\ MaxFaults \in Nat
                           /\ MaxReplays \in Nat
                           /\ FaultKinds \subseteq Kinds
ASSUME SenderAssumption == /\ Senders \subseteq SenderKinds /\ Senders # {}
                           /\ Overwrites \in BOOLEAN

VARIABLES
  row,          \* media_item: status, updatedAt, downloadLeaseToken, localPath...
  groupActive,  \* group_state.is_active of the items' chat
  file,         \* the staged file at the item's deterministic localPath
  remote,       \* what the upload strategy stored: copies, and all whole?
  dq, uq,       \* the item's job in the download and in the upload queue
  dw, uw,       \* the download and upload processors
  failEvents,   \* 'failed' events of the upload worker not yet handled
  sweep,        \* recoverStaleMediaItems
  ing,          \* processIncomingMessage, per item
  clean,        \* cleanupUploadedFiles, per item
  faults, replays

vars == <<row, groupActive, file, remote, dq, uq, dw, uw, failEvents, sweep,
          ing, clean, faults, replays>>
downloadVars == <<dq, dw>>
uploadVars == <<uq, uw, failEvents>>
otherVars == <<sweep, ing, clean>>
budgets == <<faults, replays>>
----------------------------------------------------------------------------
(* Rows, timestamps and jobs *)

\* Every instant or UUID some process could still compare with.
InUse(i) == {row[i].updatedAt, row[i].lease, sweep.at[i]}
              \cup {dw[w].at : w \in DWorkers}
              \cup {dw[w].token : w \in DWorkers}

\* `new Date()` and `randomUUID()`: a value nobody holds.  The pool is a bound;
\* StampsSuffice says it never binds.
CanStamp(i) == \E s \in Stamps : s \notin InUse(i)
Fresh(i) == CHOOSE s \in Stamps : s \notin InUse(i)

\* A write of item i that sets status and updatedAt.
Write(i, status, lease, path) ==
  /\ CanStamp(i)
  /\ row' = [row EXCEPT ![i] = [@ EXCEPT !.status = status, !.lease = lease,
                                         !.localPath = path, !.age = "young",
                                         !.updatedAt = Fresh(i)]]

\* Mutants: a sweep that forgets interrupted downloads or failed rows.
RecoverableNotDownloading(status) == status \in {"queued", "downloaded", "uploading", "failed"}
RecoverableNotFailed(status) == status \in {"queued", "downloading", "downloaded", "uploading"}
isRecoverableStatus(status) ==
  status \in {"queued", "downloading", "downloaded", "uploading", "failed"}

\* Mutant: resume although the row never pointed to the file.
ResumeAnyFile(status, path, i) ==
  status \in {"downloaded", "uploading", "failed"} /\ file[i] # "absent"
\* sizeBytes is set whenever localPath is, so it needs no field of its own.
canResumeUpload(status, path, i) ==
  /\ status \in {"downloaded", "uploading", "failed"}
  /\ path
  /\ file[i] # "absent"

NoJob == [state |-> "none", made |-> 0, owner |-> NoWorker, stalled |-> FALSE]

\* queue.add with deduplication: ignored while a job of the item is unfinished.
Enqueued(job) == IF job.state = "none" THEN [NoJob EXCEPT !.state = "waiting"]
                                       ELSE job
Taken(job, w) == [job EXCEPT !.state = "active", !.owner = w]

\* A processor settles its job only while it still holds the job's lock.
Completed(job, w) == IF job.owner = w THEN NoJob ELSE job
\* Mutant: one attempt too many.
OneMoreAttempt(job, w) ==
  IF job.owner # w THEN job
  ELSE IF job.made >= MaxAttempts THEN NoJob
  ELSE [job EXCEPT !.state = "waiting", !.owner = NoWorker, !.made = @ + 1]
AttemptFailed(job, w) ==
  IF job.owner # w THEN job
  ELSE IF job.made + 1 >= MaxAttempts THEN NoJob
  ELSE [job EXCEPT !.state = "waiting", !.owner = NoWorker, !.made = @ + 1]
\* The stalled-job checker: once back to waiting, then failed for good.
Stalled(job) ==
  IF job.stalled THEN NoJob
  ELSE [job EXCEPT !.state = "waiting", !.owner = NoWorker, !.stalled = TRUE]

Fault(kind) == /\ kind \in FaultKinds
               /\ faults > 0
               /\ faults' = faults - 1
               /\ UNCHANGED replays
\* Free when `usual` holds, a fault otherwise.
Unless(kind, usual) == IF usual THEN UNCHANGED budgets ELSE Fault(kind)
----------------------------------------------------------------------------
IdleD == [pc |-> "idle", item |-> NoItem, status |-> "absent", at |-> NoStamp,
          path |-> FALSE, token |-> NoStamp, final |-> FALSE, telegram |-> FALSE]
IdleU == [pc |-> "idle", item |-> NoItem, path |-> FALSE]
IdleI == [pc |-> "idle", status |-> "absent", path |-> FALSE]
IdleS == [status |-> [i \in Items |-> "absent"], at |-> [i \in Items |-> NoStamp],
          pc |-> "idle", item |-> NoItem, seen |-> "absent", path |-> FALSE, resume |-> FALSE]
NoRow == [status |-> "absent", updatedAt |-> NoStamp, lease |-> NoStamp,
          localPath |-> FALSE, driveFileId |-> FALSE, age |-> "young", sender |-> "unknown"]

Init ==
  /\ row = [i \in Items |-> NoRow]
  /\ groupActive = TRUE
  /\ file = [i \in Items |-> "absent"]
  /\ remote = [i \in Items |-> [copies |-> 0, whole |-> TRUE]]
  /\ dq = [i \in Items |-> NoJob]
  /\ uq = [i \in Items |-> NoJob]
  /\ dw = [w \in DWorkers |-> IdleD]
  /\ uw = [u \in UWorkers |-> IdleU]
  /\ failEvents = [i \in Items |-> 0]
  /\ sweep = IdleS
  /\ ing = [i \in Items |-> IdleI]
  /\ clean = [i \in Items |-> "idle"]
  /\ faults = MaxFaults
  /\ replays = MaxReplays
----------------------------------------------------------------------------
(* Ingest: processIncomingMessage, one media of one message *)

\* A live, backfilled or reconciled message: the row is created or found as it
\* is; a deleted item goes no further.
IngestUpsert(i) ==
  /\ ing[i].pc = "idle" /\ groupActive
  /\ IF row[i].status = "absent"
     THEN /\ \E s \in Senders : row' = [row EXCEPT ![i] = [@ EXCEPT !.status = "queued", !.sender = s]]
          /\ ing' = [ing EXCEPT ![i] = [pc |-> "upserted", status |-> "queued", path |-> FALSE]]
          /\ UNCHANGED replays
     ELSE /\ replays > 0 /\ replays' = replays - 1
          /\ row[i].status # "deleted"
          /\ ing' = [ing EXCEPT ![i] = [pc |-> "upserted", status |-> row[i].status,
                                        path |-> row[i].localPath]]
          /\ UNCHANGED row
  /\ UNCHANGED <<groupActive, file, remote, downloadVars, uploadVars, sweep, clean, faults>>

\* The status read by the upsert, possibly stale by now, and the staged file
\* pick the queue; an uploaded item needs none.
IngestCheck(i) ==
  LET resume == canResumeUpload(ing[i].status, ing[i].path, i)
                  /\ ing[i].status \in {"downloaded", "uploading"}
  IN
  /\ ing[i].pc = "upserted"
  /\ ing' = [ing EXCEPT ![i] = [IdleI EXCEPT !.pc =
       IF ing[i].status = "uploaded" THEN "idle" ELSE IF resume THEN "upload" ELSE "download"]]
  /\ UNCHANGED <<row, groupActive, file, remote, downloadVars, uploadVars, sweep, clean, budgets>>

IngestEnqueue(i) ==
  /\ \/ ing[i].pc = "upload" /\ uq' = [uq EXCEPT ![i] = Enqueued(@)] /\ UNCHANGED dq
     \/ ing[i].pc = "download" /\ dq' = [dq EXCEPT ![i] = Enqueued(@)] /\ UNCHANGED uq
  /\ ing' = [ing EXCEPT ![i] = IdleI]
  /\ UNCHANGED <<row, groupActive, file, remote, dw, uw, failEvents, sweep, clean, budgets>>

\* The event log, the queue or the process fails after the upsert.
IngestFail(i) ==
  /\ ing[i].pc # "idle" /\ Fault("io")
  /\ ing' = [ing EXCEPT ![i] = IdleI]
  /\ UNCHANGED <<row, groupActive, file, remote, downloadVars, uploadVars, sweep, clean>>
----------------------------------------------------------------------------
(* Download worker: downloadMediaItem and downloadAndQueueMedia *)

\* A row the download job has nothing to do for.
\* Mutant: terminal failures are downloaded again.
DoneUnlessDeleted(status) == status \in {"absent", "uploaded"}
DownloadDone(status) == status \in {"absent", "uploaded", "deleted"}

\* The processor takes the job and reads the row and the group.
DownloadStart(w, i) ==
  /\ dw[w].pc = "idle" /\ dq[i].state = "waiting"
  /\ LET job == Taken(dq[i], w)
     IN  IF DownloadDone(row[i].status)
         THEN dq' = [dq EXCEPT ![i] = Completed(job, w)] /\ UNCHANGED dw
         ELSE IF ~groupActive
         THEN dq' = [dq EXCEPT ![i] = AttemptFailed(job, w)] /\ UNCHANGED dw
         ELSE /\ dq' = [dq EXCEPT ![i] = job]
              /\ dw' = [dw EXCEPT ![w] =
                   [IdleD EXCEPT !.pc = "read", !.item = i, !.status = row[i].status,
                                 !.at = row[i].updatedAt, !.path = row[i].localPath,
                                 !.final = job.made + 1 >= MaxAttempts]]
  /\ UNCHANGED <<row, groupActive, file, remote, uploadVars, otherVars, budgets>>

\* The staged file is looked for; what is found is acted on one await later.
DownloadCheck(w) ==
  /\ dw[w].pc = "read"
  /\ dw' = [dw EXCEPT ![w].path = FALSE, ![w].pc =
       IF canResumeUpload(dw[w].status, dw[w].path, dw[w].item) THEN "resuming" ELSE "checked"]
  /\ UNCHANGED <<row, groupActive, file, remote, dq, uploadVars, otherVars, budgets>>

\* Mutants: a download under way may be claimed; the write is not conditional on
\* the snapshot, or on its status only.
OwnedIfUploading(status) == status = "uploading"
OwnedElsewhere(status) == status \in {"downloading", "uploading"}
UnchangedAssumed(i, status, at) == TRUE
UnchangedStatus(i, status, at) == row[i].status = status
\* The compare-and-set on the snapshot's status and updatedAt.
Unchanged(i, status, at) == row[i].status = status /\ row[i].updatedAt = at

\* A staged file is already there: hand it to the upload queue.
DownloadResume(w) ==
  /\ dw[w].pc = "resuming"
  /\ uq' = [uq EXCEPT ![dw[w].item] = Enqueued(@)]
  /\ dq' = [dq EXCEPT ![dw[w].item] = Completed(@, w)]
  /\ dw' = [dw EXCEPT ![w] = IdleD]
  /\ UNCHANGED <<row, groupActive, file, remote, uw, failEvents, otherVars, budgets>>

\* Another process owns the item, or wrote it since the snapshot.
DownloadDecline(w) ==
  /\ dw[w].pc = "checked"
  /\ \/ OwnedElsewhere(dw[w].status)
     \/ ~Unchanged(dw[w].item, dw[w].status, dw[w].at)
  /\ dq' = [dq EXCEPT ![dw[w].item] = Completed(@, w)]
  /\ dw' = [dw EXCEPT ![w] = IdleD]
  /\ UNCHANGED <<row, groupActive, file, remote, uploadVars, otherVars, budgets>>

\* The claim: compare-and-set to downloading under a new lease token.
DownloadClaim(w) ==
  LET i == dw[w].item IN
  /\ dw[w].pc = "checked" /\ ~OwnedElsewhere(dw[w].status)
  /\ Unchanged(i, dw[w].status, dw[w].at)
  /\ Write(i, "downloading", Fresh(i), row[i].localPath)
  /\ dw' = [dw EXCEPT ![w].pc = "claimed", ![w].at = NoStamp, ![w].token = Fresh(i)]
  /\ UNCHANGED <<groupActive, file, remote, dq, uploadVars, otherVars, budgets>>

\* Telegram delivered the bytes; fs.writeFile truncates the staged file.
DownloadWrite(w) ==
  /\ dw[w].pc = "claimed"
  /\ file' = [file EXCEPT ![dw[w].item] = "partial"]
  /\ dw' = [dw EXCEPT ![w].pc = "writing"]
  /\ UNCHANGED <<row, groupActive, remote, dq, uploadVars, otherVars, budgets>>

\* The last byte is written.  A file unlinked meanwhile stays absent, and the
\* hash then throws; with a second writer under way the content is not settled.
DownloadWritten(w) ==
  LET i == dw[w].item
      shared == \E v \in DWorkers \ {w} : dw[v].pc = "writing" /\ dw[v].item = i
  IN
  /\ dw[w].pc = "writing"
  /\ file' = IF file[i] = "absent" \/ shared THEN file ELSE [file EXCEPT ![i] = "whole"]
  /\ dw' = [dw EXCEPT ![w].pc = IF file[i] = "absent" THEN "failing" ELSE "written"]
  /\ UNCHANGED <<row, groupActive, remote, dq, uploadVars, otherVars, budgets>>

\* getMessages or downloadMedia failed: a TelegramMediaDownloadError.
DownloadTelegramFail(w) ==
  /\ dw[w].pc = "claimed" /\ Fault("telegram")
  /\ dw' = [dw EXCEPT ![w].pc = "failing", ![w].telegram = TRUE]
  /\ UNCHANGED <<row, groupActive, file, remote, dq, uploadVars, otherVars>>

\* The event log, the file system or the completion query failed.
DownloadIoFail(w) ==
  /\ dw[w].pc \in {"claimed", "writing", "written"} /\ Fault("io")
  /\ dw' = [dw EXCEPT ![w].pc = "failing"]
  /\ UNCHANGED <<row, groupActive, file, remote, dq, uploadVars, otherVars>>

OwnsLease(w) == /\ row[dw[w].item].status = "downloading"
                /\ row[dw[w].item].lease = dw[w].token

\* The completion: compare-and-set on the lease token.
DownloadPersist(w) ==
  LET i == dw[w].item IN
  /\ dw[w].pc = "written"
  /\ IF OwnsLease(w)
     THEN /\ Write(i, "downloaded", NoStamp, TRUE)
          /\ dw' = [dw EXCEPT ![w].pc = "persisted", ![w].token = NoStamp, ![w].at = Fresh(i)]
          /\ UNCHANGED dq
     ELSE /\ dw' = [dw EXCEPT ![w] = IdleD]
          /\ dq' = [dq EXCEPT ![i] = Completed(@, w)]
          /\ UNCHANGED row
  /\ UNCHANGED <<groupActive, file, remote, uploadVars, otherVars, budgets>>

DownloadHandoff(w) ==
  /\ dw[w].pc = "persisted"
  /\ uq' = [uq EXCEPT ![dw[w].item] = Enqueued(@)]
  /\ dq' = [dq EXCEPT ![dw[w].item] = Completed(@, w)]
  /\ dw' = [dw EXCEPT ![w] = IdleD]
  /\ UNCHANGED <<row, groupActive, file, remote, uw, failEvents, otherVars, budgets>>

\* The log or the enqueue failed after completion: recordDownloadFailure keeps
\* the row downloaded if nobody wrote it since, and the attempt fails.
DownloadHandoffFail(w) ==
  LET i == dw[w].item IN
  /\ dw[w].pc = "persisted" /\ Fault("io")
  /\ IF Unchanged(i, "downloaded", dw[w].at)
     THEN Write(i, "downloaded", NoStamp, row[i].localPath)
     ELSE UNCHANGED row
  /\ dq' = [dq EXCEPT ![i] = AttemptFailed(@, w)]
  /\ dw' = [dw EXCEPT ![w] = IdleD]
  /\ UNCHANGED <<groupActive, file, remote, uploadVars, otherVars>>

\* recordDownloadFailure before completion: compare-and-set on the lease token;
\* a Telegram failure of the final attempt is terminal.
DownloadRecordFailure(w) ==
  LET i == dw[w].item
      terminal == dw[w].telegram /\ dw[w].final
  IN
  /\ dw[w].pc = "failing"
  /\ IF OwnsLease(w)
     THEN Write(i, IF terminal THEN "deleted" ELSE "failed", NoStamp, row[i].localPath)
     ELSE UNCHANGED row
  /\ IF terminal
     THEN dw' = [dw EXCEPT ![w].pc = "removing", ![w].token = NoStamp] /\ UNCHANGED dq
     ELSE /\ dw' = [dw EXCEPT ![w] = IdleD]
          /\ dq' = [dq EXCEPT ![i] = AttemptFailed(@, w)]
  /\ UNCHANGED <<groupActive, file, remote, uploadVars, otherVars, budgets>>

\* The terminal failure's fs.rm of the staged path, owner or not.
DownloadRemove(w) ==
  LET i == dw[w].item IN
  /\ dw[w].pc = "removing"
  /\ file' = [file EXCEPT ![i] = "absent"]
  /\ dq' = [dq EXCEPT ![i] = AttemptFailed(@, w)]
  /\ dw' = [dw EXCEPT ![w] = IdleD]
  /\ UNCHANGED <<row, groupActive, remote, uploadVars, otherVars, budgets>>

\* refreshDownloadHeartbeat.  A refresh nobody could notice is left out.
DownloadHeartbeat(w) ==
  LET i == dw[w].item IN
  /\ dw[w].pc \in {"claimed", "writing", "written"} /\ OwnsLease(w)
  /\ row[i].age # "young" \/ sweep.at[i] = row[i].updatedAt
  /\ Write(i, "downloading", row[i].lease, row[i].localPath)
  /\ UNCHANGED <<groupActive, file, remote, downloadVars, uploadVars, otherVars, budgets>>

DownloadCrash(w) ==
  /\ dw[w].pc # "idle" /\ Fault("crash")
  /\ dw' = [dw EXCEPT ![w] = IdleD]
  /\ UNCHANGED <<row, groupActive, file, remote, dq, uploadVars, otherVars>>

\* An active job whose processor is gone, or whose lock expired under it.
DownloadStall(i) ==
  /\ dq[i].state = "active"
  /\ Unless("stall", \A w \in DWorkers : dw[w].item = i => dq[i].owner # w)
  /\ dq' = [dq EXCEPT ![i] = Stalled(@)]
  /\ UNCHANGED <<row, groupActive, file, remote, dw, uploadVars, otherVars>>
----------------------------------------------------------------------------
(* Upload worker: processJob and failJob *)

\* The retry backoff outlasts the 'failed' handler of the attempt before.
UploadStart(u, i) ==
  /\ uw[u].pc = "idle" /\ uq[i].state = "waiting"
  /\ Unless("slow", failEvents[i] = 0)
  /\ IF row[i].status = "skipped" \/ (row[i].status = "uploaded" /\ row[i].driveFileId)
     THEN uq' = [uq EXCEPT ![i] = NoJob] /\ UNCHANGED uw
     ELSE /\ uq' = [uq EXCEPT ![i] = Taken(@, u)]
          /\ uw' = [uw EXCEPT ![u] = [pc |-> "read", item |-> i, path |-> row[i].localPath]]
  /\ UNCHANGED <<row, groupActive, file, remote, downloadVars, failEvents, otherVars>>

\* The attempt throws: BullMQ settles the job and emits 'failed' to its owner.
Throw(u) ==
  LET i == uw[u].item IN
  /\ uq' = [uq EXCEPT ![i] = AttemptFailed(@, u)]
  /\ failEvents' = IF uq[i].owner = u THEN [failEvents EXCEPT ![i] = @ + 1] ELSE failEvents
  /\ uw' = [uw EXCEPT ![u] = IdleU]

\* skipWhitelistedAdminMedia.
UploadSkip(u) ==
  LET i == uw[u].item IN
  /\ uw[u].pc = "read" /\ row[i].sender = "whitelisted"
  /\ Write(i, "skipped", row[i].lease, row[i].localPath)
  /\ uq' = [uq EXCEPT ![i] = Completed(@, u)]
  /\ uw' = [uw EXCEPT ![u] = IdleU]
  /\ UNCHANGED <<groupActive, file, remote, downloadVars, failEvents, otherVars, budgets>>

UploadRefuse(u) ==
  /\ uw[u].pc = "read" /\ row[uw[u].item].sender = "unknown"
  /\ Throw(u)
  /\ UNCHANGED <<row, groupActive, file, remote, downloadVars, otherVars, budgets>>

\* The unconditional update to uploading.
UploadMark(u) ==
  LET i == uw[u].item IN
  /\ uw[u].pc = "read" /\ row[i].sender = "registered"
  /\ Write(i, "uploading", row[i].lease, row[i].localPath)
  /\ uw' = [uw EXCEPT ![u].pc = "marked"]
  /\ UNCHANGED <<groupActive, file, remote, downloadVars, uq, failEvents, otherVars, budgets>>

\* strategy.upload of whatever the staged path holds; `copies` saturates at 2.
UploadCopy(u) ==
  LET i == uw[u].item IN
  /\ uw[u].pc = "marked" /\ file[i] # "absent"
  /\ remote' = [remote EXCEPT ![i] =
       [copies |-> IF Overwrites \/ @.copies = 0 THEN 1 ELSE 2,
        whole |-> @.whole /\ file[i] = "whole"]]
  /\ uw' = [uw EXCEPT ![u].pc = "copied"]
  /\ UNCHANGED <<row, groupActive, file, downloadVars, uq, failEvents, otherVars, budgets>>

\* The source file is gone: stat, copyFile or the read stream throws.
UploadMissing(u) ==
  /\ uw[u].pc = "marked" /\ file[uw[u].item] = "absent"
  /\ Throw(u)
  /\ UNCHANGED <<row, groupActive, file, remote, downloadVars, otherVars, budgets>>

\* The unconditional update to uploaded.
UploadStore(u) ==
  LET i == uw[u].item IN
  /\ uw[u].pc = "copied" /\ CanStamp(i)
  /\ row' = [row EXCEPT ![i] = [@ EXCEPT !.status = "uploaded", !.driveFileId = TRUE,
                                         !.updatedAt = Fresh(i), !.age = "young"]]
  /\ uw' = [uw EXCEPT ![u].pc = "stored"]
  /\ UNCHANGED <<groupActive, file, remote, downloadVars, uq, failEvents, otherVars, budgets>>

UploadFinish(u) ==
  LET i == uw[u].item IN
  /\ uw[u].pc = "stored"
  /\ file' = IF uw[u].path THEN [file EXCEPT ![i] = "absent"] ELSE file
  /\ uq' = [uq EXCEPT ![i] = Completed(@, u)]
  /\ uw' = [uw EXCEPT ![u] = IdleU]
  /\ UNCHANGED <<row, groupActive, remote, downloadVars, failEvents, otherVars, budgets>>

\* The Drive refuses the folder or the file.
UploadDriveFail(u) ==
  /\ uw[u].pc = "marked" /\ Fault("drive")
  /\ Throw(u)
  /\ UNCHANGED <<row, groupActive, file, remote, downloadVars, otherVars>>

\* A query or the event log fails: before the copy, before the row says
\* uploaded, or after it.
UploadIoFail(u) ==
  /\ uw[u].pc \in {"read", "marked", "copied", "stored"} /\ Fault("io")
  /\ Throw(u)
  /\ UNCHANGED <<row, groupActive, file, remote, downloadVars, otherVars>>

\* The 'failed' handler: an unconditional update, whatever the row says now.
failJob(i) ==
  /\ failEvents[i] > 0
  /\ Write(i, "failed", row[i].lease, row[i].localPath)
  /\ failEvents' = [failEvents EXCEPT ![i] = @ - 1]
  /\ UNCHANGED <<groupActive, file, remote, downloadVars, uq, uw, otherVars, budgets>>

UploadCrash(u) ==
  /\ uw[u].pc # "idle" /\ Fault("crash")
  /\ uw' = [uw EXCEPT ![u] = IdleU]
  /\ UNCHANGED <<row, groupActive, file, remote, downloadVars, uq, failEvents, otherVars>>

UploadStall(i) ==
  /\ uq[i].state = "active"
  /\ Unless("stall", \A u \in UWorkers : uw[u].item = i => uq[i].owner # u)
  /\ uq' = [uq EXCEPT ![i] = Stalled(@)]
  /\ failEvents' = IF uq[i].stalled THEN [failEvents EXCEPT ![i] = @ + 1] ELSE failEvents
  /\ UNCHANGED <<row, groupActive, file, remote, downloadVars, uw, otherVars>>
----------------------------------------------------------------------------
(* Stale sweep: recoverStaleMediaItems and recoverMediaItem *)

\* Time passes: updatedAt (createdAt if NULL) drops below the sweep's cutoff,
\* hours later below the cleanup's.  Usually heartbeats keep a live download
\* above the cutoff, and a step from one query to the next is over before it; no
\* job waits for hours.
Leased(i) == \E w \in DWorkers : dw[w].item = i /\ dw[w].token # NoStamp /\ OwnsLease(w)
InStep(i) == \/ failEvents[i] > 0 \/ ing[i].pc # "idle" \/ sweep.item = i
             \/ \E w \in DWorkers : dw[w].item = i /\ dw[w].pc \in {"read", "checked", "resuming"}
             \/ \E u \in UWorkers : uw[u].item = i /\ uw[u].pc = "read"
Held(i) == \/ dq[i].state # "none" \/ uq[i].state # "none"
           \/ \E w \in DWorkers : dw[w].item = i
           \/ \E u \in UWorkers : uw[u].item = i
Age(i) ==
  /\ \/ /\ row[i].age = "young" /\ row[i].status \notin {"absent", "deleted"}
        /\ Unless("slow", ~Leased(i) /\ ~InStep(i))
        /\ row' = [row EXCEPT ![i].age = "stale"]
     \/ /\ row[i].age = "stale" /\ row[i].status \in {"uploaded", "skipped"}
        /\ ~InStep(i) /\ ~Held(i)
        /\ row' = [row EXCEPT ![i].age = "old"]
        /\ UNCHANGED budgets
  /\ UNCHANGED <<groupActive, file, remote, downloadVars, uploadVars, otherVars>>

Stale(i) == isRecoverableStatus(row[i].status) /\ row[i].age # "young"

SweepSelect ==
  /\ sweep = IdleS /\ \E i \in Items : Stale(i)
  /\ sweep' = [IdleS EXCEPT
       !.status = [i \in Items |-> IF Stale(i) THEN row[i].status ELSE "absent"],
       !.at = [i \in Items |-> IF Stale(i) THEN row[i].updatedAt ELSE NoStamp]]
  /\ UNCHANGED <<row, groupActive, file, remote, downloadVars, uploadVars, ing, clean, budgets>>

\* Done with item i: on to the next one.
Dropped(i) == [IdleS EXCEPT !.status = [sweep.status EXCEPT ![i] = "absent"],
                            !.at = [sweep.at EXCEPT ![i] = NoStamp]]

\* The selected row is read again, with its group.
SweepRead(i) ==
  /\ sweep.pc = "idle" /\ sweep.status[i] # "absent"
  /\ sweep' = IF isRecoverableStatus(row[i].status) /\ groupActive
              THEN [sweep EXCEPT !.pc = "read", !.item = i, !.seen = row[i].status,
                                 !.path = row[i].localPath]
              ELSE Dropped(i)
  /\ UNCHANGED <<row, groupActive, file, remote, downloadVars, uploadVars, ing, clean, budgets>>

\* What the second reading and the staged file say decides how to go on ...
SweepCheck ==
  /\ sweep.pc = "read"
  /\ sweep' = [sweep EXCEPT !.pc = "checked", !.seen = "absent", !.path = FALSE,
                            !.resume = canResumeUpload(sweep.seen, sweep.path, sweep.item)]
  /\ UNCHANGED <<row, groupActive, file, remote, downloadVars, uploadVars, ing, clean, budgets>>

\* ... if the row is still the one first selected.
SweepClaim ==
  LET i == sweep.item IN
  /\ sweep.pc = "checked"
  /\ IF Unchanged(i, sweep.status[i], sweep.at[i])
     THEN /\ Write(i, IF sweep.resume THEN "downloaded" ELSE "queued", NoStamp, row[i].localPath)
          /\ sweep' = [Dropped(i) EXCEPT !.pc = "claimed", !.item = i, !.resume = sweep.resume]
     ELSE sweep' = Dropped(i) /\ UNCHANGED row
  /\ UNCHANGED <<groupActive, file, remote, downloadVars, uploadVars, ing, clean, budgets>>

SweepEnqueue ==
  LET i == sweep.item IN
  /\ sweep.pc = "claimed"
  /\ IF sweep.resume THEN uq' = [uq EXCEPT ![i] = Enqueued(@)] /\ UNCHANGED dq
                     ELSE dq' = [dq EXCEPT ![i] = Enqueued(@)] /\ UNCHANGED uq
  /\ sweep' = Dropped(i)
  /\ UNCHANGED <<row, groupActive, file, remote, dw, uw, failEvents, ing, clean, budgets>>

\* A query, the log or the enqueue throws; the sweep goes on with the next item.
SweepIoFail ==
  /\ sweep.pc # "idle" /\ Fault("io")
  /\ sweep' = Dropped(sweep.item)
  /\ UNCHANGED <<row, groupActive, file, remote, downloadVars, uploadVars, ing, clean>>

\* The ingestor dies, loses its lease or runs out of budget.
SweepCut ==
  /\ sweep # IdleS /\ Fault("crash")
  /\ sweep' = IdleS
  /\ UNCHANGED <<row, groupActive, file, remote, downloadVars, uploadVars, ing, clean>>
----------------------------------------------------------------------------
(* Cleanup cron: cleanupUploadedFiles, and the group flag *)

\* Mutant: the retention time is ignored.
CleanupListEarly(i) ==
  /\ clean[i] = "idle"
  /\ row[i].status \in {"uploaded", "skipped"} /\ row[i].localPath
  /\ clean' = [clean EXCEPT ![i] = "listed"]
  /\ UNCHANGED <<row, groupActive, file, remote, downloadVars, uploadVars, sweep, ing, budgets>>
CleanupList(i) ==
  /\ clean[i] = "idle"
  /\ row[i].status \in {"uploaded", "skipped"} /\ row[i].localPath /\ row[i].age = "old"
  /\ clean' = [clean EXCEPT ![i] = "listed"]
  /\ UNCHANGED <<row, groupActive, file, remote, downloadVars, uploadVars, sweep, ing, budgets>>

CleanupRemove(i) ==
  /\ clean[i] = "listed"
  /\ file' = [file EXCEPT ![i] = "absent"]
  /\ clean' = [clean EXCEPT ![i] = "removed"]
  /\ UNCHANGED <<row, groupActive, remote, downloadVars, uploadVars, sweep, ing, budgets>>

\* updatedAt is left alone.
CleanupForget(i) ==
  /\ clean[i] = "removed"
  /\ row' = [row EXCEPT ![i].localPath = FALSE]
  /\ clean' = [clean EXCEPT ![i] = "idle"]
  /\ UNCHANGED <<groupActive, file, remote, downloadVars, uploadVars, sweep, ing, budgets>>

\* An administrator switches the group off; a reconciliation checkpoint
\* switches it on again.
GroupDeactivate ==
  /\ groupActive /\ Fault("inactive")
  /\ groupActive' = FALSE
  /\ UNCHANGED <<row, file, remote, downloadVars, uploadVars, otherVars>>

GroupReactivate ==
  /\ ~groupActive /\ groupActive' = TRUE
  /\ UNCHANGED <<row, file, remote, downloadVars, uploadVars, otherVars, budgets>>
----------------------------------------------------------------------------
DownloadStep(w) ==
  \/ \E i \in Items : DownloadStart(w, i)
  \/ DownloadCheck(w) \/ DownloadResume(w) \/ DownloadDecline(w) \/ DownloadClaim(w)
  \/ DownloadWrite(w) \/ DownloadWritten(w) \/ DownloadPersist(w)
  \/ DownloadHandoff(w) \/ DownloadRecordFailure(w) \/ DownloadRemove(w)

UploadStep(u) ==
  \/ \E i \in Items : UploadStart(u, i)
  \/ UploadSkip(u) \/ UploadRefuse(u) \/ UploadMark(u) \/ UploadCopy(u)
  \/ UploadMissing(u) \/ UploadStore(u) \/ UploadFinish(u)

SweepStep == SweepSelect \/ (\E i \in Items : SweepRead(i)) \/ SweepCheck \/ SweepClaim \/ SweepEnqueue

CleanupStep(i) == CleanupList(i) \/ CleanupRemove(i) \/ CleanupForget(i)

FaultStep ==
  \/ \E i \in Items : IngestFail(i)
  \/ \E w \in DWorkers : \/ DownloadTelegramFail(w) \/ DownloadIoFail(w)
                         \/ DownloadHandoffFail(w) \/ DownloadCrash(w)
  \/ \E u \in UWorkers : UploadDriveFail(u) \/ UploadIoFail(u) \/ UploadCrash(u)
  \/ SweepIoFail \/ SweepCut \/ GroupDeactivate

Next ==
  \/ \E i \in Items : \/ IngestUpsert(i) \/ IngestCheck(i) \/ IngestEnqueue(i) \/ failJob(i)
                      \/ DownloadStall(i) \/ UploadStall(i) \/ Age(i)
                      \/ CleanupStep(i)
  \/ \E w \in DWorkers : DownloadStep(w) \/ DownloadHeartbeat(w)
  \/ \E u \in UWorkers : UploadStep(u)
  \/ SweepStep \/ GroupReactivate \/ FaultStep

Spec == Init /\ [][Next]_vars

\* Every process keeps running: the queues redeliver, the crons fire, timers
\* expire.  A sweep does not forever hit the instants between a worker's read of a
\* row, its look at the file and its claim.  Replays and faults are never owed.
Fairness ==
  /\ \A i \in Items : /\ WF_vars(IngestCheck(i) \/ IngestEnqueue(i)) /\ WF_vars(failJob(i))
                      /\ WF_vars(DownloadStall(i) /\ UNCHANGED faults)
                      /\ WF_vars(UploadStall(i) /\ UNCHANGED faults)
                      /\ WF_vars(Age(i) /\ UNCHANGED faults)
                      /\ WF_vars(SweepRead(i))
  /\ \A w \in DWorkers : /\ WF_vars(DownloadStep(w)) /\ WF_vars(DownloadHeartbeat(w))
                         /\ SF_vars(/\ DownloadCheck(w)
                                    /\ Unchanged(dw[w].item, dw[w].status, dw[w].at))
                         /\ SF_vars(DownloadClaim(w))
  /\ \A u \in UWorkers : WF_vars(UploadStep(u))
  /\ WF_vars(SweepSelect) /\ WF_vars(SweepCheck \/ SweepClaim \/ SweepEnqueue) /\ WF_vars(GroupReactivate)

FairSpec == Spec /\ Fairness
----------------------------------------------------------------------------
(* Properties *)

Stamps0 == Stamps \cup {NoStamp}
Job(W) == [state : {"none", "waiting", "active"}, made : 0..MaxAttempts - 1,
           owner : W \cup {NoWorker}, stalled : BOOLEAN]
MediaItem == [status : Statuses, updatedAt : Stamps0, lease : Stamps0,
              localPath : BOOLEAN, driveFileId : BOOLEAN, age : Ages, sender : SenderKinds]
Downloader == [pc : {"idle", "read", "checked", "resuming", "claimed", "writing", "written",
                     "persisted", "failing", "removing"},
               item : Items \cup {NoItem}, status : Statuses, at : Stamps0,
               path : BOOLEAN, token : Stamps0, final : BOOLEAN, telegram : BOOLEAN]
Uploader == [pc : {"idle", "read", "marked", "copied", "stored"},
             item : Items \cup {NoItem}, path : BOOLEAN]
Ingest == [pc : {"idle", "upserted", "upload", "download"}, status : Statuses, path : BOOLEAN]
Sweep == [status : [Items -> Statuses], at : [Items -> Stamps0],
          pc : {"idle", "read", "checked", "claimed"}, item : Items \cup {NoItem},
          seen : Statuses, path : BOOLEAN, resume : BOOLEAN]
Remote == [copies : 0..2, whole : BOOLEAN]

TypeOK ==
  /\ row \in [Items -> MediaItem]
  /\ groupActive \in BOOLEAN
  /\ file \in [Items -> {"absent", "partial", "whole"}]
  /\ remote \in [Items -> Remote]
  /\ dq \in [Items -> Job(DWorkers)]
  /\ uq \in [Items -> Job(UWorkers)]
  /\ dw \in [DWorkers -> Downloader]
  /\ uw \in [UWorkers -> Uploader]
  /\ failEvents \in [Items -> Nat]
  /\ sweep \in Sweep
  /\ ing \in [Items -> Ingest]
  /\ clean \in [Items -> {"idle", "listed", "removed"}]
  /\ faults \in 0..MaxFaults
  /\ replays \in 0..MaxReplays

\* While the heartbeat of a download is not late, no other worker's claim and no
\* sweep takes the lease from its owner, however many workers a stalled job was given
\* to and whatever they or the sweep read before the last beat.
LiveDownloadKept ==
  [][\A w \in DWorkers : LET i == dw[w].item IN
       dw[w].token # NoStamp /\ OwnsLease(w) /\ row[i].age = "young"
         => row'[i].lease = row[i].lease \/ dw'[w].token = NoStamp]_vars

\* Replayed messages, download jobs and the stale sweep never take an item back
\* that is already uploaded or deleted, however stale what they read of it is.
FinalNotRequeued ==
  [][\A i \in Items : row[i].status \in {"uploaded", "deleted"} =>
        row'[i].status \notin {"queued", "downloading", "downloaded"}]_vars

\* Whatever the upload strategy stored was a completely written staged file.
UploadsWholeFiles == \A i \in Items : remote[i].whole

\* A completely staged file that its row points to is given up only once the row
\* says uploaded.  A whitelisted sender's file is meant to be given up: its skip
\* can run beside a second download of the replayed message.
StagedFileKept ==
  [][\A i \in Items :
       row[i].sender # "whitelisted" /\ row[i].localPath
         /\ file[i] = "whole" /\ file'[i] # "whole" => row[i].status = "uploaded"]_vars

\* While jobs do not stall and timers are not late, an item downloaded once is not
\* queued or claimed for download again while its file is staged, although the file is
\* looked for one await before the row is claimed, or requeued by the sweep, and may
\* be completed or removed in between.  Whitelisted senders as in StagedFileKept.
NoSecondDownload ==
  [][\A i \in Items :
       row[i].sender # "whitelisted" /\ row[i].status \in {"downloaded", "uploading", "failed"}
         /\ row[i].localPath /\ file[i] = "whole"
         => row'[i].status \notin {"queued", "downloading"}]_vars

\* An item whose row names its remote copy is not uploaded again.  The code
\* checks the status too, and the 'failed' handler overwrites `uploaded`.
NoReupload ==
  [][\A i \in Items : row[i].driveFileId => remote'[i].copies = remote[i].copies]_vars

\* Every recorded item whose sender can be resolved is in the end uploaded,
\* skipped or given up, and stays so, whatever was lost on the way.
Settled(i) == row[i].status \in {"absent", "uploaded", "skipped", "deleted"}
EventuallySettled ==
  \A i \in Items : <>[](row[i].sender = "unknown" \/ Settled(i))

\* A failed item does not stay failed: a queue or the sweep tries it again.
FailedIsRetried == \A i \in Items : row[i].status = "failed" ~> row[i].status # "failed"

\* The pipeline implements the abstract life of an attachment.  A whitelisted
\* sender's attachment that cannot be downloaded is as good as skipped: a replay
\* can still skip it, and nobody misses it.
phaseOf(i) ==
  IF remote[i].copies > 0 THEN "stored"
  ELSE CASE row[i].status = "absent" -> "unknown"
         [] row[i].status = "skipped" -> "skipped"
         [] row[i].status = "deleted" ->
              IF row[i].sender = "whitelisted" THEN "skipped" ELSE "lost"
         [] OTHER -> "pending"
Lifecycle == INSTANCE MediaLifecycle WITH phase <- [i \in Items |-> phaseOf(i)]
ImplementsLifecycle == Lifecycle!Spec
=============================================================================
