--------------------------- MODULE SourceDelivery ---------------------------
(***************************************************************************)
(* One run of the source: DeliveryRunner.sync scans a table on the main    *)
(* thread while one upload thread PUTs the chunk files it closes to the    *)
(* relay; when both are done the main thread uploads the schema and, last, *)
(* the manifest (source/delivery.py, source/uploader.py, and the           *)
(* statements of source/state.py they execute).                            *)
(*                                                                         *)
(* The state is the queue between the threads, the run's local files, the  *)
(* SQLite records and what the relay holds. SQLite statements, unlinks and *)
(* PUTs may fail; a PUT may also be applied and its answer be lost.        *)
(***************************************************************************)
EXTENDS Naturals, Sequences, FiniteSets

CONSTANTS
  NumChunks,      \* chunk files the scan produces (0: an empty table)
  MaxPending,     \* spool.max_pending_bytes, every chunk counting as one
  MaxAttempts,    \* relay.max_attempts
  ThreadFaults,   \* statements of the upload thread's connection that may fail
  MainFaults,     \* points of the main thread after the scan where a statement may fail
  MaxRelayFaults, \* bound on PUTs that fail or whose answer is lost
  MaxFaults       \* bound on failing statements, unlinks, mkdirs, scans and disk checks

Chunks == 1..NumChunks
SchemaFile == NumChunks + 1
ManifestFile == NumChunks + 2
Artifacts == 1..(NumChunks + 2)
ThreadStatements == {"initialize", "attempt", "confirmed", "mark_cleanup", "unlink_failed", "rejected"}
MainStatements == {"decide", "register", "attempt", "confirmed", "unlink_failed", "rejected",
                   "complete", "finalizing", "deliver", "cleanup"}

ASSUME DeliveryAssumption ==
  /\ NumChunks \in Nat /\ MaxPending \in Nat /\ MaxAttempts \in Nat \ {0}
  /\ ThreadFaults \subseteq ThreadStatements /\ MainFaults \subseteq MainStatements
  /\ MaxRelayFaults \in Nat /\ MaxFaults \in Nat

VARIABLES
  main,       \* control point of sync()
  closed,     \* chunks closed so far
  queue,      \* upload_queue; Sentinel is None
  thread,     \* the upload thread: "none", "initialize", "loop", "ended" (saw None) or "dead"
  phase,      \* [{"main", "thread"} -> where that thread is in an upload]
  item,       \* the artifact each of them uploads, 0 if none
  attempt,    \* the attempt of that upload
  fatal,      \* first fatal error: "none", "disk" (DISK_PRESSURE, UPLOAD_BACKLOG_LIMIT) or "error"
  pending,    \* pending_bytes
  record,     \* run_artifacts.upload_status, "ABSENT" before the row exists
  run,        \* sync_runs.status, "ABSENT" before the row exists
  spool,      \* artifacts with a file in the run directory
  remote,     \* artifacts the relay holds
  relay_faults, faults  \* counters of the bounded environment

upload == <<phase, item, attempt>>
counters == <<relay_faults, faults>>
vars == <<main, closed, queue, thread, upload, fatal, pending, record, run, spool, remote, counters>>

Sentinel == 0
Threads == {"main", "thread"}
Phases == {"idle", "register", "attempt", "put", "confirmed", "unlink", "mark_cleanup", "unlink_failed", "rejected"}
RunStatuses == {"ABSENT", "GENERATING", "UPLOADING", "FINALIZING", "SNAPSHOT_READY", "DELIVERED",
                "FAILED", "DISK_PRESSURE"}
Ended == {"delivered", "failed", "raised"}
MainPoints == Ended \cup {"begin", "mkdir", "set_uploading", "scan", "join", "decide", "schema",
                          "complete", "finalizing", "manifest", "deliver", "cleanup", "failing"}

-----------------------------------------------------------------------------
Init ==
  /\ main = "begin"
  /\ closed = 0
  /\ queue = <<>>
  /\ thread = "none"
  /\ phase = [u \in Threads |-> "idle"]
  /\ item = [u \in Threads |-> 0]
  /\ attempt = [u \in Threads |-> 0]
  /\ fatal = "none"
  /\ pending = 0
  /\ record = [a \in Artifacts |-> "ABSENT"]
  /\ run = "ABSENT"
  /\ spool = {}
  /\ remote = {}
  /\ relay_faults = 0
  /\ faults = 0

SetPhase(u, p) == phase' = [phase EXCEPT ![u] = p]
SetRecord(a, s) == record' = [record EXCEPT ![a] = s]
Fault == faults < MaxFaults /\ faults' = faults + 1
RelayFault == relay_faults < MaxRelayFaults /\ relay_faults' = relay_faults + 1

\* set_fatal keeps the first error.
FirstError(error) == IF fatal = "none" THEN error ELSE fatal

-----------------------------------------------------------------------------
(* The main thread up to the scan; an exception here leaves sync() at once.  *)

BeginRun ==
  /\ main = "begin"
  /\ run' = "GENERATING"
  /\ main' = "mkdir"
  /\ UNCHANGED <<closed, queue, thread, upload, fatal, pending, record, spool, remote, counters>>

StartThread ==
  /\ main = "mkdir"
  /\ thread' = "initialize"
  /\ main' = "set_uploading"
  /\ UNCHANGED <<closed, queue, upload, fatal, pending, record, run, spool, remote, counters>>

SetUploading ==
  /\ main = "set_uploading"
  /\ run' = "UPLOADING"
  /\ main' = "scan"
  /\ UNCHANGED <<closed, queue, thread, upload, fatal, pending, record, spool, remote, counters>>

PreparationFails ==
  /\ main \in {"begin", "mkdir", "set_uploading"}
  /\ Fault
  /\ main' = "raised"
  /\ UNCHANGED <<closed, queue, thread, upload, fatal, pending, record, run, spool, remote, relay_faults>>

-----------------------------------------------------------------------------
(* The scan: on_chunk_closed, cancel_check and the finally clause            *)

\* finally: the upload thread is told to stop, whatever ended the scan.
StopThread_OnSuccessOnly(error) == IF error = "none" THEN Append(queue, Sentinel) ELSE queue
StopThread(error) == Append(queue, Sentinel)

OverLimit(bytes) == bytes > MaxPending

\* A chunk file is complete: it is recorded before it is queued, and not queued
\* when the chunks waiting for upload exceed the limit.
CloseChunk ==
  LET c == closed + 1 IN
  /\ main = "scan"
  /\ fatal = "none"
  /\ c \in Chunks
  /\ closed' = c
  /\ spool' = spool \cup {c}
  /\ SetRecord(c, "PENDING")
  /\ pending' = pending + 1
  /\ \/ /\ ~OverLimit(pending')
        /\ queue' = Append(queue, c)
        /\ UNCHANGED <<main, fatal>>
     \/ /\ OverLimit(pending')
        /\ fatal' = FirstError("disk")
        /\ queue' = StopThread("disk")
        /\ main' = "join"
  /\ UNCHANGED <<thread, upload, run, remote, counters>>

\* The free space is below its minimum.
DiskPressure ==
  LET c == closed + 1 IN
  /\ main = "scan"
  /\ fatal = "none"
  /\ c \in Chunks
  /\ Fault
  /\ closed' = c
  /\ spool' = spool \cup {c}
  /\ SetRecord(c, "PENDING")
  /\ pending' = pending + 1
  /\ fatal' = FirstError("disk")
  /\ queue' = StopThread("disk")
  /\ main' = "join"
  /\ UNCHANGED <<thread, upload, run, remote, relay_faults>>

\* The source fails, the DDL changed, or register_artifact failed.
ScanFails ==
  /\ main = "scan"
  /\ Fault
  /\ spool' \in {spool} \cup {spool \cup {c} : c \in Chunks \cap {closed + 1}}
  /\ fatal' = FirstError("error")
  /\ queue' = StopThread("error")
  /\ main' = "join"
  /\ UNCHANGED <<closed, thread, upload, pending, record, run, remote, relay_faults>>

\* check_fatal at a batch boundary or a closed chunk notices the other thread's error.
ScanCancelled ==
  /\ main = "scan"
  /\ fatal # "none"
  /\ spool' \in {spool} \cup {spool \cup {c} : c \in Chunks \cap {closed + 1}}
  /\ queue' = StopThread("error")
  /\ main' = "join"
  /\ UNCHANGED <<closed, thread, upload, fatal, pending, record, run, remote, counters>>

ScanEnds ==
  /\ main = "scan"
  /\ closed = NumChunks
  /\ queue' = StopThread("none")
  /\ main' = "join"
  /\ UNCHANGED <<closed, thread, upload, fatal, pending, record, run, spool, remote, counters>>

-----------------------------------------------------------------------------
(* The upload thread's loop                                                  *)

ThreadStarts ==
  /\ thread = "initialize"
  /\ thread' = "loop"
  /\ UNCHANGED <<main, closed, queue, upload, fatal, pending, record, run, spool, remote, counters>>

\* worker_state.initialize() raises: the thread is gone and nobody is told.
ThreadInitializeFails ==
  /\ thread = "initialize"
  /\ "initialize" \in ThreadFaults
  /\ Fault
  /\ thread' = "dead"
  /\ UNCHANGED <<main, closed, queue, upload, fatal, pending, record, run, spool, remote, relay_faults>>

TakeItem ==
  LET head == Head(queue) IN
  /\ thread = "loop"
  /\ phase["thread"] = "idle"
  /\ queue # <<>>
  /\ queue' = Tail(queue)
  /\ \/ /\ head = Sentinel
        /\ thread' = "ended"
        /\ UNCHANGED upload
     \/ /\ head # Sentinel
        /\ fatal # "none"
        /\ UNCHANGED <<thread, upload>>
     \/ /\ head # Sentinel
        /\ fatal = "none"
        /\ SetPhase("thread", "attempt")
        /\ item' = [item EXCEPT !["thread"] = head]
        /\ attempt' = [attempt EXCEPT !["thread"] = 1]
        /\ UNCHANGED thread
  /\ UNCHANGED <<main, closed, fatal, pending, record, run, spool, remote, counters>>

-----------------------------------------------------------------------------
(* RelayUploader.upload, by either thread                                    *)

MarkAttempt(u) ==
  /\ phase[u] = "attempt"
  /\ SetRecord(item[u], "UPLOADING")
  /\ SetPhase(u, "put")
  /\ UNCHANGED <<main, closed, queue, thread, item, attempt, fatal, pending, run, spool, remote, counters>>

\* 201 with a confirmation that matches the file.
PutConfirmed(u) ==
  /\ phase[u] = "put"
  /\ item[u] \notin remote
  /\ remote' = remote \cup {item[u]}
  /\ SetPhase(u, "confirmed")
  /\ UNCHANGED <<main, closed, queue, thread, item, attempt, fatal, pending, record, run, spool, counters>>

\* 409: the relay has a file of that name, which cannot be verified.
PutConflict(u) ==
  /\ phase[u] = "put"
  /\ item[u] \in remote
  /\ SetPhase(u, "rejected")
  /\ UNCHANGED <<main, closed, queue, thread, item, attempt, fatal, pending, record, run, spool, remote, counters>>

\* What upload() does when an attempt ends in a network error or a retryable status.
\* (Definitions named X_Y are faulty variants of X for the mutation runs.)
AfterFailure_OneMore(u) ==
  IF attempt[u] <= MaxAttempts
    THEN SetPhase(u, "attempt") /\ attempt' = [attempt EXCEPT ![u] = @ + 1]
    ELSE SetPhase(u, "rejected") /\ UNCHANGED attempt
AfterFailure_Confirmed(u) == SetPhase(u, "confirmed") /\ UNCHANGED attempt
AfterFailure(u) ==
  IF attempt[u] < MaxAttempts
    THEN SetPhase(u, "attempt") /\ attempt' = [attempt EXCEPT ![u] = @ + 1]
    ELSE SetPhase(u, "rejected") /\ UNCHANGED attempt

\* The PUT is applied, or is not, and no usable answer comes back.
PutUnanswered(u) ==
  /\ phase[u] = "put"
  /\ RelayFault
  /\ remote' \in {remote, remote \cup {item[u]}}
  /\ AfterFailure(u)
  /\ UNCHANGED <<main, closed, queue, thread, item, fatal, pending, record, run, spool, faults>>

\* A deterministic 4xx, or a 201 whose confirmation does not match.
PutRefused(u) ==
  /\ phase[u] = "put"
  /\ RelayFault
  /\ remote' \in {remote, remote \cup {item[u]}}
  /\ SetPhase(u, "rejected")
  /\ UNCHANGED <<main, closed, queue, thread, item, attempt, fatal, pending, record, run, spool, faults>>

\* After an upload the upload thread takes the next item, the main thread goes on.
UploadDone(u) ==
  /\ SetPhase(u, "idle")
  /\ main' = IF u = "thread" THEN main ELSE IF main = "schema" THEN "complete" ELSE "deliver"

\* mark_uploaded comes before unlink ...
MarkUploaded(u) ==
  /\ phase[u] = "confirmed"
  /\ SetRecord(item[u], "UPLOADED")
  /\ SetPhase(u, "unlink")
  /\ UNCHANGED <<main, closed, queue, thread, item, attempt, fatal, pending, run, spool, remote, counters>>

Unlink(u) ==
  /\ phase[u] = "unlink"
  /\ spool' = spool \ {item[u]}
  /\ IF u = "thread" THEN SetPhase(u, "mark_cleanup") /\ UNCHANGED main ELSE UploadDone(u)
  /\ UNCHANGED <<closed, queue, thread, item, attempt, fatal, pending, record, run, remote, counters>>

UnlinkFails(u) ==
  /\ phase[u] = "unlink"
  /\ Fault
  /\ SetPhase(u, "unlink_failed")
  /\ UNCHANGED <<main, closed, queue, thread, item, attempt, fatal, pending, record, run, spool, remote, relay_faults>>

\* ... and only a file that is gone leaves the account of pending bytes.
Released_Always(p) == pending - 1
Released(p) == IF p = "mark_cleanup" THEN pending - 1 ELSE pending

MarkCleanup(u) ==
  /\ phase[u] \in {"mark_cleanup", "unlink_failed"}
  /\ pending' = IF u = "thread" THEN Released(phase[u]) ELSE pending
  /\ UploadDone(u)
  /\ UNCHANGED <<closed, queue, thread, item, attempt, fatal, record, run, spool, remote, counters>>

\* mark_artifact_failed, then the error reaches the other thread (set_fatal) or
\* the handler of sync().
MarkRejected(u) ==
  /\ phase[u] = "rejected"
  /\ SetRecord(item[u], "FAILED")
  /\ SetPhase(u, "idle")
  /\ fatal' = IF u = "thread" THEN FirstError("error") ELSE fatal
  /\ main' = IF u = "thread" THEN main ELSE "failing"
  /\ UNCHANGED <<closed, queue, thread, item, attempt, pending, run, spool, remote, counters>>

\* A statement of the upload thread raises. Its loop catches it, unless it is
\* mark_artifact_failed, which runs in an exception handler: then the thread is
\* gone and nobody is told.
ThreadStatementFails ==
  LET p == phase["thread"] IN
  /\ p \in ThreadFaults
  /\ Fault
  /\ SetPhase("thread", "idle")
  /\ \/ /\ p = "rejected"
        /\ thread' = "dead"
        /\ UNCHANGED fatal
     \/ /\ p # "rejected"
        /\ fatal' = FirstError("error")
        /\ UNCHANGED thread
  /\ UNCHANGED <<main, closed, queue, item, attempt, pending, record, run, spool, remote, relay_faults>>

-----------------------------------------------------------------------------
(* The main thread after the scan                                            *)

Joinable_Always == TRUE
Joinable == thread \in {"ended", "dead"}
Join ==
  /\ main = "join"
  /\ Joinable
  /\ main' = "decide"
  /\ UNCHANGED <<closed, queue, thread, upload, fatal, pending, record, run, spool, remote, counters>>

\* _upload_final_artifact: the file is recorded, then uploaded.
StartUpload(a) ==
  /\ SetPhase("main", "register")
  /\ item' = [item EXCEPT !["main"] = a]
  /\ attempt' = [attempt EXCEPT !["main"] = 1]

RegisterFile ==
  /\ phase["main"] = "register"
  /\ spool' = spool \cup {item["main"]}
  /\ SetRecord(item["main"], "PENDING")
  /\ SetPhase("main", "attempt")
  /\ UNCHANGED <<main, closed, queue, thread, item, attempt, fatal, pending, run, remote, counters>>

\* check_fatal; then FINALIZING and the schema.
MayCommit_Unchecked == TRUE
MayCommit == fatal = "none"
Decide ==
  /\ main = "decide"
  /\ \/ /\ MayCommit
        /\ run' = "FINALIZING"
        /\ StartUpload(SchemaFile)
        /\ main' = "schema"
     \/ /\ ~MayCommit
        /\ main' = "failing"
        /\ UNCHANGED <<upload, run>>
  /\ UNCHANGED <<closed, queue, thread, fatal, pending, record, spool, remote, counters>>

\* complete_run: the snapshot is final locally; delivery still has to be confirmed.
CompleteRun ==
  /\ main = "complete"
  /\ run' = "SNAPSHOT_READY"
  /\ spool' = spool \cup {ManifestFile}
  /\ main' = "finalizing"
  /\ UNCHANGED <<closed, queue, thread, upload, fatal, pending, record, remote, counters>>

UploadManifest ==
  /\ main = "finalizing"
  /\ run' = "FINALIZING"
  /\ StartUpload(ManifestFile)
  /\ main' = "manifest"
  /\ UNCHANGED <<closed, queue, thread, fatal, pending, record, spool, remote, counters>>

DeliverRun ==
  /\ main = "deliver"
  /\ run' = "DELIVERED"
  /\ main' = "cleanup"
  /\ UNCHANGED <<closed, queue, thread, upload, fatal, pending, record, spool, remote, counters>>

\* _cleanup_delivered_run: confirmed files that are still there, except those
\* whose unlink fails again.
Uploaded == {a \in Artifacts : record[a] = "UPLOADED"}
CleanUp ==
  /\ main = "cleanup"
  /\ \E gone \in SUBSET (spool \cap Uploaded) : spool' = spool \ gone
  /\ main' = "delivered"
  /\ UNCHANGED <<closed, queue, thread, upload, fatal, pending, record, run, remote, counters>>

\* A statement of the main thread raises, after the scan or in its uploads; the
\* step may have written or removed files before.
MainStatementFails ==
  LET at == IF phase["main"] = "idle" THEN main ELSE phase["main"] IN
  /\ at \in MainFaults
  /\ Fault
  /\ main' = "failing"
  /\ SetPhase("main", "idle")
  /\ spool' \in CASE at = "register" -> {spool, spool \cup {item["main"]}}
                   [] at = "complete" -> {spool, spool \cup {ManifestFile}}
                   [] at = "cleanup" -> {spool \ gone : gone \in SUBSET (spool \cap Uploaded)}
                   [] OTHER -> {spool}
  /\ UNCHANGED <<closed, queue, thread, item, attempt, fatal, pending, record, run, remote, relay_faults>>

\* The handler of sync(): fail_run.
FailRun ==
  /\ main = "failing"
  /\ run' = IF fatal = "disk" THEN "DISK_PRESSURE" ELSE "FAILED"
  /\ main' = "failed"
  /\ UNCHANGED <<closed, queue, thread, upload, fatal, pending, record, spool, remote, counters>>

FailRunFails ==
  /\ main = "failing"
  /\ Fault
  /\ main' = "raised"
  /\ UNCHANGED <<closed, queue, thread, upload, fatal, pending, record, run, spool, remote, relay_faults>>

-----------------------------------------------------------------------------
UploadStep(u) ==
  \/ MarkAttempt(u) \/ PutConfirmed(u) \/ PutConflict(u) \/ MarkUploaded(u) \/ Unlink(u)
  \/ MarkCleanup(u) \/ MarkRejected(u)

MainStep ==
  \/ BeginRun \/ StartThread \/ SetUploading
  \/ CloseChunk \/ ScanCancelled \/ ScanEnds \/ Join \/ Decide \/ RegisterFile
  \/ CompleteRun \/ UploadManifest \/ DeliverRun \/ CleanUp \/ FailRun
  \/ UploadStep("main")

ThreadStep == ThreadStarts \/ TakeItem \/ UploadStep("thread")

Failure ==
  \/ PreparationFails \/ DiskPressure \/ ScanFails \/ MainStatementFails \/ FailRunFails
  \/ ThreadInitializeFails \/ ThreadStatementFails
  \/ \E u \in Threads : PutUnanswered(u) \/ PutRefused(u) \/ UnlinkFails(u)

Next == MainStep \/ ThreadStep \/ Failure

Spec == Init /\ [][Next]_vars

\* Both threads keep executing.
FairSpec == Spec /\ WF_vars(MainStep) /\ WF_vars(ThreadStep)

-----------------------------------------------------------------------------
(* Properties                                                                *)

ControlType ==
  /\ main \in MainPoints
  /\ closed \in 0..NumChunks
  /\ thread \in {"none", "initialize", "loop", "ended", "dead"}
  /\ fatal \in {"none", "disk", "error"}
  /\ run \in RunStatuses
  /\ relay_faults \in 0..MaxRelayFaults
  /\ faults \in 0..MaxFaults

UploadType ==
  /\ phase \in [Threads -> Phases]
  /\ item \in [Threads -> Artifacts \cup {0}]
  /\ attempt \in [Threads -> 0..MaxAttempts]

FilesType ==
  /\ record \in [Artifacts -> {"ABSENT", "PENDING", "UPLOADING", "UPLOADED", "FAILED"}]
  /\ spool \subseteq Artifacts
  /\ remote \subseteq Artifacts

\* Every variable has its type (the locals of sync() and the SQLite rows).
TypeOK ==
  /\ ControlType
  /\ UploadType
  /\ FilesType
  /\ queue \in Seq(Chunks \cup {Sentinel})
  /\ pending \in 0..NumChunks

\* The manifest makes a run visible to the destination, so the relay has every
\* other file of the run when it has the manifest: no failure of either thread
\* lets sync() finish a run with a file missing.
ManifestIsLast == ManifestFile \in remote => remote = Artifacts

\* The same as long as the upload thread did not die outside its error handling.
CommittedIsComplete == thread # "dead" => ManifestIsLast

\* A run is DELIVERED only if every file of it was confirmed and recorded, as long
\* as the upload thread did not die outside its error handling.
DeliveredIsConfirmed ==
  thread # "dead" /\ run = "DELIVERED" => \A a \in Artifacts : record[a] = "UPLOADED"

\* A file whose upload is not confirmed is still in the run directory: what
\* failed can be inspected, and nothing unconfirmed is deleted.
KeptUntilConfirmed ==
  \A a \in Artifacts : record[a] # "ABSENT" /\ a \notin spool => record[a] = "UPLOADED" /\ a \in remote

\* The relay never sees two PUTs of this source at the same time.
OnePutAtATime == ~(phase["main"] = "put" /\ phase["thread"] = "put")

\* Chunk files that wait in the spool directory are within the configured limit,
\* plus the one that was being written, also when files cannot be removed.
SpoolIsBounded == Cardinality(spool \cap Chunks) <= MaxPending + 1

\* sync() always returns or raises: the queue always gets its end marker and
\* the upload thread always comes to it.
SyncEnds == <>(main \in Ended)

\* What the relay gets implements SnapshotTransfer; once the upload thread has died
\* silently the source's outcome means nothing.
Outcome ==
  IF thread = "dead" THEN "broken"
  ELSE CASE run = "DELIVERED" -> "delivered"
         [] run \in {"FAILED", "DISK_PRESSURE"} -> "failed"
         [] OTHER -> "open"
Transfer == INSTANCE SnapshotTransfer WITH arrived <- remote, outcome <- Outcome
ImplementsTransfer == Transfer!TransferSpec

-----------------------------------------------------------------------------
(* The invariant these follow from; SourceDeliveryProofs proves it inductive *)

Scanning == {"begin", "mkdir", "set_uploading", "scan"}
Committing == {"schema", "complete", "finalizing", "manifest", "deliver", "cleanup", "delivered"}
Over == {"DELIVERED", "FAILED", "DISK_PRESSURE"}

\* Main and upload thread take turns: the final uploads begin when the thread is gone.
Turns ==
  /\ phase["main"] # "idle" <=> main \in {"schema", "manifest"}
  /\ main = "schema" => item["main"] = SchemaFile
  /\ main = "manifest" => item["main"] = ManifestFile
  /\ phase["thread"] # "idle" => thread = "loop" /\ item["thread"] \in Chunks
  /\ phase["thread"] # "register"
  /\ phase["main"] # "mark_cleanup"
  /\ main \notin Scanning \cup {"join", "raised"} => thread \in {"ended", "dead"}
  /\ main \in {"begin", "mkdir"} => thread = "none"
  /\ run \in Over =>
       /\ thread \in {"ended", "dead"}
       /\ main \in Ended \cup {"cleanup", "failing"}
  /\ main \in {"cleanup", "delivered"} => run = "DELIVERED"

\* Chunks go through the queue in order, each once, and the end marker is last.
InOrder ==
  /\ \A i \in DOMAIN queue :
       /\ queue[i] = Sentinel => i = Len(queue)
       /\ queue[i] # Sentinel => item["thread"] < queue[i] /\ queue[i] <= closed
  /\ \A i, j \in DOMAIN queue : i < j /\ queue[j] # Sentinel => queue[i] < queue[j]
  /\ main \in Scanning => thread # "ended" /\ \A i \in DOMAIN queue : queue[i] # Sentinel
  /\ thread = "ended" => queue = <<>>
  /\ item["thread"] <= closed

\* What is recorded as uploaded has arrived; what was not taken from the queue has
\* not been touched.
Confirmed ==
  /\ \A a \in Artifacts : record[a] = "UPLOADED" => a \in remote
  /\ \A u \in Threads :
       /\ phase[u] = "confirmed" => item[u] \in remote
       /\ phase[u] \in {"unlink", "unlink_failed", "mark_cleanup"} => record[item[u]] = "UPLOADED"
       /\ phase[u] \in {"attempt", "put", "confirmed", "rejected", "unlink"} => item[u] \in spool
  /\ \A c \in Chunks :
       /\ c > closed => record[c] = "ABSENT"
       /\ item["thread"] < c /\ c <= closed => c \in spool /\ record[c] = "PENDING"

\* As long as no error is known, every closed chunk is confirmed or on its way.
Accounted ==
  \A c \in 1..closed :
    \/ fatal # "none"
    \/ record[c] = "UPLOADED"
    \/ \E i \in DOMAIN queue : queue[i] = c
    \/ phase["thread"] # "idle" /\ item["thread"] = c

\* Past check_fatal everything has been confirmed so far.
Committed ==
  /\ main \in {"join", "decide"} /\ fatal = "none" => closed = NumChunks
  /\ main \in Committing => fatal = "none" /\ \A c \in Chunks : record[c] = "UPLOADED"
  /\ main \in Committing \ {"schema"} => record[SchemaFile] = "UPLOADED"
  /\ main \in {"deliver", "cleanup", "delivered"} => record[ManifestFile] = "UPLOADED"

\* Pending bytes cover every recorded chunk file that is still there; one more file
\* may have been written when the scan ended.
Counted ==
  /\ pending <= closed
  /\ Cardinality(spool \cap 1..closed) + (IF phase["thread"] = "mark_cleanup" THEN 1 ELSE 0) <= pending
  /\ pending <= MaxPending + 1
  /\ main \in Scanning => pending <= MaxPending /\ spool \cap Chunks \subseteq 1..closed
  /\ spool \cap Chunks \subseteq 1..(closed + 1)
  /\ closed + 1 \in spool \cap Chunks => pending <= MaxPending

\* A run fails once; a delivered one fails when the clean-up after it raises.
FailsOnce == main = "failing" => run \notin {"FAILED", "DISK_PRESSURE"}

\* The order of the queue, the thread that uploads and the commit of a run fit
\* together: the inductive invariant (all of sync() and its upload thread).
InductiveInvariant ==
  /\ TypeOK
  /\ Turns
  /\ InOrder
  /\ Confirmed
  /\ Counted
  /\ KeptUntilConfirmed
  /\ FailsOnce
  /\ thread # "dead" => Accounted /\ Committed
  /\ CommittedIsComplete
  /\ DeliveredIsConfirmed

=============================================================================
