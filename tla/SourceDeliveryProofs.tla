----------------------- MODULE SourceDeliveryProofs -----------------------
(***************************************************************************)
(* SourceDelivery keeps its inductive invariant, hence the manifest is the *)
(* last file of a run, for any number of chunks, attempts and failures;    *)
(* and sync() neither waits in vain nor goes on forever.                   *)
(***************************************************************************)
EXTENDS SourceDelivery, FiniteSetTheorems, TLAPS

USE DeliveryAssumption DEF upload, counters

\* What belongs to a thread in the middle of an upload.
LEMMA UploadFacts ==
  ASSUME TypeOK, Turns, NEW u \in Threads, phase[u] # "idle"
  PROVE  /\ item[u] \in Artifacts
         /\ u = "thread" => /\ thread = "loop" /\ item[u] \in Chunks
                            /\ main \in Scanning \cup {"join", "raised"}
                            /\ run \notin Over
                            /\ phase["main"] = "idle"
         /\ u = "main" => /\ \/ main = "schema" /\ item[u] = SchemaFile
                             \/ main = "manifest" /\ item[u] = ManifestFile
                          /\ run \notin Over
                          /\ phase["thread"] = "idle"
                          /\ thread \in {"ended", "dead"}
<1>1. Chunks \subseteq Artifacts /\ SchemaFile \in Artifacts /\ ManifestFile \in Artifacts
  BY DEF Chunks, Artifacts, SchemaFile, ManifestFile
<1>2. CASE u = "thread"
  <2>1. thread = "loop" /\ item[u] \in Chunks
    BY <1>2 DEF Turns
  <2>2. main \in Scanning \cup {"join", "raised"}
    BY <2>1 DEF Turns
  <2>3. run \notin Over
    BY <2>1 DEF Turns
  <2>4. phase["main"] = "idle"
    BY <2>2 DEF Turns, Scanning
  <2> QED
    BY <1>1, <1>2, <2>1, <2>2, <2>3, <2>4
<1>3. CASE u = "main"
  <2>1. \/ main = "schema" /\ item[u] = SchemaFile
        \/ main = "manifest" /\ item[u] = ManifestFile
    BY <1>3 DEF Turns
  <2>2. run \notin Over
    BY <2>1 DEF Turns, Ended
  <2>3. thread \in {"ended", "dead"}
    BY <2>1 DEF Turns, Scanning
  <2>4. phase["thread"] = "idle"
    BY <2>3 DEF Turns
  <2>5. u # "thread"
    BY <1>3
  <2> QED
    BY <1>1, <1>3, <2>5, <2>1, <2>2, <2>3, <2>4
<1> QED
  BY <1>2, <1>3 DEF Threads

-----------------------------------------------------------------------------
(* Types                                                                     *)

\* The initial state has the right types.
LEMMA TypeInit == Init => TypeOK
BY DEF Init, TypeOK, ControlType, UploadType, FilesType, MainPoints, Ended, Threads, Phases,
   Artifacts, Chunks, RunStatuses

\* A step of an upload, by either thread, that happens or fails.
LEMMA UploadStepControlType ==
  ASSUME ControlType, NEW u \in Threads,
         UploadStep(u) \/ PutUnanswered(u) \/ PutRefused(u) \/ UnlinkFails(u)
  PROVE  ControlType'
<1> USE DEF ControlType
<1>1. CASE MarkAttempt(u) \/ PutConfirmed(u) \/ PutConflict(u) \/ MarkUploaded(u)
  BY <1>1 DEF MarkAttempt, PutConfirmed, PutConflict, MarkUploaded
<1>2. CASE Unlink(u) \/ MarkCleanup(u)
  BY <1>2 DEF Unlink, MarkCleanup, UploadDone, MainPoints
<1>3. CASE MarkRejected(u)
  BY <1>3 DEF MarkRejected, FirstError, MainPoints
<1>4. CASE PutUnanswered(u) \/ PutRefused(u)
  BY <1>4 DEF PutUnanswered, PutRefused, RelayFault
<1>5. CASE UnlinkFails(u)
  BY <1>5 DEF UnlinkFails, Fault
<1> QED
  BY <1>1, <1>2, <1>3, <1>4, <1>5 DEF UploadStep

\* Every step keeps the types of the two control points.
LEMMA ControlTypeNext ==
  ASSUME ControlType, Next
  PROVE  ControlType'
<1>1. CASE \E u \in Threads : \/ UploadStep(u) \/ PutUnanswered(u) \/ PutRefused(u)
                              \/ UnlinkFails(u)
  BY <1>1, UploadStepControlType
<1> USE DEF ControlType, MainPoints, Ended
<1>2. CASE BeginRun \/ StartThread \/ SetUploading \/ PreparationFails
  BY <1>2 DEF BeginRun, StartThread, SetUploading, PreparationFails, RunStatuses, Fault
<1>3. CASE CloseChunk \/ DiskPressure
  BY <1>3 DEF CloseChunk, DiskPressure, FirstError, Chunks, Fault
<1>4. CASE ScanFails \/ ScanCancelled \/ ScanEnds
  BY <1>4 DEF ScanFails, ScanCancelled, ScanEnds, FirstError, Fault
<1>5. CASE ThreadStarts \/ ThreadInitializeFails \/ ThreadStatementFails \/ TakeItem
  BY <1>5 DEF ThreadStarts, ThreadInitializeFails, ThreadStatementFails, FirstError, Fault, TakeItem
<1>6. CASE Join \/ Decide \/ RegisterFile \/ CompleteRun \/ UploadManifest \/ DeliverRun \/ CleanUp
  BY <1>6 DEF Join, Decide, RegisterFile, CompleteRun, UploadManifest, DeliverRun, CleanUp,
     RunStatuses, StartUpload
<1>7. CASE FailRun \/ FailRunFails \/ MainStatementFails
  BY <1>7 DEF FailRun, FailRunFails, MainStatementFails, RunStatuses, Fault
<1> QED
  BY <1>1, <1>2, <1>3, <1>4, <1>5, <1>6, <1>7 DEF Next, MainStep, ThreadStep, Failure, Threads

\* Every step keeps the types of the uploads in progress.
LEMMA UploadTypeNext ==
  ASSUME TypeOK, Turns, InOrder, Next
  PROVE  UploadType'
<1> USE DEF UploadType, SetPhase, Threads
<1> UploadType
  BY DEF TypeOK
<1>1. ASSUME NEW u \in Threads,
             UploadStep(u) \/ PutUnanswered(u) \/ PutRefused(u) \/ UnlinkFails(u)
      PROVE  UploadType'
  <2>1. CASE MarkAttempt(u) \/ PutConfirmed(u) \/ PutConflict(u) \/ MarkUploaded(u)
    BY <2>1 DEF MarkAttempt, PutConfirmed, PutConflict, MarkUploaded, Phases
  <2>2. CASE Unlink(u) \/ MarkCleanup(u) \/ MarkRejected(u)
    BY <2>2 DEF Unlink, MarkCleanup, MarkRejected, UploadDone, Phases
  <2>3. CASE PutUnanswered(u)
    BY <2>3 DEF PutUnanswered, AfterFailure, Phases
  <2>4. CASE PutRefused(u) \/ UnlinkFails(u)
    BY <2>4 DEF PutRefused, UnlinkFails, Phases
  <2> QED
    BY <1>1, <2>1, <2>2, <2>3, <2>4 DEF UploadStep
<1>2. CASE TakeItem
  <2>1. queue # <<>> => Head(queue) \in Chunks \cup {Sentinel}
    BY DEF TypeOK
  <2>2. Chunks \subseteq Artifacts
    BY DEF Chunks, Artifacts
  <2> QED
    BY <1>2, <2>1, <2>2 DEF TakeItem, Sentinel, Phases
<1>3. CASE Decide \/ UploadManifest
  BY <1>3 DEF Decide, UploadManifest, StartUpload, Phases, Artifacts, SchemaFile, ManifestFile
<1>4. CASE RegisterFile \/ MainStatementFails \/ ThreadStatementFails
  BY <1>4 DEF RegisterFile, MainStatementFails, ThreadStatementFails, Phases
<1>5. CASE \/ BeginRun \/ StartThread \/ SetUploading \/ PreparationFails
           \/ CloseChunk \/ DiskPressure \/ ScanFails \/ ScanCancelled \/ ScanEnds
           \/ ThreadStarts \/ ThreadInitializeFails
           \/ Join \/ CompleteRun \/ DeliverRun \/ CleanUp \/ FailRun \/ FailRunFails
  BY <1>5 DEF BeginRun, StartThread, SetUploading, PreparationFails, CloseChunk, DiskPressure,
     ScanFails, ScanCancelled, ScanEnds, ThreadStarts, ThreadInitializeFails, Join, CompleteRun,
     DeliverRun, CleanUp, FailRun, FailRunFails
<1> QED
  BY <1>1, <1>2, <1>3, <1>4, <1>5 DEF Next, MainStep, ThreadStep, Failure

\* Every step keeps the types of the records and files of the run.
LEMMA FilesTypeNext ==
  ASSUME TypeOK, Turns, Next
  PROVE  FilesType'
<1> USE DEF FilesType, SetRecord
<1>1. FilesType
  BY DEF TypeOK
<1>2. \A u \in Threads : phase[u] # "idle" => item[u] \in Artifacts
  BY UploadFacts
<1>3. Chunks \subseteq Artifacts /\ ManifestFile \in Artifacts /\ SchemaFile \in Artifacts
  BY DEF Chunks, Artifacts, ManifestFile, SchemaFile
<1>4. ASSUME NEW u \in Threads,
             UploadStep(u) \/ PutUnanswered(u) \/ PutRefused(u) \/ UnlinkFails(u)
      PROVE  FilesType'
  <2>1. CASE MarkAttempt(u) \/ PutConfirmed(u) \/ PutConflict(u) \/ MarkUploaded(u)
    BY <1>1, <1>2, <2>1 DEF MarkAttempt, PutConfirmed, PutConflict, MarkUploaded
  <2>2. CASE Unlink(u) \/ MarkCleanup(u) \/ MarkRejected(u)
    BY <1>1, <1>2, <2>2 DEF Unlink, MarkCleanup, MarkRejected
  <2>3. CASE PutUnanswered(u) \/ PutRefused(u) \/ UnlinkFails(u)
    BY <1>1, <1>2, <2>3 DEF PutUnanswered, PutRefused, UnlinkFails
  <2> QED
    BY <1>4, <2>1, <2>2, <2>3 DEF UploadStep
<1>5. CASE CloseChunk \/ DiskPressure
  BY <1>1, <1>3, <1>5 DEF CloseChunk, DiskPressure
<1>6. CASE ScanFails \/ ScanCancelled
  BY <1>1, <1>3, <1>6 DEF ScanFails, ScanCancelled
<1>7. CASE RegisterFile \/ CompleteRun \/ CleanUp
  BY <1>1, <1>2, <1>3, <1>7 DEF RegisterFile, CompleteRun, CleanUp, Threads
<1>8. CASE MainStatementFails
  <2>1. remote' = remote /\ record' = record
    BY <1>8 DEF MainStatementFails
  <2>2. spool' \subseteq spool \cup {item["main"]} \cup {ManifestFile}
    BY <1>8 DEF MainStatementFails
  <2>3. phase["main"] # "register" => spool' \subseteq spool \cup {ManifestFile}
    <3>1. main # "register"
      BY DEF TypeOK, ControlType, MainPoints, Ended
    <3> QED
      BY <1>8, <3>1 DEF MainStatementFails
  <2> QED
    BY <1>1, <1>2, <1>3, <2>1, <2>2, <2>3 DEF Threads
<1>9. CASE \/ BeginRun \/ StartThread \/ SetUploading \/ PreparationFails \/ ScanEnds
           \/ ThreadStarts \/ ThreadInitializeFails \/ ThreadStatementFails \/ TakeItem
           \/ Join \/ Decide \/ UploadManifest \/ DeliverRun \/ FailRun \/ FailRunFails
  BY <1>1, <1>9 DEF BeginRun, StartThread, SetUploading, PreparationFails, ScanEnds, ThreadStarts,
     ThreadInitializeFails, ThreadStatementFails, TakeItem, Join, Decide, UploadManifest,
     DeliverRun, FailRun, FailRunFails
<1> QED
  BY <1>4, <1>5, <1>6, <1>7, <1>8, <1>9 DEF Next, MainStep, ThreadStep, Failure, Threads

\* Every step keeps the types of the queue, and pending within the number of chunks.
LEMMA QueueTypeNext ==
  ASSUME TypeOK, Counted, Next
  PROVE  (queue \in Seq(Chunks \cup {Sentinel}))' /\ (pending \in 0..NumChunks)'
<1> USE DEF TypeOK
<1>1. ASSUME NEW u \in Threads,
             UploadStep(u) \/ PutUnanswered(u) \/ PutRefused(u) \/ UnlinkFails(u)
      PROVE  (queue \in Seq(Chunks \cup {Sentinel}))' /\ (pending \in 0..NumChunks)'
  <2>1. CASE MarkAttempt(u) \/ PutConfirmed(u) \/ PutConflict(u) \/ MarkUploaded(u)
    BY <2>1 DEF MarkAttempt, PutConfirmed, PutConflict, MarkUploaded
  <2>2. CASE Unlink(u) \/ MarkRejected(u)
    BY <2>2 DEF Unlink, MarkRejected
  <2>3. CASE MarkCleanup(u)
    <3>1. Cardinality(spool \cap 1..closed) \in Nat
      <4>1. IsFiniteSet(1..closed)
        BY FS_Interval DEF ControlType
      <4>2. IsFiniteSet(spool \cap 1..closed)
        BY <4>1, FS_Subset, Zenon
      <4> QED
        BY <4>2, FS_CardinalityType
    <3>2. phase["thread"] = "mark_cleanup" => pending >= 1
      BY <3>1 DEF Counted
    <3> QED
      BY <2>3, <3>2 DEF MarkCleanup, Released
  <2>4. CASE PutUnanswered(u) \/ PutRefused(u) \/ UnlinkFails(u)
    BY <2>4 DEF PutUnanswered, PutRefused, UnlinkFails
  <2> QED
    BY <1>1, <2>1, <2>2, <2>3, <2>4 DEF UploadStep
<1>2. \A x \in Chunks \cup {Sentinel} : Append(queue, x) \in Seq(Chunks \cup {Sentinel})
  OBVIOUS
<1>3. CASE CloseChunk \/ DiskPressure
  <2>1. pending' = pending + 1 /\ closed + 1 \in Chunks
    BY <1>3 DEF CloseChunk, DiskPressure
  <2>2. pending' \in 0..NumChunks
    BY <2>1 DEF Counted, Chunks, ControlType
  <2>3. queue' \in {Append(queue, closed + 1), Append(queue, Sentinel)}
    BY <1>3 DEF CloseChunk, DiskPressure, StopThread
  <2> QED
    BY <1>2, <2>1, <2>2, <2>3
<1>6. CASE ScanFails \/ ScanCancelled \/ ScanEnds
  <2>1. queue' = Append(queue, Sentinel) /\ pending' = pending
    BY <1>6 DEF ScanFails, ScanCancelled, ScanEnds, StopThread
  <2> QED
    BY <1>2, <2>1
<1>4. CASE TakeItem
  BY <1>4 DEF TakeItem
<1>5. CASE \/ BeginRun \/ StartThread \/ SetUploading \/ PreparationFails
           \/ ThreadStarts \/ ThreadInitializeFails \/ ThreadStatementFails
           \/ Join \/ Decide \/ RegisterFile \/ CompleteRun \/ UploadManifest \/ DeliverRun
           \/ CleanUp \/ FailRun \/ FailRunFails \/ MainStatementFails
  BY <1>5 DEF BeginRun, StartThread, SetUploading, PreparationFails, ThreadStarts,
     ThreadInitializeFails, ThreadStatementFails, Join, Decide, RegisterFile, CompleteRun,
     UploadManifest, DeliverRun, CleanUp, FailRun, FailRunFails, MainStatementFails
<1> QED
  BY <1>1, <1>3, <1>4, <1>5, <1>6 DEF Next, MainStep, ThreadStep, Failure, Threads

\* Every step keeps the types.
LEMMA TypeNext ==
  ASSUME TypeOK, Turns, InOrder, Counted, Next
  PROVE  TypeOK'
BY ControlTypeNext, UploadTypeNext, FilesTypeNext, QueueTypeNext DEF TypeOK

-----------------------------------------------------------------------------
(* The two threads take turns                                                *)

\* Initially nobody uploads.
LEMMA TurnsInit == Init => Turns
BY DEF Init, Turns, Threads, Scanning, Over

\* A step of an upload leaves it with the thread whose turn it is.
LEMMA TurnsUploadStep ==
  ASSUME TypeOK, Turns, NEW u \in Threads,
         UploadStep(u) \/ PutUnanswered(u) \/ PutRefused(u) \/ UnlinkFails(u)
  PROVE  Turns'
<1> UploadType /\ ControlType
  BY DEF TypeOK
<1> USE DEF UploadType, SetPhase
<1>1. CASE \/ MarkAttempt(u) \/ PutConfirmed(u) \/ PutConflict(u) \/ MarkUploaded(u)
           \/ PutUnanswered(u) \/ PutRefused(u) \/ UnlinkFails(u)
  <2>1. /\ UNCHANGED <<main, item, thread, run>>
        /\ phase[u] # "idle"
        /\ \E p \in {"attempt", "put", "confirmed", "unlink", "unlink_failed", "rejected"} :
             phase' = [phase EXCEPT ![u] = p]
    BY <1>1 DEF MarkAttempt, PutConfirmed, PutConflict, MarkUploaded, PutUnanswered, AfterFailure,
       PutRefused, UnlinkFails
  <2> QED
    BY <2>1 DEF Turns, Threads
<1>2. CASE \/ u = "thread" /\ (Unlink(u) \/ MarkCleanup(u) \/ MarkRejected(u))
  <2>1. /\ UNCHANGED <<main, item, thread, run>>
        /\ phase[u] # "idle"
        /\ \E p \in {"idle", "mark_cleanup"} : phase' = [phase EXCEPT ![u] = p]
    BY <1>2 DEF Unlink, MarkCleanup, MarkRejected, UploadDone
  <2> QED
    BY <1>2, <2>1 DEF Turns, Threads
<1>3. CASE u = "main" /\ (Unlink(u) \/ MarkCleanup(u))
  <2>1. main \in {"schema", "manifest"}
    BY <1>3 DEF Turns, Unlink, MarkCleanup
  <2>2. /\ UNCHANGED <<item, thread, run>>
        /\ main' = IF main = "schema" THEN "complete" ELSE "deliver"
        /\ phase' = [phase EXCEPT !["main"] = "idle"]
    BY <1>3 DEF Unlink, MarkCleanup, UploadDone
  <2> QED
    BY <2>1, <2>2 DEF Turns, Threads, Scanning, Ended
<1>4. CASE u = "main" /\ MarkRejected(u)
  <2>1. main \in {"schema", "manifest"}
    BY <1>4 DEF Turns, MarkRejected
  <2>2. /\ UNCHANGED <<item, thread, run>>
        /\ main' = "failing"
        /\ phase' = [phase EXCEPT !["main"] = "idle"]
    BY <1>4 DEF MarkRejected
  <2> QED
    BY <2>1, <2>2 DEF Turns, Threads, Scanning, Ended
<1> QED
  BY <1>1, <1>2, <1>3, <1>4 DEF UploadStep, Threads

\* Every step keeps the turns of the two threads.
LEMMA TurnsNext ==
  ASSUME TypeOK, Turns, Next
  PROVE  Turns'
<1> UploadType /\ ControlType /\ queue \in Seq(Chunks \cup {Sentinel})
  BY DEF TypeOK
<1> USE DEF UploadType, SetPhase
<1>1. CASE \E u \in Threads : \/ UploadStep(u) \/ PutUnanswered(u) \/ PutRefused(u)
                              \/ UnlinkFails(u)
  BY <1>1, TurnsUploadStep
<1>2. CASE BeginRun \/ StartThread \/ SetUploading \/ PreparationFails
  BY <1>2 DEF BeginRun, StartThread, SetUploading, PreparationFails, Turns, Scanning, Over, Ended
<1>3. CASE CloseChunk \/ DiskPressure \/ ScanFails \/ ScanCancelled \/ ScanEnds
  BY <1>3 DEF CloseChunk, DiskPressure, ScanFails, ScanCancelled, ScanEnds, Turns, Scanning, Ended
<1>4. CASE ThreadStarts \/ ThreadInitializeFails
  BY <1>4 DEF ThreadStarts, ThreadInitializeFails, Turns, Scanning, Ended
<1>5. CASE ThreadStatementFails
  <2>1. phase["thread"] # "idle"
    BY <1>5 DEF ThreadStatementFails, ThreadStatements
  <2> QED
    BY <1>5, <2>1 DEF ThreadStatementFails, Turns, Threads, Scanning, Ended
<1>6. CASE TakeItem
  <2>1. Head(queue) \in Chunks \cup {Sentinel}
    BY <1>6 DEF TakeItem
  <2> QED
    BY <1>6, <2>1 DEF TakeItem, Turns, Threads, Scanning, Ended
<1>7. CASE Join \/ CompleteRun \/ DeliverRun \/ CleanUp \/ FailRun \/ FailRunFails
  BY <1>7 DEF Join, CompleteRun, DeliverRun, CleanUp, FailRun, FailRunFails, Joinable, Turns,
     Scanning, Over, Ended
<1>8. CASE Decide \/ UploadManifest
  BY <1>8 DEF Decide, UploadManifest, StartUpload, Turns, Scanning, Over, Ended, Threads
<1>9. CASE RegisterFile
  BY <1>9 DEF RegisterFile, Turns, Threads
<1>10. CASE MainStatementFails
  <2>1. main \in {"decide", "schema", "complete", "finalizing", "manifest", "deliver", "cleanup"}
    BY <1>10 DEF MainStatementFails, MainStatements, Turns, ControlType, MainPoints, Ended
  <2>2. /\ main' = "failing"
        /\ phase' = [phase EXCEPT !["main"] = "idle"]
        /\ UNCHANGED <<thread, item, run>>
    BY <1>10 DEF MainStatementFails
  <2> QED
    BY <2>1, <2>2 DEF Turns, Scanning, Over, Ended, Threads
<1> QED
  BY <1>1, <1>2, <1>3, <1>4, <1>5, <1>6, <1>7, <1>8, <1>9, <1>10
  DEF Next, MainStep, ThreadStep, Failure, Threads

-----------------------------------------------------------------------------
(* The queue                                                                 *)

\* The queue is in order initially.
LEMMA InOrderInit == Init => InOrder
BY DEF Init, InOrder, Threads, Scanning

\* Most steps leave the queue and the position of the thread in it alone.
LEMMA InOrderFrame ==
  ASSUME InOrder, UNCHANGED <<queue, closed, item>>,
         thread' = "ended" => thread = "ended",
         main' \in Scanning => main \in Scanning
  PROVE  InOrder'
BY DEF InOrder

\* The end marker is appended when the scan is over.
LEMMA InOrderStop ==
  ASSUME TypeOK, InOrder, main = "scan", main' = "join", queue' = Append(queue, Sentinel),
         closed' \in {closed, closed + 1}, UNCHANGED <<thread, item>>
  PROVE  InOrder'
<1>1. queue \in Seq(Nat) /\ closed \in Nat /\ item["thread"] \in Nat
  BY DEF TypeOK, ControlType, UploadType, Chunks, Artifacts, Sentinel, Threads
<1>2. \A i \in DOMAIN queue : queue[i] # Sentinel
  BY DEF InOrder, Scanning
<1>3. \A i \in DOMAIN queue' : \/ i \in DOMAIN queue /\ queue'[i] = queue[i]
                               \/ i = Len(queue') /\ queue'[i] = Sentinel
  BY <1>1 DEF Sentinel
<1>4. thread # "ended" /\ main' \notin Scanning
  BY DEF InOrder, Scanning
<1>5. \A i \in DOMAIN queue' :
        /\ queue'[i] = Sentinel => i = Len(queue')
        /\ queue'[i] # Sentinel => item'["thread"] < queue'[i] /\ queue'[i] <= closed'
  BY <1>1, <1>2, <1>3 DEF InOrder
<1>6. \A i, j \in DOMAIN queue' : i < j /\ queue'[j] # Sentinel => queue'[i] < queue'[j]
  BY <1>1, <1>2, <1>3 DEF InOrder
<1>7. item'["thread"] <= closed'
  BY <1>1 DEF InOrder
<1> QED
  BY <1>4, <1>5, <1>6, <1>7 DEF InOrder

\* Chunks are queued and taken in the order they were closed.
LEMMA InOrderNext ==
  ASSUME TypeOK, Turns, InOrder, Next
  PROVE  InOrder'
<1>0. queue \in Seq(Nat) /\ closed \in Nat /\ item["thread"] \in Nat
  BY DEF TypeOK, ControlType, UploadType, Chunks, Artifacts, Sentinel, Threads
<1>1. ASSUME NEW u \in Threads,
             UploadStep(u) \/ PutUnanswered(u) \/ PutRefused(u) \/ UnlinkFails(u)
      PROVE  InOrder'
  <2>1. UNCHANGED <<queue, closed, item, thread>>
    BY <1>1 DEF UploadStep, MarkAttempt, PutConfirmed, PutConflict, MarkUploaded, Unlink,
       MarkCleanup, MarkRejected, PutUnanswered, PutRefused, UnlinkFails
  <2>2. main' \in {main, "complete", "deliver", "failing"}
    BY <1>1 DEF UploadStep, MarkAttempt, PutConfirmed, PutConflict, MarkUploaded, Unlink,
       MarkCleanup, MarkRejected, UploadDone, PutUnanswered, PutRefused, UnlinkFails
  <2> QED
    BY <2>1, <2>2, InOrderFrame DEF Scanning
<1>2. CASE BeginRun \/ StartThread \/ SetUploading \/ PreparationFails
  BY <1>2, InOrderFrame DEF BeginRun, StartThread, SetUploading, PreparationFails, Scanning
<1>3. CASE ThreadStarts \/ ThreadInitializeFails \/ ThreadStatementFails
  BY <1>3, InOrderFrame DEF ThreadStarts, ThreadInitializeFails, ThreadStatementFails
<1>4. CASE Join \/ RegisterFile \/ CompleteRun \/ DeliverRun \/ CleanUp \/ FailRun
           \/ FailRunFails \/ MainStatementFails
  BY <1>4, InOrderFrame DEF Join, RegisterFile, CompleteRun, DeliverRun, CleanUp, FailRun,
     FailRunFails, MainStatementFails, Scanning
<1>5. CASE Decide \/ UploadManifest
  <2>1. /\ UNCHANGED <<queue, closed, thread>>
        /\ item'["thread"] = item["thread"]
        /\ main' \notin Scanning
    BY <1>5 DEF Decide, UploadManifest, StartUpload, TypeOK, UploadType, Threads, Scanning
  <2> QED
    BY <2>1 DEF InOrder
<1>6. CASE ScanFails \/ ScanCancelled \/ ScanEnds \/ DiskPressure
  BY <1>6, InOrderStop DEF ScanFails, ScanCancelled, ScanEnds, DiskPressure, StopThread
<1>7. CASE CloseChunk
  <2>1. CASE queue' = Append(queue, Sentinel) /\ main' = "join"
    BY <1>7, <2>1, InOrderStop DEF CloseChunk
  <2>2. CASE queue' = Append(queue, closed + 1) /\ UNCHANGED main
    <3>1. closed' = closed + 1 /\ main = "scan" /\ UNCHANGED <<thread, item>>
      BY <1>7 DEF CloseChunk
    <3>2. thread # "ended" /\ \A i \in DOMAIN queue : queue[i] # Sentinel
      BY <3>1 DEF InOrder, Scanning
    <3>3. \A i \in DOMAIN queue' : \/ i \in DOMAIN queue /\ queue'[i] = queue[i]
                                   \/ i = Len(queue) + 1 /\ queue'[i] = closed + 1
      BY <1>0, <2>2
    <3>4. \A i \in DOMAIN queue' : /\ queue'[i] # Sentinel
                                   /\ item["thread"] < queue'[i] /\ queue'[i] <= closed + 1
      BY <1>0, <3>2, <3>3 DEF InOrder, Sentinel
    <3>5. \A i, j \in DOMAIN queue' : i < j => queue'[i] < queue'[j]
      BY <1>0, <3>2, <3>3 DEF InOrder
    <3>6. item["thread"] <= closed + 1
      BY <1>0 DEF InOrder
    <3> QED
      BY <3>1, <3>2, <3>4, <3>5, <3>6 DEF InOrder
  <2> QED
    BY <1>7, <2>1, <2>2 DEF CloseChunk, StopThread
<1>8. CASE TakeItem
  <2>1. UNCHANGED <<closed, main>> /\ queue # <<>> /\ queue' = Tail(queue) /\ thread = "loop"
    BY <1>8 DEF TakeItem
  <2>2. \A i \in DOMAIN queue' : /\ i + 1 \in DOMAIN queue /\ 1 < i + 1
                                 /\ queue'[i] = queue[i + 1]
    BY <1>0, <2>1
  <2>3. Head(queue) = queue[1] /\ 1 \in DOMAIN queue /\ Len(queue') = Len(queue) - 1
    BY <1>0, <2>1
  <2>4. /\ \A i \in DOMAIN queue' : queue'[i] = Sentinel => i = Len(queue')
        /\ \A i \in DOMAIN queue' : queue'[i] # Sentinel => queue'[i] <= closed
    BY <1>0, <2>1, <2>2, <2>3 DEF InOrder
  <2>9. ASSUME NEW i \in DOMAIN queue', NEW j \in DOMAIN queue', i < j, queue'[j] # Sentinel
        PROVE  queue'[i] < queue'[j]
    <3>1. i \in Nat /\ j \in Nat
      BY <1>0, <2>1
    <3>2. i + 1 \in DOMAIN queue /\ j + 1 \in DOMAIN queue /\ i + 1 < j + 1
      BY <2>2, <2>9, <3>1
    <3>3. queue'[i] = queue[i + 1] /\ queue'[j] = queue[j + 1]
      BY <2>2
    <3> QED
      BY <2>9, <3>2, <3>3 DEF InOrder
  <2>5. main \in Scanning => /\ \A i \in DOMAIN queue' : queue'[i] # Sentinel
                             /\ Head(queue) # Sentinel
    BY <2>2, <2>3 DEF InOrder
  <2>6. CASE Head(queue) = Sentinel /\ thread' = "ended" /\ UNCHANGED upload
    <3>1. queue' = <<>>
      BY <1>0, <2>1, <2>3, <2>6 DEF InOrder
    <3> QED
      BY <2>1, <2>5, <2>6, <3>1 DEF InOrder
  <2>7. CASE UNCHANGED <<thread, upload>>
    <3>1. \A i \in DOMAIN queue' : queue'[i] # Sentinel => item["thread"] < queue'[i]
      BY <2>2 DEF InOrder
    <3> QED
      BY <2>1, <2>4, <2>5, <2>7, <2>9, <3>1 DEF InOrder
  <2>8. CASE Head(queue) # Sentinel /\ item' = [item EXCEPT !["thread"] = Head(queue)]
             /\ UNCHANGED thread
    <3>1. item'["thread"] = Head(queue)
      BY <2>8 DEF TypeOK, UploadType, Threads
    <3>2. Head(queue) <= closed
      BY <2>3, <2>8 DEF InOrder
    <3>3. \A j \in DOMAIN queue : 1 < j /\ queue[j] # Sentinel => queue[1] < queue[j]
      BY <2>3 DEF InOrder
    <3>4. \A i \in DOMAIN queue' : queue'[i] # Sentinel => item'["thread"] < queue'[i]
      BY <2>2, <2>3, <3>1, <3>3
    <3> QED
      BY <2>1, <2>4, <2>5, <2>8, <2>9, <3>1, <3>2, <3>4 DEF InOrder
  <2> QED
    BY <1>8, <2>6, <2>7, <2>8 DEF TakeItem
<1> QED
  BY <1>1, <1>2, <1>3, <1>4, <1>5, <1>6, <1>7, <1>8 DEF Next, MainStep, ThreadStep, Failure, Threads

-----------------------------------------------------------------------------
(* Records, files and what the relay holds                                   *)

\* Initially nothing was confirmed and nothing removed.
LEMMA ConfirmedInit == Init => Confirmed /\ KeptUntilConfirmed
BY DEF Init, Confirmed, KeptUntilConfirmed, Threads, Chunks, Artifacts

\* Only the uploading thread is busy, and with a file whose record and spool entry
\* no other part of the invariant speaks of.
LEMMA UploadIsExclusive ==
  ASSUME TypeOK, Turns, NEW u \in Threads, phase[u] # "idle"
  PROVE  /\ \A w \in Threads : w # u => phase[w] = "idle"
         /\ item[u] \in Artifacts
         /\ \A c \in Chunks : item["thread"] < c => c # item[u]
         /\ item[u] \in Chunks => u = "thread"
<1>1. item["thread"] \in Nat
  BY DEF TypeOK, UploadType, Threads, Artifacts
<1>2. SchemaFile \notin Chunks /\ ManifestFile \notin Chunks
  BY DEF SchemaFile, ManifestFile, Chunks
<1> QED
  BY <1>1, <1>2, UploadFacts DEF Threads, Chunks

\* An upload confirms only what the relay has and removes only what is confirmed.
LEMMA ConfirmedUploadStep ==
  ASSUME TypeOK, Turns, InOrder, Confirmed, KeptUntilConfirmed, NEW u \in Threads,
         UploadStep(u) \/ PutUnanswered(u) \/ PutRefused(u) \/ UnlinkFails(u)
  PROVE  Confirmed' /\ KeptUntilConfirmed'
<1>1. phase[u] # "idle"
  BY DEF UploadStep, MarkAttempt, PutConfirmed, PutConflict, MarkUploaded, Unlink, MarkCleanup,
     MarkRejected, PutUnanswered, PutRefused, UnlinkFails
<1>2. /\ \A w \in Threads : w # u => phase[w] = "idle"
      /\ item[u] \in Artifacts
      /\ \A c \in Chunks : item["thread"] < c => c # item[u]
      /\ item[u] \in Chunks => u = "thread"
  BY <1>1, UploadIsExclusive
<1>3. item[u] \in Chunks => ~(item[u] > closed)
  BY <1>2 DEF InOrder, TypeOK, ControlType, Chunks
<1>4. UploadType /\ FilesType
  BY DEF TypeOK
<1>5. UNCHANGED <<closed, item>>
  BY DEF UploadStep, MarkAttempt, PutConfirmed, PutConflict, MarkUploaded, Unlink, MarkCleanup,
     MarkRejected, PutUnanswered, PutRefused, UnlinkFails
<1> USE DEF UploadType, FilesType, SetPhase, SetRecord
<1>6. CASE MarkAttempt(u) \/ MarkRejected(u)
  <2>1. /\ item[u] \in spool
        /\ \E s \in {"UPLOADING", "FAILED"} : record' = [record EXCEPT ![item[u]] = s]
        /\ \E q \in {"put", "idle"} : phase' = [phase EXCEPT ![u] = q]
        /\ UNCHANGED <<spool, remote>>
    BY <1>6 DEF MarkAttempt, MarkRejected, Confirmed
  <2> QED
    BY <1>2, <1>3, <1>4, <1>5, <2>1 DEF Confirmed, KeptUntilConfirmed
<1>7. CASE PutConfirmed(u) \/ PutConflict(u) \/ PutUnanswered(u) \/ PutRefused(u)
  <2>1. /\ item[u] \in spool
        /\ \E q \in {"confirmed", "rejected", "attempt"} :
             /\ phase' = [phase EXCEPT ![u] = q]
             /\ q = "confirmed" => item[u] \in remote'
        /\ remote \subseteq remote'
        /\ UNCHANGED <<spool, record>>
    BY <1>7 DEF PutConfirmed, PutConflict, PutUnanswered, PutRefused, AfterFailure, Confirmed
  <2> QED
    BY <1>2, <1>4, <1>5, <2>1 DEF Confirmed, KeptUntilConfirmed
<1>8. CASE MarkUploaded(u)
  <2>1. /\ item[u] \in spool /\ item[u] \in remote
        /\ record' = [record EXCEPT ![item[u]] = "UPLOADED"]
        /\ phase' = [phase EXCEPT ![u] = "unlink"]
        /\ UNCHANGED <<spool, remote>>
    BY <1>8 DEF MarkUploaded, Confirmed
  <2> QED
    BY <1>2, <1>3, <1>4, <1>5, <2>1 DEF Confirmed, KeptUntilConfirmed
<1>9. CASE Unlink(u) \/ MarkCleanup(u) \/ UnlinkFails(u)
  <2>1. /\ record[item[u]] = "UPLOADED"
        /\ \E q \in {"mark_cleanup", "unlink_failed", "idle"} : phase' = [phase EXCEPT ![u] = q]
        /\ spool' \in {spool, spool \ {item[u]}}
        /\ UNCHANGED <<record, remote>>
    BY <1>9 DEF Unlink, MarkCleanup, UnlinkFails, UploadDone, Confirmed
  <2> QED
    BY <1>2, <1>4, <1>5, <2>1 DEF Confirmed, KeptUntilConfirmed
<1> QED
  BY <1>6, <1>7, <1>8, <1>9 DEF UploadStep

\* Confirmed files stay at the relay, and only confirmed files are removed.
LEMMA ConfirmedNext ==
  ASSUME TypeOK, Turns, InOrder, Confirmed, KeptUntilConfirmed, Next
  PROVE  Confirmed' /\ KeptUntilConfirmed'
<1>1. UploadType /\ FilesType /\ closed \in Nat /\ queue \in Seq(Chunks \cup {Sentinel})
  BY DEF TypeOK, ControlType
<1>2. item["thread"] \in Nat
  BY DEF TypeOK, UploadType, Threads, Artifacts
<1>3. CASE \E u \in Threads : \/ UploadStep(u) \/ PutUnanswered(u) \/ PutRefused(u)
                              \/ UnlinkFails(u)
  BY <1>3, ConfirmedUploadStep
<1>4. CASE \/ BeginRun \/ StartThread \/ SetUploading \/ PreparationFails \/ ScanEnds
           \/ ThreadStarts \/ ThreadInitializeFails \/ Join \/ DeliverRun \/ FailRun
           \/ FailRunFails
  <2>1. UNCHANGED <<closed, phase, item, record, spool, remote>>
    BY <1>4 DEF BeginRun, StartThread, SetUploading, PreparationFails, ScanEnds, ThreadStarts,
       ThreadInitializeFails, Join, DeliverRun, FailRun, FailRunFails
  <2> QED
    BY <2>1 DEF Confirmed, KeptUntilConfirmed
<1>5. CASE CompleteRun \/ ScanFails \/ ScanCancelled
  <2>1. UNCHANGED <<closed, phase, item, record, remote>> /\ spool \subseteq spool'
    BY <1>5 DEF CompleteRun, ScanFails, ScanCancelled
  <2> QED
    BY <2>1 DEF Confirmed, KeptUntilConfirmed
<1>6. CASE CloseChunk \/ DiskPressure
  <2>1. /\ closed' = closed + 1 /\ closed + 1 \in Chunks /\ main = "scan"
        /\ spool' = spool \cup {closed + 1}
        /\ record' = [record EXCEPT ![closed + 1] = "PENDING"]
        /\ UNCHANGED <<phase, item, remote>>
    BY <1>6 DEF CloseChunk, DiskPressure, SetRecord
  <2>2. \A u \in Threads : phase[u] # "idle" => item[u] # closed + 1
    BY <1>1, <1>2, <2>1 DEF Turns, InOrder, Threads
  <2>3. Chunks \subseteq Artifacts /\ Chunks \subseteq Nat
    BY DEF Chunks, Artifacts
  <2>4. \A a \in Artifacts : record'[a] = IF a = closed + 1 THEN "PENDING" ELSE record[a]
    BY <1>1, <2>1 DEF FilesType
  <2>5. \A a \in Artifacts : record'[a] = "UPLOADED" => a \in remote'
    BY <2>1, <2>4 DEF Confirmed
  <2>6. \A u \in Threads :
          /\ phase[u] = "confirmed" => item[u] \in remote'
          /\ phase[u] \in {"unlink", "unlink_failed", "mark_cleanup"} => record'[item[u]] = "UPLOADED"
          /\ phase[u] \in {"attempt", "put", "confirmed", "rejected", "unlink"} => item[u] \in spool'
    BY <2>1, <2>2, <2>4, UploadIsExclusive DEF Confirmed
  <2>7. \A c \in Chunks :
          /\ c > closed + 1 => record'[c] = "ABSENT"
          /\ item["thread"] < c /\ c <= closed + 1 => c \in spool' /\ record'[c] = "PENDING"
    BY <1>1, <1>2, <2>1, <2>3, <2>4 DEF Confirmed
  <2>8. KeptUntilConfirmed'
    BY <2>1, <2>4 DEF KeptUntilConfirmed
  <2> QED
    BY <2>1, <2>5, <2>6, <2>7, <2>8 DEF Confirmed
<1>7. CASE ThreadStatementFails
  <2>1. /\ UNCHANGED <<closed, item, record, spool, remote>>
        /\ phase' = [phase EXCEPT !["thread"] = "idle"]
    BY <1>7 DEF ThreadStatementFails, SetPhase
  <2> QED
    BY <1>1, <2>1 DEF Confirmed, KeptUntilConfirmed, UploadType
<1>8. CASE TakeItem
  <2>1. UNCHANGED <<closed, record, spool, remote>> /\ queue # <<>> /\ phase["thread"] = "idle"
    BY <1>8 DEF TakeItem
  <2>2. CASE UNCHANGED upload
    BY <2>1, <2>2 DEF Confirmed, KeptUntilConfirmed
  <2>3. CASE /\ Head(queue) # Sentinel
             /\ phase' = [phase EXCEPT !["thread"] = "attempt"]
             /\ item' = [item EXCEPT !["thread"] = Head(queue)]
    <3>1. Head(queue) = queue[1] /\ 1 \in DOMAIN queue /\ Head(queue) \in Chunks
      BY <1>1, <2>1, <2>3
    <3>2. item["thread"] < Head(queue) /\ Head(queue) <= closed
      BY <2>3, <3>1 DEF InOrder
    <3>3. Head(queue) \in spool
      BY <3>1, <3>2 DEF Confirmed
    <3>4. /\ item'["thread"] = Head(queue) /\ item'["main"] = item["main"]
          /\ phase'["thread"] = "attempt" /\ phase'["main"] = phase["main"]
      BY <1>1, <2>3 DEF UploadType, Threads
    <3>5. \A c \in Chunks : Head(queue) < c => item["thread"] < c
      BY <1>2, <3>1, <3>2 DEF Chunks
    <3> QED
      BY <2>1, <3>3, <3>4, <3>5 DEF Confirmed, KeptUntilConfirmed, Threads
  <2> QED
    BY <1>8, <2>2, <2>3 DEF TakeItem, SetPhase
<1>9. CASE Decide \/ UploadManifest
  <2>1. UNCHANGED <<closed, record, spool, remote>>
    BY <1>9 DEF Decide, UploadManifest
  <2>2. \/ UNCHANGED upload
        \/ /\ phase' = [phase EXCEPT !["main"] = "register"]
           /\ \E a \in {SchemaFile, ManifestFile} : item' = [item EXCEPT !["main"] = a]
    BY <1>9 DEF Decide, UploadManifest, StartUpload, SetPhase
  <2>3. /\ phase'["thread"] = phase["thread"] /\ item'["thread"] = item["thread"]
        /\ UNCHANGED upload \/ phase'["main"] = "register"
    BY <1>1, <2>2 DEF UploadType, Threads
  <2> QED
    BY <2>1, <2>3 DEF Confirmed, KeptUntilConfirmed, Threads
<1>10. CASE RegisterFile
  <2>1. /\ phase["main"] = "register"
        /\ UNCHANGED <<closed, item, remote>>
        /\ spool' = spool \cup {item["main"]}
        /\ record' = [record EXCEPT ![item["main"]] = "PENDING"]
        /\ phase' = [phase EXCEPT !["main"] = "attempt"]
    BY <1>10 DEF RegisterFile, SetRecord, SetPhase
  <2>2. item["main"] \in Artifacts \ Chunks /\ phase["thread"] = "idle"
    BY <2>1, UploadIsExclusive DEF Threads
  <2> QED
    BY <1>1, <2>1, <2>2 DEF Confirmed, KeptUntilConfirmed, UploadType, FilesType, Threads, Chunks, Artifacts
<1>11. ASSUME CleanUp \/ MainStatementFails
       PROVE  Confirmed' /\ KeptUntilConfirmed'
  <2>1. main \notin Scanning \cup {"join", "raised"}
    BY <1>11 DEF CleanUp, MainStatementFails, MainStatements, Turns, TypeOK, ControlType, MainPoints,
       Ended, Scanning
  <2>2. phase["thread"] = "idle"
    BY <2>1 DEF Turns
  <2>3. UNCHANGED <<closed, item, record, remote>> /\ phase'["thread"] = "idle"
    BY <1>1, <1>11, <2>2 DEF CleanUp, MainStatementFails, SetPhase, UploadType, Threads
  <2>4. phase'["main"] = "idle"
    BY <1>1, <1>11 DEF CleanUp, MainStatementFails, SetPhase, UploadType, Threads, Turns
  <2>5. \A a \in spool : a \in spool' \/ record[a] = "UPLOADED"
    BY <1>11 DEF CleanUp, MainStatementFails, Uploaded
  <2> QED
    BY <2>2, <2>3, <2>4, <2>5 DEF Confirmed, KeptUntilConfirmed, Threads
<1> QED
  BY <1>3, <1>4, <1>5, <1>6, <1>7, <1>8, <1>9, <1>10, <1>11
  DEF Next, MainStep, ThreadStep, Failure, Threads

-----------------------------------------------------------------------------
(* The account of pending bytes                                              *)

\* Initially pending counts no file.
LEMMA CountedInit == Init => Counted
<1> SUFFICES ASSUME Init PROVE Counted
  OBVIOUS
<1>1. spool \cap 1..closed = {} /\ spool \cap Chunks = {}
  BY DEF Init
<1>2. Cardinality(spool \cap 1..closed) = 0
  BY <1>1, FS_EmptySet
<1> QED
  BY <1>1, <1>2 DEF Init, Counted, Threads

\* The chunks among those closed are finitely many.
LEMMA PresentIsFinite ==
  ASSUME TypeOK, NEW S
  PROVE  IsFiniteSet(S \cap 1..closed) /\ Cardinality(S \cap 1..closed) \in Nat
<1>1. IsFiniteSet(1..closed)
  BY FS_Interval DEF TypeOK, ControlType
<1>2. S \cap 1..closed \in SUBSET (1..closed)
  OBVIOUS
<1>3. IsFiniteSet(S \cap 1..closed)
  BY <1>1, <1>2, FS_Subset
<1> QED
  BY <1>3, FS_CardinalityType

\* A step that leaves the account alone and creates no chunk file.
LEMMA CountedFrame ==
  ASSUME TypeOK, Counted, UNCHANGED <<closed, pending>>,
         spool' \cap Chunks \subseteq spool,
         phase'["thread"] = "mark_cleanup" => phase["thread"] = "mark_cleanup",
         main' \in Scanning => main \in Scanning
  PROVE  Counted'
<1>1. closed \in 0..NumChunks /\ pending \in Nat
  BY DEF TypeOK, ControlType
<1>2. spool' \cap 1..closed \subseteq spool \cap 1..closed
  BY <1>1 DEF Chunks
<1>3. /\ IsFiniteSet(spool \cap 1..closed) /\ Cardinality(spool \cap 1..closed) \in Nat
      /\ Cardinality(spool' \cap 1..closed) \in Nat
  BY PresentIsFinite
<1>4. Cardinality(spool' \cap 1..closed) <= Cardinality(spool \cap 1..closed)
  BY <1>2, <1>3, FS_Subset
<1>5. /\ (Cardinality(spool \cap 1..closed))' = Cardinality(spool' \cap 1..closed)
      /\ 1..closed' = 1..closed /\ 1..(closed' + 1) = 1..(closed + 1)
  OBVIOUS
<1> QED
  BY <1>1, <1>3, <1>4, <1>5 DEF Counted

\* The scan ends with a file that was not recorded, or without one.
LEMMA CountedStop ==
  ASSUME TypeOK, Counted, ScanFails \/ ScanCancelled
  PROVE  Counted'
<1>1. closed \in 0..NumChunks /\ pending \in Nat
  BY DEF TypeOK, ControlType
<1>2. /\ main = "scan" /\ main' = "join" /\ UNCHANGED <<closed, pending, phase>>
      /\ spool' \subseteq spool \cup {closed + 1}
  BY DEF ScanFails, ScanCancelled
<1>3. spool' \cap 1..closed \subseteq spool \cap 1..closed
  BY <1>1, <1>2
<1>4. /\ IsFiniteSet(spool \cap 1..closed) /\ Cardinality(spool \cap 1..closed) \in Nat
      /\ Cardinality(spool' \cap 1..closed) \in Nat
  BY PresentIsFinite
<1>5. Cardinality(spool' \cap 1..closed) <= Cardinality(spool \cap 1..closed)
  BY <1>3, <1>4, FS_Subset
<1>6. pending <= MaxPending /\ spool \cap Chunks \subseteq 1..closed
  BY <1>2 DEF Counted, Scanning
<1>7. spool' \cap Chunks \subseteq 1..(closed + 1)
  BY <1>1, <1>2, <1>6
<1>8. Cardinality(spool' \cap 1..closed)
        + (IF phase["thread"] = "mark_cleanup" THEN 1 ELSE 0) <= pending
  BY <1>1, <1>4, <1>5 DEF Counted
<1> QED
  BY <1>1, <1>2, <1>6, <1>7, <1>8 DEF Counted, Scanning

\* A chunk is added to the account.
LEMMA CountedClose ==
  ASSUME TypeOK, Counted, CloseChunk \/ DiskPressure
  PROVE  Counted'
<1>1. closed \in 0..NumChunks /\ pending \in Nat
  BY DEF TypeOK, ControlType
<1>2. /\ main = "scan" /\ closed' = closed + 1 /\ pending' = pending + 1 /\ UNCHANGED phase
      /\ spool' = spool \cup {closed + 1}
      /\ pending' <= MaxPending \/ main' = "join"
  BY <1>1 DEF CloseChunk, DiskPressure, OverLimit
<1>3. pending <= MaxPending /\ spool \cap Chunks \subseteq 1..closed
  BY <1>2 DEF Counted, Scanning
<1>4. spool' \cap 1..(closed + 1) = (spool \cap 1..closed) \cup {closed + 1}
  <2>1. closed + 1 \in Chunks
    BY <1>1 DEF CloseChunk, DiskPressure
  <2> QED
    BY <1>1, <1>2
<1>5. IsFiniteSet(spool \cap 1..closed) /\ Cardinality(spool \cap 1..closed) \in Nat
  BY PresentIsFinite
<1>6. Cardinality(spool' \cap 1..(closed + 1)) <= Cardinality(spool \cap 1..closed) + 1
  BY <1>4, <1>5, FS_AddElement
<1>7. Cardinality(spool' \cap 1..(closed + 1)) \in Nat
  BY <1>4, <1>5, FS_AddElement, FS_CardinalityType
<1>8. spool' \cap Chunks \subseteq 1..(closed + 1)
  BY <1>1, <1>2, <1>3
<1>9. closed + 2 \notin spool' \cap Chunks
  BY <1>1, <1>8
<1>10. Cardinality(spool' \cap 1..(closed + 1))
         + (IF phase["thread"] = "mark_cleanup" THEN 1 ELSE 0) <= pending + 1
  BY <1>1, <1>5, <1>6, <1>7 DEF Counted
<1>11. 1..(closed + 1) \subseteq 1..(closed + 1 + 1)
  BY <1>1
<1> QED
  BY <1>1, <1>2, <1>3, <1>8, <1>9, <1>10, <1>11 DEF Counted, Scanning

\* An unlinked file leaves the account in the next statement of the thread.
LEMMA CountedUnlink ==
  ASSUME TypeOK, Turns, InOrder, Confirmed, Counted, Unlink("thread") \/ MarkCleanup("thread")
  PROVE  Counted'
<1>1. closed \in 0..NumChunks /\ pending \in Nat
  BY DEF TypeOK, ControlType
<1>2. IsFiniteSet(spool \cap 1..closed) /\ Cardinality(spool \cap 1..closed) \in Nat
  BY PresentIsFinite
<1>3. UNCHANGED <<closed, main>>
  BY DEF Unlink, MarkCleanup, UploadDone
<1>4. CASE Unlink("thread")
  <2>1. /\ phase["thread"] = "unlink" /\ phase'["thread"] = "mark_cleanup"
        /\ spool' = spool \ {item["thread"]} /\ UNCHANGED pending
    BY <1>4 DEF Unlink, SetPhase, TypeOK, UploadType, Threads
  <2>2. item["thread"] \in spool /\ item["thread"] \in 1..closed
    BY <1>1, <2>1 DEF Confirmed, Turns, InOrder, Threads, Chunks
  <2>3. spool' \cap 1..closed = (spool \cap 1..closed) \ {item["thread"]}
    BY <2>1
  <2>4. Cardinality(spool' \cap 1..closed) = Cardinality(spool \cap 1..closed) - 1
    <3>1. item["thread"] \in spool \cap 1..closed
      BY <2>2
    <3>2. Cardinality((spool \cap 1..closed) \ {item["thread"]})
            = Cardinality(spool \cap 1..closed) - 1
      BY <1>2, <3>1, FS_RemoveElement
    <3> QED
      BY <2>3, <3>2
  <2>5. Cardinality(spool' \cap 1..closed) + 1 <= pending
    BY <1>1, <1>2, <2>1, <2>4 DEF Counted
  <2>6. closed + 1 \in spool' \cap Chunks => pending <= MaxPending
    BY <2>1 DEF Counted
  <2>7. main \in Scanning => pending <= MaxPending /\ spool' \cap Chunks \subseteq 1..closed
    BY <2>1 DEF Counted
  <2>8. spool' \cap Chunks \subseteq 1..(closed + 1)
    BY <2>1 DEF Counted
  <2>9. pending <= closed /\ pending <= MaxPending + 1
    BY DEF Counted
  <2> QED
    BY <1>3, <2>1, <2>5, <2>6, <2>7, <2>8, <2>9 DEF Counted
<1>5. CASE MarkCleanup("thread")
  <2>1. /\ phase["thread"] \in {"mark_cleanup", "unlink_failed"} /\ phase'["thread"] = "idle"
        /\ UNCHANGED spool
        /\ pending' = IF phase["thread"] = "mark_cleanup" THEN pending - 1 ELSE pending
    BY <1>5 DEF MarkCleanup, UploadDone, Released, SetPhase, TypeOK, UploadType, Threads
  <2>2. Cardinality(spool \cap 1..closed) <= pending' /\ pending' <= pending
    BY <1>1, <1>2, <2>1 DEF Counted
  <2>3. Cardinality(spool \cap 1..closed) + 0 <= pending'
    BY <1>2, <2>2
  <2>4. pending' \in Int
    BY <1>1, <2>1
  <2>5. pending' <= closed /\ pending' <= MaxPending + 1
    BY <1>1, <2>2, <2>4 DEF Counted
  <2>6. pending <= MaxPending => pending' <= MaxPending
    BY <1>1, <2>2, <2>4
  <2> QED
    BY <1>3, <2>1, <2>3, <2>5, <2>6 DEF Counted
<1> QED
  BY <1>4, <1>5

\* Pending keeps covering every recorded chunk file that is still there, within the limit
\* and one more.
LEMMA CountedNext ==
  ASSUME TypeOK, Turns, InOrder, Confirmed, Counted, Next
  PROVE  Counted'
<1>1. UploadType
  BY DEF TypeOK
<1>2. ManifestFile \notin Chunks /\ SchemaFile \notin Chunks
  BY DEF ManifestFile, SchemaFile, Chunks
<1>3. phase["main"] # "idle" => item["main"] \notin Chunks
  BY UploadIsExclusive DEF Threads
<1>4. ASSUME NEW u \in Threads,
             UploadStep(u) \/ PutUnanswered(u) \/ PutRefused(u) \/ UnlinkFails(u),
             ~(u = "thread" /\ (Unlink(u) \/ MarkCleanup(u)))
      PROVE  Counted'
  <2>1. UNCHANGED <<closed, pending>> /\ spool' \subseteq spool
    BY <1>4 DEF UploadStep, MarkAttempt, PutConfirmed, PutConflict, MarkUploaded, Unlink,
       MarkCleanup, MarkRejected, PutUnanswered, PutRefused, UnlinkFails, Threads
  <2>2. main' \in Scanning => main \in Scanning
    BY <1>4 DEF UploadStep, MarkAttempt, PutConfirmed, PutConflict, MarkUploaded, Unlink,
       MarkCleanup, MarkRejected, UploadDone, PutUnanswered, PutRefused, UnlinkFails, Scanning
  <2>3. phase'["thread"] = "mark_cleanup" => phase["thread"] = "mark_cleanup"
    BY <1>1, <1>4 DEF UploadStep, MarkAttempt, PutConfirmed, PutConflict, MarkUploaded, Unlink,
       MarkCleanup, MarkRejected, UploadDone, PutUnanswered, AfterFailure, PutRefused, UnlinkFails,
       SetPhase, UploadType, Threads
  <2> QED
    BY <2>1, <2>2, <2>3, CountedFrame
<1>5. CASE \/ BeginRun \/ StartThread \/ SetUploading \/ PreparationFails \/ ScanEnds
           \/ ThreadStarts \/ ThreadInitializeFails \/ Join \/ Decide \/ UploadManifest
           \/ DeliverRun \/ CleanUp \/ FailRun \/ FailRunFails
  <2>1. /\ UNCHANGED <<closed, pending>> /\ spool' \subseteq spool
        /\ main' \in Scanning => main \in Scanning
    BY <1>5 DEF BeginRun, StartThread, SetUploading, PreparationFails, ScanEnds, ThreadStarts,
       ThreadInitializeFails, Join, Decide, UploadManifest, DeliverRun, CleanUp, FailRun,
       FailRunFails, Scanning
  <2>2. phase'["thread"] = phase["thread"]
    BY <1>1, <1>5 DEF BeginRun, StartThread, SetUploading, PreparationFails, ScanEnds, ThreadStarts,
       ThreadInitializeFails, Join, Decide, UploadManifest, StartUpload, SetPhase, DeliverRun,
       CleanUp, FailRun, FailRunFails, UploadType, Threads
  <2> QED
    BY <2>1, <2>2, CountedFrame
<1>6. CASE RegisterFile \/ CompleteRun \/ MainStatementFails
  <2>1. UNCHANGED <<closed, pending>> /\ (main' \in Scanning => main \in Scanning)
    BY <1>6 DEF RegisterFile, CompleteRun, MainStatementFails, Scanning
  <2>2. phase'["thread"] = phase["thread"]
    BY <1>1, <1>6 DEF RegisterFile, CompleteRun, MainStatementFails, SetPhase, UploadType, Threads
  <2>3. main # "register"
    BY DEF TypeOK, ControlType, MainPoints, Ended
  <2>4. spool' \subseteq spool \cup {item["main"], ManifestFile}
        /\ (phase["main"] = "idle" => spool' \subseteq spool \cup {ManifestFile})
    BY <1>6, <2>3 DEF RegisterFile, CompleteRun, MainStatementFails
  <2>5. spool' \cap Chunks \subseteq spool
    BY <1>2, <1>3, <2>4
  <2> QED
    BY <2>1, <2>2, <2>5, CountedFrame
<1>7. CASE TakeItem \/ ThreadStatementFails
  <2>1. UNCHANGED <<closed, pending, spool, main>>
    BY <1>7 DEF TakeItem, ThreadStatementFails
  <2>2. phase'["thread"] = "mark_cleanup" => phase["thread"] = "mark_cleanup"
    BY <1>1, <1>7 DEF TakeItem, ThreadStatementFails, SetPhase, UploadType, Threads
  <2> QED
    BY <2>1, <2>2, CountedFrame
<1>8. CASE ScanFails \/ ScanCancelled
  BY <1>8, CountedStop
<1>9. CASE CloseChunk \/ DiskPressure
  BY <1>9, CountedClose
<1>10. CASE Unlink("thread") \/ MarkCleanup("thread")
  BY <1>10, CountedUnlink
<1> QED
  BY <1>4, <1>5, <1>6, <1>7, <1>8, <1>9, <1>10
  DEF Next, MainStep, ThreadStep, Failure, Threads

-----------------------------------------------------------------------------
(* The commit of a run, as long as the upload thread lives                   *)

\* Initially nothing was committed or delivered.
LEMMA CommitInit ==
  Init => Accounted /\ Committed /\ CommittedIsComplete /\ DeliveredIsConfirmed
<1> SUFFICES ASSUME Init
             PROVE  Accounted /\ Committed /\ CommittedIsComplete /\ DeliveredIsConfirmed
  OBVIOUS
<1>1. Accounted
  BY DEF Init, Accounted
<1>2. Committed
  BY DEF Init, Committed, Committing
<1> QED
  BY <1>1, <1>2 DEF Init, CommittedIsComplete, ManifestIsLast, DeliveredIsConfirmed

\* The first error is kept.
LEMMA FatalStays ==
  ASSUME Next, fatal # "none"
  PROVE  fatal' # "none"
<1>1. ASSUME NEW u \in Threads,
             UploadStep(u) \/ PutUnanswered(u) \/ PutRefused(u) \/ UnlinkFails(u)
      PROVE  fatal' # "none"
  BY <1>1 DEF UploadStep, MarkAttempt, PutConfirmed, PutConflict, MarkUploaded, Unlink,
     MarkCleanup, MarkRejected, FirstError, PutUnanswered, PutRefused, UnlinkFails
<1>2. CASE \/ CloseChunk \/ DiskPressure \/ ScanFails \/ ScanCancelled \/ ScanEnds
           \/ ThreadStatementFails
  BY <1>2 DEF CloseChunk, DiskPressure, ScanFails, ScanCancelled, ScanEnds, ThreadStatementFails,
     FirstError
<1>3. CASE \/ BeginRun \/ StartThread \/ SetUploading \/ PreparationFails \/ ThreadStarts
           \/ ThreadInitializeFails \/ TakeItem \/ Join \/ Decide \/ RegisterFile \/ CompleteRun
           \/ UploadManifest \/ DeliverRun \/ CleanUp \/ MainStatementFails \/ FailRun
           \/ FailRunFails
  BY <1>3 DEF BeginRun, StartThread, SetUploading, PreparationFails, ThreadStarts,
     ThreadInitializeFails, TakeItem, Join, Decide, RegisterFile, CompleteRun, UploadManifest,
     DeliverRun, CleanUp, MainStatementFails, FailRun, FailRunFails
<1> QED
  BY <1>1, <1>2, <1>3 DEF Next, MainStep, ThreadStep, Failure, Threads

\* A record changes only in an upload, and when a chunk is closed.
LEMMA RecordSteps ==
  ASSUME Next
  PROVE  \/ UNCHANGED record
         \/ \E u \in Threads : /\ phase[u] # "idle"
                              /\ \E s : record' = [record EXCEPT ![item[u]] = s]
         \/ /\ main = "scan"
            /\ record' = [record EXCEPT ![closed + 1] = "PENDING"]
<1> USE DEF SetRecord
<1>1. ASSUME NEW u \in Threads,
             UploadStep(u) \/ PutUnanswered(u) \/ PutRefused(u) \/ UnlinkFails(u)
      PROVE  \/ UNCHANGED record
             \/ /\ phase[u] # "idle"
                /\ \E s : record' = [record EXCEPT ![item[u]] = s]
  BY <1>1 DEF UploadStep, MarkAttempt, PutConfirmed, PutConflict, MarkUploaded, Unlink,
     MarkCleanup, MarkRejected, PutUnanswered, PutRefused, UnlinkFails
<1>2. CASE CloseChunk \/ DiskPressure
  BY <1>2 DEF CloseChunk, DiskPressure
<1>3. CASE RegisterFile
  BY <1>3 DEF RegisterFile, Threads
<1>4. CASE \/ BeginRun \/ StartThread \/ SetUploading \/ PreparationFails \/ ScanFails
           \/ ScanCancelled \/ ScanEnds \/ ThreadStatementFails \/ ThreadStarts
           \/ ThreadInitializeFails \/ TakeItem \/ Join \/ Decide \/ CompleteRun
           \/ UploadManifest \/ DeliverRun \/ CleanUp \/ MainStatementFails \/ FailRun
           \/ FailRunFails
  BY <1>4 DEF BeginRun, StartThread, SetUploading, PreparationFails, ScanFails, ScanCancelled,
     ScanEnds, ThreadStatementFails, ThreadStarts, ThreadInitializeFails, TakeItem, Join, Decide,
     CompleteRun, UploadManifest, DeliverRun, CleanUp, MainStatementFails, FailRun, FailRunFails
<1> QED
  BY <1>1, <1>2, <1>3, <1>4 DEF Next, MainStep, ThreadStep, Failure, Threads

\* An upload that does not fail leaves its file accounted for.
LEMMA AccountedUploadStep ==
  ASSUME TypeOK, Turns, Confirmed, Accounted, NEW u \in Threads,
         UploadStep(u) \/ PutUnanswered(u) \/ PutRefused(u) \/ UnlinkFails(u),
         fatal' = "none"
  PROVE  Accounted'
<1>1. UploadType /\ FilesType
  BY DEF TypeOK
<1>2. UNCHANGED <<closed, queue, item>>
  BY DEF UploadStep, MarkAttempt, PutConfirmed, PutConflict, MarkUploaded, Unlink, MarkCleanup,
     MarkRejected, PutUnanswered, PutRefused, UnlinkFails
<1>3. fatal = "none"
  BY DEF UploadStep, MarkAttempt, PutConfirmed, PutConflict, MarkUploaded, Unlink, MarkCleanup,
     MarkRejected, FirstError, PutUnanswered, PutRefused, UnlinkFails
<1>4. phase[u] # "idle"
  BY DEF UploadStep, MarkAttempt, PutConfirmed, PutConflict, MarkUploaded, Unlink, MarkCleanup,
     MarkRejected, PutUnanswered, PutRefused, UnlinkFails
<1>5. ASSUME NEW c \in 1..closed, record[c] = "UPLOADED"
      PROVE  \/ record'[c] = "UPLOADED"
             \/ u = "thread" /\ c = item[u] /\ phase'[u] # "idle"
  <2>1. c \in Chunks /\ c \in Artifacts
    BY <1>5 DEF TypeOK, ControlType, Chunks, Artifacts
  <2>2. c = item[u] => u = "thread"
    BY <1>4, <2>1, UploadIsExclusive
  <2>3. CASE MarkAttempt(u) \/ MarkUploaded(u)
    BY <1>1, <1>5, <2>1, <2>2, <2>3 DEF MarkAttempt, MarkUploaded, SetRecord, SetPhase, FilesType, UploadType
  <2>4. CASE MarkRejected(u)
    <3>1. u = "main"
      BY <2>4 DEF MarkRejected, FirstError, Threads
    <3> QED
      BY <1>1, <1>5, <2>1, <2>2, <2>4, <3>1 DEF MarkRejected, SetRecord, FilesType
  <2>5. CASE \/ PutConfirmed(u) \/ PutConflict(u) \/ Unlink(u) \/ MarkCleanup(u)
             \/ PutUnanswered(u) \/ PutRefused(u) \/ UnlinkFails(u)
    BY <1>5, <2>5 DEF PutConfirmed, PutConflict, Unlink, MarkCleanup, PutUnanswered, PutRefused,
       UnlinkFails
  <2> QED
    BY <2>3, <2>4, <2>5 DEF UploadStep
<1>6. ASSUME phase["thread"] # "idle"
      PROVE  phase'["thread"] # "idle" \/ record'[item["thread"]] = "UPLOADED"
  <2>1. u = "thread"
    BY <1>4, <1>6, UploadIsExclusive DEF Threads
  <2>2. CASE MarkCleanup(u)
    <3>1. phase[u] \in {"mark_cleanup", "unlink_failed"} /\ UNCHANGED record
      BY <2>2 DEF MarkCleanup
    <3>2. record[item[u]] = "UPLOADED"
      BY <3>1 DEF Confirmed
    <3> QED
      BY <2>1, <3>1, <3>2
  <2>3. ~MarkRejected(u)
    BY <2>1 DEF MarkRejected, FirstError
  <2>4. CASE \/ MarkAttempt(u) \/ MarkUploaded(u) \/ PutConfirmed(u) \/ PutConflict(u) \/ Unlink(u)
             \/ PutUnanswered(u) \/ PutRefused(u) \/ UnlinkFails(u)
    BY <1>1, <2>1, <2>4 DEF MarkAttempt, MarkUploaded, PutConfirmed, PutConflict, Unlink,
       PutUnanswered, AfterFailure, PutRefused, UnlinkFails, SetPhase, UploadType
  <2> QED
    BY <2>2, <2>3, <2>4 DEF UploadStep
<1> QED
  BY <1>2, <1>3, <1>5, <1>6 DEF Accounted

\* Every closed chunk stays accounted for, while the thread has not died.
LEMMA AccountedNext ==
  ASSUME TypeOK, Turns, InOrder, Confirmed, Accounted, thread' # "dead", Next
  PROVE  Accounted'
<1> SUFFICES ASSUME fatal' = "none" PROVE Accounted'
  BY DEF Accounted
<1>1. fatal = "none"
  BY FatalStays
<1>2. UploadType /\ FilesType /\ closed \in 0..NumChunks /\ queue \in Seq(Chunks \cup {Sentinel})
  BY DEF TypeOK, ControlType
<1>3. ASSUME NEW u \in Threads,
             UploadStep(u) \/ PutUnanswered(u) \/ PutRefused(u) \/ UnlinkFails(u)
      PROVE  Accounted'
  BY <1>3, AccountedUploadStep
<1>4. CASE CloseChunk
  <2>1. /\ closed' = closed + 1 /\ queue' = Append(queue, closed + 1) /\ UNCHANGED <<phase, item>>
        /\ record' = [record EXCEPT ![closed + 1] = "PENDING"]
    BY <1>4 DEF CloseChunk, FirstError, SetRecord
  <2>2. \A c \in 1..closed : record'[c] = record[c]
    BY <1>2, <2>1 DEF FilesType, Artifacts
  <2>3. \A i \in DOMAIN queue : i \in DOMAIN queue' /\ queue'[i] = queue[i]
    BY <1>2, <2>1
  <2>4. \E i \in DOMAIN queue' : queue'[i] = closed + 1
    <3>1. Len(queue) + 1 \in DOMAIN queue' /\ queue'[Len(queue) + 1] = closed + 1
      BY <1>2, <2>1
    <3> QED
      BY <3>1
  <2>5. \A c \in 1..closed' : c \in 1..closed \/ c = closed + 1
    BY <1>2, <2>1
  <2> QED
    BY <1>1, <2>1, <2>2, <2>3, <2>4, <2>5 DEF Accounted
<1>5. ~DiskPressure /\ ~ScanFails /\ ~ScanCancelled
  BY <1>1 DEF DiskPressure, ScanFails, ScanCancelled, FirstError
<1>6. CASE ScanEnds
  <2>1. queue' = Append(queue, Sentinel) /\ UNCHANGED <<closed, phase, item, record>>
    BY <1>6 DEF ScanEnds, StopThread
  <2>2. \A i \in DOMAIN queue : i \in DOMAIN queue' /\ queue'[i] = queue[i]
    BY <1>2, <2>1
  <2> QED
    BY <1>1, <2>1, <2>2 DEF Accounted
<1>7. CASE TakeItem
  <2>1. queue # <<>> /\ queue' = Tail(queue) /\ UNCHANGED <<closed, record>> /\ phase["thread"] = "idle"
    BY <1>7 DEF TakeItem
  <2>2. \/ Head(queue) = Sentinel
        \/ item'["thread"] = Head(queue) /\ phase'["thread"] = "attempt"
    BY <1>1, <1>2, <1>7 DEF TakeItem, SetPhase, UploadType, Threads
  <2>3. ASSUME NEW c \in 1..closed, NEW i \in DOMAIN queue, queue[i] = c
        PROVE  \/ Head(queue) = c
               \/ \E j \in DOMAIN queue' : queue'[j] = c
    <3>1. CASE i = 1
      BY <1>2, <2>1, <2>3, <3>1
    <3>2. CASE i # 1
      <4>1. i - 1 \in DOMAIN queue' /\ queue'[i - 1] = c
        BY <1>2, <2>1, <2>3, <3>2
      <4> QED
        BY <4>1
    <3> QED
      BY <3>1, <3>2
  <2>4. \A c \in 1..closed : c # Sentinel
    BY <1>2 DEF Sentinel
  <2> QED
    BY <1>1, <2>1, <2>2, <2>3, <2>4 DEF Accounted
<1>8. ~ThreadStatementFails
  BY DEF ThreadStatementFails, FirstError
<1>9. CASE \/ BeginRun \/ StartThread \/ SetUploading \/ PreparationFails \/ ThreadStarts
           \/ ThreadInitializeFails \/ Join \/ Decide \/ CompleteRun \/ UploadManifest \/ DeliverRun
           \/ CleanUp \/ MainStatementFails \/ FailRun \/ FailRunFails
  <2>1. UNCHANGED <<closed, queue, record>>
    BY <1>9 DEF BeginRun, StartThread, SetUploading, PreparationFails, ThreadStarts,
       ThreadInitializeFails, Join, Decide, CompleteRun, UploadManifest, DeliverRun, CleanUp,
       MainStatementFails, FailRun, FailRunFails
  <2>2. phase'["thread"] = phase["thread"] /\ item'["thread"] = item["thread"]
    BY <1>2, <1>9 DEF BeginRun, StartThread, SetUploading, PreparationFails, ThreadStarts,
       ThreadInitializeFails, Join, Decide, CompleteRun, UploadManifest, StartUpload, DeliverRun,
       CleanUp, MainStatementFails, FailRun, FailRunFails, SetPhase, UploadType, Threads
  <2> QED
    BY <1>1, <2>1, <2>2 DEF Accounted
<1>10. CASE RegisterFile
  <2>1. item["main"] \notin Chunks
    BY <1>10, UploadIsExclusive DEF RegisterFile, Threads
  <2>2. /\ UNCHANGED <<closed, queue, item>>
        /\ phase'["thread"] = phase["thread"]
        /\ \A c \in 1..closed : record'[c] = record[c]
    BY <1>2, <1>10, <2>1 DEF RegisterFile, SetRecord, SetPhase, UploadType, FilesType, Threads,
       Chunks, Artifacts
  <2> QED
    BY <1>1, <2>2 DEF Accounted
<1> QED
  BY <1>3, <1>4, <1>5, <1>6, <1>7, <1>8, <1>9, <1>10
  DEF Next, MainStep, ThreadStep, Failure, Threads

\* A thread that died stays dead.
LEMMA DeadStays ==
  ASSUME Turns, thread = "dead", Next
  PROVE  thread' = "dead"
<1>1. ASSUME NEW u \in Threads,
             UploadStep(u) \/ PutUnanswered(u) \/ PutRefused(u) \/ UnlinkFails(u)
      PROVE  UNCHANGED thread
  BY <1>1 DEF UploadStep, MarkAttempt, PutConfirmed, PutConflict, MarkUploaded, Unlink,
     MarkCleanup, MarkRejected, PutUnanswered, PutRefused, UnlinkFails
<1>2. ThreadInitializeFails \/ ThreadStatementFails => thread' = "dead"
  BY DEF ThreadInitializeFails, ThreadStatementFails
<1>3. ~StartThread /\ ~ThreadStarts /\ ~TakeItem
  BY DEF StartThread, ThreadStarts, TakeItem, Turns
<1>4. CASE \/ BeginRun \/ SetUploading \/ PreparationFails \/ CloseChunk \/ DiskPressure
           \/ ScanFails \/ ScanCancelled \/ ScanEnds \/ Join \/ Decide \/ RegisterFile
           \/ CompleteRun \/ UploadManifest \/ DeliverRun \/ CleanUp \/ MainStatementFails
           \/ FailRun \/ FailRunFails
  BY <1>4 DEF BeginRun, SetUploading, PreparationFails, CloseChunk, DiskPressure, ScanFails,
     ScanCancelled, ScanEnds, Join, Decide, RegisterFile, CompleteRun, UploadManifest, DeliverRun,
     CleanUp, MainStatementFails, FailRun, FailRunFails
<1> QED
  BY <1>1, <1>2, <1>3, <1>4 DEF Next, MainStep, ThreadStep, Failure, Threads

\* When main decides, the queue has been read to its end marker.
LEMMA AllConfirmed ==
  ASSUME TypeOK, Turns, InOrder, Accounted, Committed, thread # "dead",
         main = "decide", fatal = "none"
  PROVE  \A c \in Chunks : record[c] = "UPLOADED"
<1>1. thread = "ended"
  BY DEF Turns, Scanning
<1>2. queue = <<>> /\ phase["thread"] = "idle"
  BY <1>1 DEF InOrder, Turns
<1>3. closed = NumChunks
  BY DEF Committed
<1> QED
  BY <1>2, <1>3 DEF Accounted, Chunks

\* A step of the main thread's own upload.
LEMMA CommittedMainUpload ==
  ASSUME TypeOK, Turns, Confirmed, Committed, phase["main"] # "idle", UNCHANGED fatal,
         \/ UNCHANGED record
         \/ \E s : record' = [record EXCEPT ![item["main"]] = s],
         \/ UNCHANGED main
         \/ main' = "failing"
         \/ /\ main' = IF main = "schema" THEN "complete" ELSE "deliver"
            /\ record[item["main"]] = "UPLOADED"
            /\ UNCHANGED record
  PROVE  Committed'
<1>1. \/ main = "schema" /\ item["main"] = SchemaFile
      \/ main = "manifest" /\ item["main"] = ManifestFile
  BY DEF Turns
<1>2. fatal = "none" /\ \A c \in Chunks : record[c] = "UPLOADED"
  BY <1>1 DEF Committed, Committing
<1>3. \A c \in Chunks : c \in Artifacts /\ c # SchemaFile /\ c # ManifestFile
  BY DEF Chunks, Artifacts, SchemaFile, ManifestFile
<1>4. SchemaFile \in Artifacts /\ ManifestFile \in Artifacts /\ SchemaFile # ManifestFile
  BY DEF Artifacts, SchemaFile, ManifestFile
<1>5. FilesType
  BY DEF TypeOK
<1>6. \A c \in Chunks : record'[c] = "UPLOADED"
  BY <1>1, <1>2, <1>3, <1>5 DEF FilesType
<1>7. main = "manifest" => record[SchemaFile] = "UPLOADED"
  BY DEF Committed, Committing
<1>8. main = "manifest" => record'[SchemaFile] = "UPLOADED"
  BY <1>1, <1>4, <1>5, <1>7 DEF FilesType
<1>9. CASE UNCHANGED main
  BY <1>1, <1>2, <1>6, <1>8, <1>9 DEF Committed, Committing
<1>10. CASE main' = "failing"
  BY <1>10 DEF Committed, Committing
<1>11. CASE /\ main' = IF main = "schema" THEN "complete" ELSE "deliver"
            /\ record[item["main"]] = "UPLOADED"
            /\ UNCHANGED record
  BY <1>1, <1>2, <1>7, <1>11 DEF Committed, Committing
<1> QED
  BY <1>9, <1>10, <1>11

\* An upload keeps what a commit relies on.
LEMMA CommittedUploadStep ==
  ASSUME TypeOK, Turns, Confirmed, Committed, NEW u \in Threads,
         UploadStep(u) \/ PutUnanswered(u) \/ PutRefused(u) \/ UnlinkFails(u)
  PROVE  Committed'
<1>1. phase[u] # "idle"
  BY DEF UploadStep, MarkAttempt, PutConfirmed, PutConflict, MarkUploaded, Unlink, MarkCleanup,
     MarkRejected, PutUnanswered, PutRefused, UnlinkFails
<1>2. CASE u = "thread"
  <2>1. main \in Scanning \cup {"join", "raised"}
    BY <1>1, <1>2, UploadFacts
  <2>2. UNCHANGED <<main, closed>>
    BY <1>2 DEF UploadStep, MarkAttempt, PutConfirmed, PutConflict, MarkUploaded, Unlink,
       MarkCleanup, MarkRejected, UploadDone, PutUnanswered, PutRefused, UnlinkFails
  <2>3. fatal' = "none" => fatal = "none"
    BY DEF UploadStep, MarkAttempt, PutConfirmed, PutConflict, MarkUploaded, Unlink,
       MarkCleanup, MarkRejected, FirstError, PutUnanswered, PutRefused, UnlinkFails
  <2> QED
    BY <2>1, <2>2, <2>3 DEF Committed, Committing, Scanning
<1>3. CASE u = "main"
  <2>1. UNCHANGED fatal
    BY <1>3 DEF UploadStep, MarkAttempt, PutConfirmed, PutConflict, MarkUploaded, Unlink,
       MarkCleanup, MarkRejected, PutUnanswered, PutRefused, UnlinkFails
  <2>2. CASE Unlink(u) \/ MarkCleanup(u)
    <3>1. record[item["main"]] = "UPLOADED"
      BY <1>3, <2>2 DEF Unlink, MarkCleanup, Confirmed, Threads
    <3>2. /\ main' = IF main = "schema" THEN "complete" ELSE "deliver"
          /\ UNCHANGED record
      BY <1>3, <2>2 DEF Unlink, MarkCleanup, UploadDone
    <3> QED
      BY <1>1, <1>3, <2>1, <3>1, <3>2, CommittedMainUpload
  <2>3. CASE MarkRejected(u)
    <3>1. main' = "failing" /\ \E s : record' = [record EXCEPT ![item["main"]] = s]
      BY <1>3, <2>3 DEF MarkRejected, SetRecord
    <3> QED
      BY <1>1, <1>3, <2>1, <3>1, CommittedMainUpload
  <2>4. CASE \/ MarkAttempt(u) \/ PutConfirmed(u) \/ PutConflict(u) \/ MarkUploaded(u)
             \/ PutUnanswered(u) \/ PutRefused(u) \/ UnlinkFails(u)
    <3>1. UNCHANGED main
      BY <2>4 DEF MarkAttempt, PutConfirmed, PutConflict, MarkUploaded, PutUnanswered, PutRefused,
         UnlinkFails
    <3>2. UNCHANGED record \/ \E s : record' = [record EXCEPT ![item["main"]] = s]
      BY <1>3, <2>4 DEF MarkAttempt, PutConfirmed, PutConflict, MarkUploaded, PutUnanswered,
         PutRefused, UnlinkFails, SetRecord
    <3> QED
      BY <1>1, <1>3, <2>1, <3>1, <3>2, CommittedMainUpload
  <2> QED
    BY <2>2, <2>3, <2>4 DEF UploadStep
<1> QED
  BY <1>2, <1>3 DEF Threads

\* The main thread gets past check_fatal only with every chunk confirmed, and to the end
\* only with every file.
LEMMA CommittedNext ==
  ASSUME TypeOK, Turns, InOrder, Confirmed, Accounted, Committed, thread # "dead", Next
  PROVE  Committed'
<1>1. CASE \E u \in Threads : \/ UploadStep(u) \/ PutUnanswered(u) \/ PutRefused(u)
                              \/ UnlinkFails(u)
  BY <1>1, CommittedUploadStep
<1>2. CASE \/ BeginRun \/ StartThread \/ SetUploading \/ PreparationFails \/ MainStatementFails
           \/ FailRun \/ FailRunFails
  BY <1>2 DEF BeginRun, StartThread, SetUploading, PreparationFails, MainStatementFails, FailRun,
     FailRunFails, Committed, Committing
<1>3. CASE CloseChunk \/ DiskPressure \/ ScanFails \/ ScanCancelled \/ ScanEnds
  <2>1. main = "scan" /\ main' \in {"scan", "join"}
    BY <1>3 DEF CloseChunk, DiskPressure, ScanFails, ScanCancelled, ScanEnds
  <2>2. main' = "join" => fatal' # "none" \/ closed' = NumChunks
    BY <1>3 DEF CloseChunk, DiskPressure, ScanFails, ScanCancelled, ScanEnds, FirstError
  <2> QED
    BY <2>1, <2>2 DEF Committed, Committing
<1>4. CASE ThreadStarts \/ TakeItem
  <2>1. UNCHANGED <<main, closed, fatal, record>>
    BY <1>4 DEF ThreadStarts, TakeItem
  <2> QED
    BY <2>1 DEF Committed
<1>5. CASE ThreadInitializeFails \/ ThreadStatementFails
  <2>1. UNCHANGED <<main, closed>> /\ (fatal' = "none" => fatal = "none")
    BY <1>5 DEF ThreadInitializeFails, ThreadStatementFails, FirstError
  <2>2. thread \in {"initialize", "loop"}
    BY <1>5 DEF ThreadInitializeFails, ThreadStatementFails, ThreadStatements, Turns
  <2>3. main \notin Committing
    BY <2>2 DEF Turns, Committing, Scanning
  <2> QED
    BY <2>1, <2>3 DEF Committed, Committing
<1>6. CASE Join
  BY <1>6 DEF Join, Committed, Committing
<1>7. CASE Decide
  <2>1. UNCHANGED <<closed, fatal, record>>
    BY <1>7 DEF Decide
  <2>2. CASE main' = "failing"
    BY <2>2 DEF Committed, Committing
  <2>3. CASE fatal = "none" /\ main' = "schema"
    BY <1>7, <2>1, <2>3, AllConfirmed DEF Decide, Committed, Committing
  <2> QED
    BY <1>7, <2>2, <2>3 DEF Decide, MayCommit
<1>8. CASE RegisterFile
  <2>1. UNCHANGED <<main, fatal>> /\ phase["main"] # "idle"
        /\ \E s : record' = [record EXCEPT ![item["main"]] = s]
    BY <1>8 DEF RegisterFile, SetRecord
  <2> QED
    BY <2>1, CommittedMainUpload
<1>9. CASE CompleteRun \/ UploadManifest \/ DeliverRun \/ CleanUp
  <2>1. UNCHANGED <<fatal, record>>
    BY <1>9 DEF CompleteRun, UploadManifest, DeliverRun, CleanUp
  <2>2. \/ main = "complete" /\ main' = "finalizing"
        \/ main = "finalizing" /\ main' = "manifest"
        \/ main = "deliver" /\ main' = "cleanup"
        \/ main = "cleanup" /\ main' = "delivered"
    BY <1>9 DEF CompleteRun, UploadManifest, DeliverRun, CleanUp
  <2> QED
    BY <2>1, <2>2 DEF Committed, Committing
<1> QED
  BY <1>1, <1>2, <1>3, <1>4, <1>5, <1>6, <1>7, <1>8, <1>9
  DEF Next, MainStep, ThreadStep, Failure, Threads

\* A file arrives by a PUT of a thread that uploads it.
LEMMA RemoteSteps ==
  ASSUME Next
  PROVE  \/ UNCHANGED remote
         \/ \E u \in Threads : /\ phase[u] = "put"
                              /\ remote' = remote \cup {item[u]}
                              /\ UNCHANGED <<main, run>>
<1>1. ASSUME NEW u \in Threads,
             UploadStep(u) \/ PutUnanswered(u) \/ PutRefused(u) \/ UnlinkFails(u)
      PROVE  \/ UNCHANGED remote
             \/ /\ phase[u] = "put"
                /\ remote' = remote \cup {item[u]}
                /\ UNCHANGED <<main, run>>
  BY <1>1 DEF UploadStep, MarkAttempt, PutConfirmed, PutConflict, MarkUploaded, Unlink,
     MarkCleanup, MarkRejected, PutUnanswered, PutRefused, UnlinkFails
<1>2. CASE \/ BeginRun \/ StartThread \/ SetUploading \/ PreparationFails \/ CloseChunk
           \/ DiskPressure \/ ScanFails \/ ScanCancelled \/ ScanEnds \/ ThreadStatementFails
           \/ ThreadStarts \/ ThreadInitializeFails \/ TakeItem \/ Join \/ Decide \/ RegisterFile
           \/ CompleteRun \/ UploadManifest \/ DeliverRun \/ CleanUp \/ MainStatementFails
           \/ FailRun \/ FailRunFails
  BY <1>2 DEF BeginRun, StartThread, SetUploading, PreparationFails, CloseChunk, DiskPressure,
     ScanFails, ScanCancelled, ScanEnds, ThreadStatementFails, ThreadStarts, ThreadInitializeFails,
     TakeItem, Join, Decide, RegisterFile, CompleteRun, UploadManifest, DeliverRun, CleanUp,
     MainStatementFails, FailRun, FailRunFails
<1> QED
  BY <1>1, <1>2 DEF Next, MainStep, ThreadStep, Failure, Threads

\* The manifest is sent when every other file is there.
LEMMA ManifestSent ==
  ASSUME TypeOK, Turns, Confirmed, Committed, NEW u \in Threads, phase[u] = "put",
         item[u] = ManifestFile
  PROVE  remote \cup {ManifestFile} = Artifacts
<1>1. u = "main"
  BY UploadIsExclusive, UploadFacts DEF Threads, Chunks, ManifestFile
<1>2. main = "manifest"
  <2>1. SchemaFile # ManifestFile
    BY DEF SchemaFile, ManifestFile
  <2> QED
    BY <1>1, <2>1 DEF Turns
<1>3. record[SchemaFile] = "UPLOADED" /\ \A c \in Chunks : record[c] = "UPLOADED"
  BY <1>2 DEF Committed, Committing
<1>4. Artifacts = Chunks \cup {SchemaFile, ManifestFile}
  BY DEF Artifacts, Chunks, SchemaFile, ManifestFile
<1>5. SchemaFile \in remote /\ \A c \in Chunks : c \in remote
  BY <1>3, <1>4 DEF Confirmed
<1> QED
  BY <1>4, <1>5 DEF TypeOK, FilesType

\* The manifest reaches the relay after every other file.
LEMMA ManifestIsLastNext ==
  ASSUME TypeOK, Turns, Confirmed, Committed, ManifestIsLast, Next
  PROVE  ManifestIsLast'
<1>1. CASE UNCHANGED remote
  BY <1>1 DEF ManifestIsLast
<1>2. ASSUME NEW u \in Threads, phase[u] = "put", remote' = remote \cup {item[u]}
      PROVE  ManifestIsLast'
  <2>1. item[u] \in Artifacts
    BY <1>2, UploadFacts
  <2>2. CASE item[u] = ManifestFile
    BY <1>2, <2>2, ManifestSent DEF ManifestIsLast
  <2>3. CASE item[u] # ManifestFile
    BY <1>2, <2>1, <2>3 DEF ManifestIsLast
  <2> QED
    BY <2>2, <2>3
<1> QED
  BY <1>1, <1>2, RemoteSteps

\* run changes in the main thread's steps outside uploads.
LEMMA RunSteps ==
  ASSUME Next, run' # run
  PROVE  \/ BeginRun \/ SetUploading \/ Decide \/ CompleteRun \/ UploadManifest
         \/ DeliverRun \/ FailRun
<1>1. ASSUME NEW u \in Threads,
             UploadStep(u) \/ PutUnanswered(u) \/ PutRefused(u) \/ UnlinkFails(u)
      PROVE  FALSE
  BY <1>1 DEF UploadStep, MarkAttempt, PutConfirmed, PutConflict, MarkUploaded, Unlink,
     MarkCleanup, MarkRejected, PutUnanswered, PutRefused, UnlinkFails
<1>2. CASE \/ StartThread \/ PreparationFails \/ CloseChunk
           \/ DiskPressure \/ ScanFails \/ ScanCancelled \/ ScanEnds \/ ThreadStatementFails
           \/ ThreadStarts \/ ThreadInitializeFails \/ TakeItem \/ Join \/ RegisterFile
           \/ CleanUp \/ MainStatementFails \/ FailRunFails
  BY <1>2 DEF StartThread, PreparationFails, CloseChunk,
     DiskPressure, ScanFails, ScanCancelled, ScanEnds, ThreadStatementFails, ThreadStarts,
     ThreadInitializeFails, TakeItem, Join, RegisterFile, CleanUp, MainStatementFails, FailRunFails
<1> QED
  BY <1>1, <1>2 DEF Next, MainStep, ThreadStep, Failure, Threads

\* DeliverRun alone makes a run DELIVERED.
LEMMA RunDelivered ==
  ASSUME Next, run' = "DELIVERED", run # "DELIVERED"
  PROVE  DeliverRun
BY RunSteps DEF BeginRun, SetUploading, Decide, CompleteRun, UploadManifest, FailRun

\* A run becomes DELIVERED only with every file confirmed.
LEMMA DeliveredIsConfirmedNext ==
  ASSUME TypeOK, Turns, Committed, DeliveredIsConfirmed, thread # "dead", Next
  PROVE  DeliveredIsConfirmed'
<1>1. CASE run = "DELIVERED"
  <2>1. \A u \in Threads : phase[u] = "idle"
    BY <1>1, UploadFacts DEF Over, Threads
  <2>2. main # "scan"
    BY <1>1 DEF Turns, Over, Ended
  <2>3. UNCHANGED record
    BY <2>1, <2>2, RecordSteps
  <2> QED
    BY <1>1, <2>3 DEF DeliveredIsConfirmed
<1>2. CASE DeliverRun
  <2>1. Artifacts = Chunks \cup {SchemaFile, ManifestFile}
    BY DEF Artifacts, Chunks, SchemaFile, ManifestFile
  <2>2. main = "deliver" /\ UNCHANGED record
    BY <1>2 DEF DeliverRun
  <2>3. \A a \in Artifacts : record[a] = "UPLOADED"
    BY <2>1, <2>2 DEF Committed, Committing
  <2> QED
    BY <2>2, <2>3 DEF DeliveredIsConfirmed
<1>3. CASE run' # "DELIVERED"
  BY <1>3 DEF DeliveredIsConfirmed
<1> QED
  BY <1>1, <1>2, <1>3, RunDelivered

\* A run that has failed is not failed again.
LEMMA FailsOnceNext ==
  ASSUME TypeOK, Turns, FailsOnce, Next
  PROVE  FailsOnce'
<1> SUFFICES ASSUME main' = "failing"
             PROVE  run' \notin {"FAILED", "DISK_PRESSURE"}
  BY DEF FailsOnce
<1>1. main \notin Ended \cup {"failing"} => run \notin {"FAILED", "DISK_PRESSURE"}
  BY DEF Turns, Over, Ended
<1>2. CASE run' # run
  BY <1>1, <1>2, RunSteps DEF BeginRun, SetUploading, Decide, CompleteRun, UploadManifest,
     DeliverRun, FailRun
<1>3. CASE main = "failing" /\ UNCHANGED run
  BY <1>3 DEF FailsOnce
<1>4. CASE main # "failing" /\ UNCHANGED run
  <2>1. ASSUME NEW u \in Threads,
               UploadStep(u) \/ PutUnanswered(u) \/ PutRefused(u) \/ UnlinkFails(u)
        PROVE  run \notin {"FAILED", "DISK_PRESSURE"}
    BY <2>1, UploadFacts DEF Over, UploadStep, MarkAttempt, PutConfirmed, PutConflict, MarkUploaded, Unlink,
       MarkCleanup, MarkRejected, PutUnanswered, PutRefused, UnlinkFails, Threads
  <2>2. CASE Decide
    BY <1>1, <2>2 DEF Decide, Ended
  <2>3. CASE MainStatementFails
    <3>1. main \in {"decide", "schema", "manifest", "complete", "finalizing", "deliver",
                 "cleanup"}
      BY <2>3 DEF MainStatementFails, MainStatements, Turns, TypeOK, ControlType, MainPoints, Ended
    <3> QED
      BY <1>1, <1>4, <3>1 DEF Ended
  <2>4. CASE \/ BeginRun \/ StartThread \/ SetUploading \/ PreparationFails \/ CloseChunk
             \/ DiskPressure \/ ScanFails \/ ScanCancelled \/ ScanEnds \/ ThreadStatementFails
             \/ ThreadStarts \/ ThreadInitializeFails \/ TakeItem \/ Join \/ RegisterFile
             \/ CompleteRun \/ UploadManifest \/ DeliverRun \/ CleanUp \/ FailRun \/ FailRunFails
    BY <1>4, <2>4 DEF BeginRun, StartThread, SetUploading, PreparationFails, CloseChunk,
       DiskPressure, ScanFails, ScanCancelled, ScanEnds, ThreadStatementFails, ThreadStarts,
       ThreadInitializeFails, TakeItem, Join, RegisterFile, CompleteRun, UploadManifest,
       DeliverRun, CleanUp, FailRun, FailRunFails
  <2> QED
    BY <1>4, <2>1, <2>2, <2>3, <2>4 DEF Next, MainStep, ThreadStep, Failure, Threads
<1> QED
  BY <1>2, <1>3, <1>4

-----------------------------------------------------------------------------
(* The invariant and what follows from it                                    *)

\* The inductive invariant holds initially.
LEMMA InvariantInit == Init => InductiveInvariant
BY TypeInit, TurnsInit, InOrderInit, ConfirmedInit, CountedInit, CommitInit
DEF InductiveInvariant, FailsOnce, Init

\* Every step keeps the inductive invariant.
LEMMA InvariantNext ==
  ASSUME InductiveInvariant, [Next]_vars
  PROVE  InductiveInvariant'
<1>1. CASE Next
  <2>1. TypeOK' /\ Turns' /\ InOrder' /\ Confirmed' /\ Counted' /\ KeptUntilConfirmed'
        /\ FailsOnce'
    BY <1>1, TypeNext, TurnsNext, InOrderNext, ConfirmedNext, CountedNext, FailsOnceNext
    DEF InductiveInvariant
  <2>2. ASSUME thread' # "dead"
        PROVE  Accounted' /\ Committed' /\ ManifestIsLast' /\ DeliveredIsConfirmed'
    <3>1. TypeOK /\ Turns /\ InOrder /\ Confirmed /\ DeliveredIsConfirmed
      BY DEF InductiveInvariant
    <3>2. thread # "dead"
      BY <1>1, <2>2, <3>1, DeadStays
    <3>3. Accounted /\ Committed /\ ManifestIsLast
      BY <3>2 DEF InductiveInvariant, CommittedIsComplete
    <3> QED
      BY <1>1, <2>2, <3>1, <3>2, <3>3, AccountedNext, CommittedNext, ManifestIsLastNext,
         DeliveredIsConfirmedNext
  <2> QED
    BY <2>1, <2>2 DEF InductiveInvariant, CommittedIsComplete, DeliveredIsConfirmed
<1>2. CASE UNCHANGED vars
  BY <1>2 DEF vars, InductiveInvariant, TypeOK, ControlType, UploadType, FilesType, Turns, InOrder,
     Confirmed, Counted, KeptUntilConfirmed, FailsOnce, Accounted, Committed,
     CommittedIsComplete, ManifestIsLast, DeliveredIsConfirmed
<1> QED
  BY <1>1, <1>2

\* The inductive invariant of sync() and its upload thread, for any number of
\* chunks, attempts and faults.
THEOREM Invariance == Spec => []InductiveInvariant
BY InvariantInit, InvariantNext, PTL DEF Spec

\* Types; the pending account in particular never becomes negative.
THEOREM TypeCorrect == Spec => []TypeOK
<1>1. InductiveInvariant => TypeOK
  BY DEF InductiveInvariant
<1> QED
  BY <1>1, Invariance, PTL

\* Nothing unconfirmed is ever deleted (RelayUploader.upload, _cleanup_delivered_run).
THEOREM UnconfirmedIsKept == Spec => []KeptUntilConfirmed
<1>1. InductiveInvariant => KeptUntilConfirmed
  BY DEF InductiveInvariant
<1> QED
  BY <1>1, Invariance, PTL

\* The main thread uploads only when the upload thread is gone.
THEOREM OnePut == Spec => []OnePutAtATime
<1>1. InductiveInvariant => OnePutAtATime
  BY UploadIsExclusive DEF InductiveInvariant, OnePutAtATime, Threads
<1> QED
  BY <1>1, Invariance, PTL

\* The backlog limit of on_chunk_closed bounds the chunk files on disk.
THEOREM SpoolBound == Spec => []SpoolIsBounded
<1>1. ASSUME InductiveInvariant
      PROVE  SpoolIsBounded
  <2>1. /\ TypeOK /\ Counted /\ closed \in 0..NumChunks /\ pending \in Nat
        /\ pending <= MaxPending + 1
    BY <1>1 DEF InductiveInvariant, TypeOK, ControlType, Counted
  <2>2. /\ IsFiniteSet(spool \cap 1..closed)
        /\ Cardinality(spool \cap 1..closed) \in Nat
    BY <2>1, PresentIsFinite
  <2>3. Cardinality(spool \cap 1..closed) <= pending
    BY <2>1, <2>2 DEF Counted
  <2>4. CASE closed + 1 \in spool \cap Chunks
    <3>1. spool \cap Chunks = (spool \cap 1..closed) \cup {closed + 1}
      BY <2>1, <2>4 DEF Counted, Chunks
    <3>2. Cardinality(spool \cap Chunks) = Cardinality(spool \cap 1..closed) + 1
      <4>1. closed + 1 \notin spool \cap 1..closed
        BY <2>1
      <4> QED
        BY <2>2, <3>1, <4>1, FS_AddElement
    <3>3. pending <= MaxPending
      BY <2>1, <2>4 DEF Counted
    <3> QED
      BY <2>1, <2>2, <2>3, <3>2, <3>3 DEF SpoolIsBounded
  <2>5. CASE closed + 1 \notin spool \cap Chunks
    <3>1. spool \cap Chunks = spool \cap 1..closed
      BY <2>1, <2>5 DEF Counted, Chunks
    <3> QED
      BY <2>1, <2>2, <2>3, <3>1 DEF SpoolIsBounded
  <2> QED
    BY <2>4, <2>5
<1> QED
  BY <1>1, Invariance, PTL

\* The manifest makes a run visible to the destination only when it is complete,
\* for as long as the upload thread has not died outside its error handling.
THEOREM ManifestComesLast == Spec => []CommittedIsComplete
<1>1. InductiveInvariant => CommittedIsComplete
  BY DEF InductiveInvariant
<1> QED
  BY <1>1, Invariance, PTL

\* sync() reports only what was confirmed as delivered.
THEOREM DeliveredWasConfirmed == Spec => []DeliveredIsConfirmed
<1>1. InductiveInvariant => DeliveredIsConfirmed
  BY DEF InductiveInvariant
<1> QED
  BY <1>1, Invariance, PTL

-----------------------------------------------------------------------------
(* Refinement                                                                *)

\* Every step maps to a step of SnapshotTransfer, or to a stutter.
LEMMA TransferStep ==
  ASSUME InductiveInvariant, [Next]_vars, thread' # "dead"
  PROVE  [Transfer!TransferNext]_<<remote, Outcome>>
<1>1. /\ TypeOK /\ Turns /\ Confirmed /\ FailsOnce /\ Committed /\ ManifestIsLast
      /\ remote \subseteq Artifacts /\ thread # "dead"
  <2>1. thread # "dead"
    BY DeadStays DEF InductiveInvariant, vars
  <2> QED
    BY <2>1 DEF InductiveInvariant, CommittedIsComplete, TypeOK, FilesType
<1>2. run \notin Over <=> Outcome = "open"
  BY <1>1 DEF Over, Outcome
<1>3. CASE UNCHANGED vars
  BY <1>3 DEF vars, Outcome
<1>4. ASSUME Next, NEW u \in Threads, phase[u] = "put", remote' = remote \cup {item[u]},
             UNCHANGED run
      PROVE  Transfer!TransferNext \/ UNCHANGED <<remote, Outcome>>
  <2>1. item[u] \in Artifacts /\ Outcome = "open" /\ Outcome' = Outcome
    BY <1>1, <1>2, <1>4, UploadFacts DEF Threads, Over, Outcome
  <2>2. CASE item[u] # ManifestFile
    BY <1>4, <2>1, <2>2 DEF Transfer!TransferNext, Transfer!Arrive
  <2>3. CASE item[u] = ManifestFile /\ ManifestFile \notin remote
    <3>1. remote \cup {ManifestFile} = Artifacts
      BY <1>1, <1>4, <2>3, ManifestSent
    <3>2. remote = Artifacts \ {ManifestFile} /\ remote' = Artifacts
      BY <1>4, <2>3, <3>1
    <3> QED
      BY <2>1, <3>2 DEF Transfer!TransferNext, Transfer!Commit
  <2>4. CASE ManifestFile \in remote /\ item[u] = ManifestFile
    BY <1>4, <2>1, <2>4
  <2> QED
    BY <2>2, <2>3, <2>4
<1>5. ASSUME Next, UNCHANGED remote, run' # run
      PROVE  Transfer!TransferNext \/ UNCHANGED <<remote, Outcome>>
  <2>1. CASE BeginRun \/ SetUploading \/ Decide \/ CompleteRun \/ UploadManifest
    <3>1. run \notin Over /\ run' \notin Over
      BY <1>1, <1>5, <2>1 DEF BeginRun, SetUploading, Decide, CompleteRun, UploadManifest, Turns, Over,
         Ended
    <3> QED
      BY <1>1, <1>5, <3>1 DEF Outcome, Over
  <2>2. CASE DeliverRun
    <3>1. run \notin Over /\ run' = "DELIVERED" /\ main = "deliver"
      BY <1>1, <2>2 DEF DeliverRun, Turns, Ended
    <3>2. \A a \in Artifacts : record[a] = "UPLOADED"
      BY <1>1, <3>1 DEF Committed, Committing, Artifacts, Chunks, SchemaFile, ManifestFile
    <3>3. remote = Artifacts
      BY <1>1, <3>2 DEF Confirmed
    <3> QED
      BY <1>1, <1>2, <1>5, <3>1, <3>3 DEF Outcome, Transfer!TransferNext, Transfer!Succeed
  <2>3. CASE FailRun
    <3>1. run \notin {"FAILED", "DISK_PRESSURE"} /\ run' \in {"FAILED", "DISK_PRESSURE"}
      BY <1>1, <2>3 DEF FailRun, FailsOnce
    <3>2. CASE run = "DELIVERED"
      BY <1>1, <1>5, <3>1, <3>2 DEF Outcome, Transfer!TransferNext, Transfer!Retract
    <3>3. CASE run # "DELIVERED"
      BY <1>1, <1>2, <1>5, <3>1, <3>3 DEF Over, Outcome, Transfer!TransferNext, Transfer!GiveUp
    <3> QED
      BY <3>2, <3>3
  <2> QED
    BY <1>5, <2>1, <2>2, <2>3, RunSteps
<1>6. CASE UNCHANGED <<remote, run>>
  BY <1>1, <1>6 DEF Outcome
<1> QED
  BY <1>3, <1>4, <1>5, <1>6, RemoteSteps

\* The step with which the thread dies, and whatever comes after it.
LEMMA BrokenStep ==
  ASSUME InductiveInvariant, [Next]_vars, thread' = "dead"
  PROVE  [Transfer!TransferNext]_<<remote, Outcome>>
<1>1. TypeOK /\ Turns /\ remote \subseteq Artifacts /\ Outcome' = "broken"
  BY DEF InductiveInvariant, TypeOK, FilesType, Outcome
<1>2. CASE UNCHANGED vars
  BY <1>2 DEF vars, Outcome
<1>3. CASE Next /\ thread = "dead"
  <2>1. Outcome = "broken"
    BY <1>3 DEF Outcome
  <2>2. remote \subseteq remote'
    BY <1>3, RemoteSteps
  <2>3. TypeOK'
    BY <1>3, TypeNext DEF InductiveInvariant
  <2>4. remote' \subseteq Artifacts
    BY <2>3 DEF TypeOK, FilesType
  <2> QED
    BY <1>1, <2>1, <2>2, <2>4 DEF Transfer!TransferNext, Transfer!Break
<1>4. CASE Next /\ thread # "dead"
  <2>1. ThreadInitializeFails \/ ThreadStatementFails
    <3>1. ASSUME NEW u \in Threads,
                 UploadStep(u) \/ PutUnanswered(u) \/ PutRefused(u) \/ UnlinkFails(u)
          PROVE  UNCHANGED thread
      BY <3>1 DEF UploadStep, MarkAttempt, PutConfirmed, PutConflict, MarkUploaded, Unlink,
         MarkCleanup, MarkRejected, PutUnanswered, PutRefused, UnlinkFails
    <3>2. CASE StartThread \/ ThreadStarts \/ TakeItem
      BY <1>4, <3>2 DEF StartThread, ThreadStarts, TakeItem
    <3>3. CASE \/ BeginRun \/ SetUploading \/ PreparationFails \/ CloseChunk \/ DiskPressure
               \/ ScanFails \/ ScanCancelled \/ ScanEnds \/ Join \/ Decide \/ RegisterFile
               \/ CompleteRun \/ UploadManifest \/ DeliverRun \/ CleanUp \/ MainStatementFails
               \/ FailRun \/ FailRunFails
      BY <1>4, <3>3 DEF BeginRun, SetUploading, PreparationFails, CloseChunk, DiskPressure,
         ScanFails, ScanCancelled, ScanEnds, Join, Decide, RegisterFile, CompleteRun,
         UploadManifest, DeliverRun, CleanUp, MainStatementFails, FailRun, FailRunFails
    <3> QED
      BY <1>4, <3>1, <3>2, <3>3 DEF Next, MainStep, ThreadStep, Failure, Threads
  <2>2. UNCHANGED remote /\ Outcome # "broken"
    BY <1>4, <2>1 DEF ThreadInitializeFails, ThreadStatementFails, Outcome
  <2> QED
    BY <1>1, <2>2 DEF Transfer!TransferNext, Transfer!Break
<1> QED
  BY <1>2, <1>3, <1>4

\* What the relay gets from sync() is a transfer whose last file is the manifest,
\* whatever fails, unless the upload thread dies silently.
THEOREM Refinement == Spec => ImplementsTransfer
<1>1. Init => Transfer!TransferInit
  BY DEF Init, Transfer!TransferInit, Outcome
<1>2. InductiveInvariant /\ [Next]_vars => [Transfer!TransferNext]_<<remote, Outcome>>
  BY TransferStep, BrokenStep
<1> QED
  BY <1>1, <1>2, Invariance, PTL DEF Spec, ImplementsTransfer, Transfer!TransferSpec

-----------------------------------------------------------------------------
(* sync() ends: whatever it waits for comes, and every step brings the end   *)
(* nearer                                                                    *)

\* While the main thread waits for the upload thread, that thread is there and the end
\* marker is the last item it will take (the finally clause of sync(), thread.join()).
JoinIsServed ==
  main = "join" => \/ thread \in {"ended", "dead"}
                   \/ /\ thread \in {"initialize", "loop"}
                      /\ queue # <<>>
                      /\ queue[Len(queue)] = Sentinel

ServedInv ==
  /\ main \in {"set_uploading", "scan"} => thread # "none"
  /\ JoinIsServed

\* A queue that ends in the marker does so when its head is taken, unless the head is
\* the marker.
LEMMA MarkerStays ==
  ASSUME NEW T, NEW q \in Seq(T), q # <<>>, q[Len(q)] = Sentinel, Head(q) # Sentinel
  PROVE  Tail(q) # <<>> /\ Tail(q)[Len(Tail(q))] = Sentinel
<1>1. Len(q) \in Nat /\ Len(q) >= 1 /\ Head(q) = q[1]
  OBVIOUS
<1>2. Len(q) # 1
  BY <1>1
<1>3. Len(Tail(q)) = Len(q) - 1 /\ \A i \in 1..(Len(q) - 1) : Tail(q)[i] = q[i + 1]
  BY <1>1
<1>4. Len(q) - 1 \in 1..(Len(q) - 1)
  BY <1>1, <1>2
<1>5. Tail(q)[Len(q) - 1] = q[Len(q)]
  BY <1>3, <1>4, <1>1
<1> QED
  BY <1>1, <1>2, <1>3, <1>5

\* The end marker comes with the end of the scan and stays until it is taken.
LEMMA ServedNext ==
  ASSUME TypeOK, Turns, ServedInv, Next
  PROVE  ServedInv'
<1> USE DEF ServedInv, JoinIsServed
<1> /\ ControlType
    /\ queue \in Seq(Chunks \cup {Sentinel})
  BY DEF TypeOK
<1>1. ASSUME NEW u \in Threads,
             UploadStep(u) \/ PutUnanswered(u) \/ PutRefused(u) \/ UnlinkFails(u)
      PROVE  ServedInv'
  <2>1. queue' = queue /\ thread' = thread
    BY <1>1 DEF UploadStep, MarkAttempt, PutConfirmed, PutConflict, MarkUploaded, Unlink, MarkCleanup,
       MarkRejected, PutUnanswered, PutRefused, UnlinkFails
  <2>2. main' = main \/ main' \in {"complete", "deliver", "failing"}
    BY <1>1 DEF UploadStep, MarkAttempt, PutConfirmed, PutConflict, MarkUploaded, Unlink, MarkCleanup,
       MarkRejected, PutUnanswered, PutRefused, UnlinkFails, UploadDone
  <2> QED
    BY <2>1, <2>2
<1>2. CASE BeginRun \/ StartThread \/ SetUploading \/ PreparationFails
  BY <1>2 DEF BeginRun, StartThread, SetUploading, PreparationFails
<1>3. ASSUME main = "scan", main' = "join", thread' = thread, queue' = Append(queue, Sentinel)
      PROVE  ServedInv'
  <2>1. queue' # <<>> /\ queue'[Len(queue')] = Sentinel
    BY <1>3
  <2>2. thread \in {"initialize", "loop", "ended", "dead"}
    BY <1>3 DEF ControlType
  <2> QED
    BY <1>3, <2>1, <2>2
<1>4. CASE CloseChunk
  <2>1. CASE main' = main
    BY <1>4, <2>1 DEF CloseChunk
  <2>2. CASE main' = "join"
    BY <1>3, <1>4, <2>2 DEF CloseChunk, StopThread
  <2> QED
    BY <1>4, <2>1, <2>2 DEF CloseChunk
<1>5. CASE DiskPressure \/ ScanFails \/ ScanCancelled \/ ScanEnds
  BY <1>3, <1>5 DEF DiskPressure, ScanFails, ScanCancelled, ScanEnds, StopThread
<1>6. CASE ThreadStarts \/ ThreadInitializeFails \/ ThreadStatementFails
  BY <1>6 DEF ThreadStarts, ThreadInitializeFails, ThreadStatementFails
<1>7. CASE TakeItem
  <2>1. main' = main /\ thread' \in {thread, "ended"} /\ queue' = Tail(queue) /\ queue # <<>>
        /\ (thread' = thread => Head(queue) # Sentinel) /\ thread = "loop"
    BY <1>7 DEF TakeItem
  <2> QED
    BY <2>1, MarkerStays
<1>8. CASE \/ Join \/ Decide \/ RegisterFile \/ CompleteRun \/ UploadManifest \/ DeliverRun
           \/ CleanUp \/ FailRun \/ FailRunFails \/ MainStatementFails
  <2>1. queue' = queue /\ thread' = thread
    BY <1>8 DEF Join, Decide, RegisterFile, CompleteRun, UploadManifest, DeliverRun, CleanUp, FailRun,
       FailRunFails, MainStatementFails
  <2>2. main' = main \/ main' \notin {"set_uploading", "scan", "join"}
    BY <1>8 DEF Join, Decide, RegisterFile, CompleteRun, UploadManifest, DeliverRun, CleanUp, FailRun,
       FailRunFails, MainStatementFails
  <2> QED
    BY <2>1, <2>2
<1> QED
  BY <1>1, <1>2, <1>4, <1>5, <1>6, <1>7, <1>8 DEF Next, MainStep, ThreadStep, Failure, Threads

\* sync() never waits in vain for its upload thread: as long as the thread has not ended,
\* the end marker is in the queue behind everything else, whatever ended the scan.
THEOREM JoinServed == Spec => []JoinIsServed
<1>1. Init => ServedInv
  BY DEF Init, ServedInv, JoinIsServed
<1>2. InductiveInvariant /\ ServedInv /\ [Next]_vars => ServedInv'
  <2>1. ASSUME InductiveInvariant, ServedInv, UNCHANGED vars
        PROVE  ServedInv'
    BY <2>1 DEF ServedInv, JoinIsServed, vars
  <2> QED
    BY <2>1, ServedNext DEF InductiveInvariant
<1>3. ServedInv => JoinIsServed
  BY DEF ServedInv
<1> QED
  BY <1>1, <1>2, <1>3, Invariance, PTL DEF Spec

\* How far each point of sync() is from its end.
Place == [begin |-> 13, mkdir |-> 12, set_uploading |-> 11, scan |-> 10, join |-> 9, decide |-> 8,
          schema |-> 7, complete |-> 6, finalizing |-> 5, manifest |-> 4, deliver |-> 3,
          cleanup |-> 2, failing |-> 1, delivered |-> 0, failed |-> 0, raised |-> 0]
ThreadPlace == [none |-> 2, initialize |-> 2, loop |-> 1, ended |-> 0, dead |-> 0]

\* The steps left of an upload in its k-th attempt, should every attempt fail.
StepsLeft(p, k) ==
  CASE p = "register" -> 6 + 2 * MaxAttempts
    [] p = "attempt" -> 5 + 2 * (MaxAttempts - k)
    [] p = "put" -> 4 + 2 * (MaxAttempts - k)
    [] p = "confirmed" -> 3
    [] p = "unlink" -> 2
    [] p \in {"mark_cleanup", "unlink_failed", "rejected"} -> 1
    [] OTHER -> 0

\* A file that waits for its upload weighs more than any upload that has begun, and a
\* place of sync() or a chunk to come more than that.
Waiting == 7 + 2 * MaxAttempts
Weight == Waiting + 1

MainRank == Weight * Place[main]
ScanRank == Weight * (NumChunks - closed)
QueueRank == Waiting * Len(queue)
UploadRank == [u \in Threads |-> StepsLeft(phase[u], attempt[u])]

\* What is left to do for sync() and its upload thread.
Rank ==
  MainRank + ScanRank + QueueRank + ThreadPlace[thread] + UploadRank["main"] + UploadRank["thread"]

\* The weights are numbers.
LEMMA Weights == Waiting \in Nat /\ Weight \in Nat /\ Weight = Waiting + 1
BY DEF Waiting, Weight

\* What one more or less of them makes.
LEMMA Products ==
  /\ \A i \in Nat : Weight * i \in Nat
  /\ \A i, j \in Nat : i < j => Weight * i + Weight <= Weight * j
  /\ \A n \in Nat : Waiting * n \in Nat /\ Waiting * (n + 1) = Waiting * n + Waiting
<1>0. Waiting \in Nat /\ Weight \in Nat
  BY Weights
<1>1. \A a \in Nat : \A i, j \in Nat : i < j => a * i + a <= a * j
  <2> SUFFICES ASSUME NEW a \in Nat, NEW i \in Nat, NEW j \in Nat, i < j
               PROVE  a * i + a <= a * j
    OBVIOUS
  <2> DEFINE d == j - i - 1
  <2>1. d \in Nat /\ j = i + 1 + d
    OBVIOUS
  <2>2. a * i \in Nat /\ a * d \in Nat
    OBVIOUS
  <2>3. a * j = a * i + a + a * d
    BY <2>1
  <2> QED
    BY <2>2, <2>3
<1>2. \A a \in Nat : \A n \in Nat : a * n \in Nat /\ a * (n + 1) = a * n + a
  OBVIOUS
<1> QED
  BY <1>0, <1>1, <1>2

RankTypes ==
  /\ MainRank \in Nat /\ ScanRank \in Nat /\ QueueRank \in Nat
  /\ ThreadPlace[thread] \in Nat
  /\ \A u \in Threads : UploadRank[u] \in Nat /\ UploadRank[u] < Waiting
  /\ Place[main] \in Nat /\ NumChunks - closed \in Nat /\ Len(queue) \in Nat
  /\ Rank \in Nat

\* The rank is a natural number, and no upload is longer than the weights allow for.
LEMMA RankType == TypeOK => RankTypes
<1> SUFFICES ASSUME TypeOK PROVE RankTypes
  OBVIOUS
<1>1. Place[main] \in Nat /\ ThreadPlace[thread] \in Nat
  BY DEF TypeOK, ControlType, MainPoints, Ended, Place, ThreadPlace
<1>2. NumChunks - closed \in Nat /\ Len(queue) \in Nat
  BY DEF TypeOK, ControlType
<1>3. MainRank \in Nat /\ ScanRank \in Nat /\ QueueRank \in Nat
  BY <1>1, <1>2, Products DEF MainRank, ScanRank, QueueRank
<1>4. ASSUME NEW u \in Threads
      PROVE  UploadRank[u] \in Nat /\ UploadRank[u] < Waiting
  <2>1. phase[u] \in Phases /\ attempt[u] \in 0..MaxAttempts
    BY DEF TypeOK, UploadType
  <2> QED
    BY <2>1 DEF UploadRank, Threads, StepsLeft, Waiting
<1>5. "main" \in Threads /\ "thread" \in Threads
  BY DEF Threads
<1> QED
  BY <1>1, <1>2, <1>3, <1>4, <1>5, Weights, SMTT(30) DEF Rank, RankTypes

\* What a step adds to one part of the rank is less than what it takes from another.
LEMMA LessOfPlace ==
  ASSUME NEW a \in Nat, NEW b \in Nat, NEW c \in Nat, NEW d \in Nat, NEW e \in Nat, NEW f \in Nat,
         NEW a1 \in Nat, NEW b1 \in Nat, NEW d1 \in Nat, NEW e1 \in Nat,
         a1 + Weight <= a, b1 <= b, d1 <= d, e1 < Waiting
  PROVE  /\ a1 + b1 + c + d1 + e1 + f < a + b + c + d + e + f
         /\ a1 + b1 + (c + Waiting) + d1 + e + f < a + b + c + d + e + f
<1>1. PICK w \in Nat : w = Waiting /\ Weight = w + 1
  BY Weights
<1> QED
  BY <1>1

\* A chunk that is closed and queued brings the end nearer.
LEMMA LessOfChunks ==
  ASSUME NEW a \in Nat, NEW b \in Nat, NEW c \in Nat, NEW d \in Nat, NEW e \in Nat, NEW f \in Nat,
         NEW b1 \in Nat, b1 + Weight <= b
  PROVE  a + b1 + (c + Waiting) + d + e + f < a + b + c + d + e + f
<1>1. PICK w \in Nat : w = Waiting /\ Weight = w + 1
  BY Weights
<1> QED
  BY <1>1

\* A step of the thread from one of its places to the next brings the end nearer.
LEMMA LessOfThread ==
  ASSUME NEW a \in Nat, NEW b \in Nat, NEW c \in Nat, NEW d \in Nat, NEW e \in Nat, NEW f \in Nat,
         NEW d1 \in Nat, d1 < d
  PROVE  a + b + c + d1 + e + f < a + b + c + d + e + f
OBVIOUS

\* An upload taken from the queue weighs less than its place in the queue did.
LEMMA LessOfQueue ==
  ASSUME NEW a \in Nat, NEW b \in Nat, NEW c \in Nat, NEW d \in Nat, NEW e \in Nat, NEW f \in Nat,
         NEW d1 \in Nat, d1 <= d, NEW f1 \in Nat, f1 < Waiting
  PROVE  a + b + c + d1 + e + f1 < a + b + (c + Waiting) + d + e + f
<1>1. PICK w \in Nat : w = Waiting /\ Weight = w + 1
  BY Weights
<1> QED
  BY <1>1

\* So it is after a step.
LEMMA RankTypeNext == TypeOK' => RankTypes'
BY RankType, PTL

\* The same with the parts of the rank.
LEMMA PlaceSum ==
  ASSUME MainRank \in Nat, MainRank' \in Nat, ScanRank \in Nat, ScanRank' \in Nat, QueueRank \in Nat,
         ThreadPlace[thread] \in Nat, ThreadPlace[thread'] \in Nat,
         UploadRank["main"] \in Nat, UploadRank'["main"] \in Nat, UploadRank["thread"] \in Nat,
         MainRank' + Weight <= MainRank, ScanRank' <= ScanRank,
         ThreadPlace[thread'] <= ThreadPlace[thread], UploadRank'["main"] < Waiting
  PROVE  /\ MainRank' + ScanRank' + QueueRank + ThreadPlace[thread'] + UploadRank'["main"] + UploadRank["thread"]
               < MainRank + ScanRank + QueueRank + ThreadPlace[thread] + UploadRank["main"] + UploadRank["thread"]
         /\ MainRank' + ScanRank' + (QueueRank + Waiting) + ThreadPlace[thread'] + UploadRank["main"]
                 + UploadRank["thread"]
               < MainRank + ScanRank + QueueRank + ThreadPlace[thread] + UploadRank["main"] + UploadRank["thread"]
BY LessOfPlace, ZenonT(30)

\* A step that brings sync() to a later place, adds nothing to the queue but an end marker
\* and begins at most one upload, lowers the rank.
LEMMA PlaceCloser ==
  ASSUME TypeOK, TypeOK', Place[main'] < Place[main],
         closed' = closed \/ closed' = closed + 1,
         Len(queue') \in {Len(queue), Len(queue) + 1},
         ThreadPlace[thread'] <= ThreadPlace[thread],
         UploadRank'["thread"] = UploadRank["thread"],
         Len(queue') = Len(queue) \/ UploadRank'["main"] = UploadRank["main"]
  PROVE  Rank' < Rank
<1>1. /\ Place[main] \in Nat /\ Place[main'] \in Nat
      /\ NumChunks - closed \in Nat /\ NumChunks - closed' \in Nat
      /\ Len(queue) \in Nat
      /\ ThreadPlace[thread] \in Nat /\ ThreadPlace[thread'] \in Nat
      /\ UploadRank["main"] \in Nat /\ UploadRank'["main"] \in Nat /\ UploadRank'["main"] < Waiting
      /\ UploadRank["thread"] \in Nat
      /\ MainRank \in Nat /\ MainRank' \in Nat /\ ScanRank \in Nat /\ ScanRank' \in Nat
      /\ QueueRank \in Nat /\ QueueRank' \in Nat
      /\ Len(queue') \in Nat
  BY RankType, RankTypeNext DEF RankTypes, Threads
<1>2. MainRank' + Weight <= MainRank
  BY <1>1, Products DEF MainRank
<1>3. ScanRank' <= ScanRank
  <2>1. CASE closed' = closed
    BY <1>1, <2>1 DEF ScanRank
  <2>2. CASE closed' = closed + 1
    <3>1. NumChunks - closed' < NumChunks - closed
      BY <1>1, <2>2 DEF TypeOK, ControlType
    <3>2. Weight * (NumChunks - closed') + Weight <= Weight * (NumChunks - closed)
      BY <1>1, <3>1, Products
    <3>3. ScanRank' + Weight <= ScanRank
      BY <3>2 DEF ScanRank
    <3>4. \A x, y, w \in Nat : x + w <= y => x <= y
      OBVIOUS
    <3> QED
      BY <1>1, <3>3, <3>4, Weights
  <2> QED
    BY <2>1, <2>2
<1>4. \/ QueueRank' = QueueRank
      \/ QueueRank' = QueueRank + Waiting /\ Len(queue') # Len(queue)
  <2>1. CASE Len(queue') = Len(queue)
    BY <2>1 DEF QueueRank
  <2>2. CASE Len(queue') = Len(queue) + 1
    <3>1. Waiting * Len(queue') = Waiting * Len(queue) + Waiting
      BY <1>1, <2>2, Products
    <3> QED
      BY <1>1, <2>2, <3>1 DEF QueueRank
  <2> QED
    BY <2>1, <2>2
<1>5. \/ QueueRank' = QueueRank /\ UploadRank'["main"] < Waiting
      \/ QueueRank' = QueueRank + Waiting /\ UploadRank'["main"] = UploadRank["main"]
  BY <1>1, <1>4
<1>6. CASE QueueRank' = QueueRank
  BY <1>1, <1>2, <1>3, <1>6, PlaceSum DEF Rank
<1>7. CASE QueueRank' = QueueRank + Waiting /\ UploadRank'["main"] = UploadRank["main"]
  BY <1>1, <1>2, <1>3, <1>7, PlaceSum DEF Rank
<1> QED
  BY <1>5, <1>6, <1>7

\* A step of one upload, or of the upload thread, lowers the rank if nothing else changes.
LEMMA UploadCloser ==
  ASSUME TypeOK, TypeOK', NEW u \in Threads, NEW v \in Threads, u # v,
         Place[main'] = Place[main], closed' = closed, queue' = queue,
         ThreadPlace[thread'] <= ThreadPlace[thread],
         UploadRank'[u] < UploadRank[u],
         UploadRank'[v] = UploadRank[v]
  PROVE  Rank' < Rank
<1>1. /\ MainRank \in Nat /\ ScanRank \in Nat /\ QueueRank \in Nat
      /\ ThreadPlace[thread] \in Nat /\ ThreadPlace[thread'] \in Nat
      /\ UploadRank["main"] \in Nat /\ UploadRank'["main"] \in Nat
      /\ UploadRank["thread"] \in Nat /\ UploadRank'["thread"] \in Nat
  BY RankType, RankTypeNext DEF RankTypes, Threads
<1>2. MainRank' = MainRank /\ ScanRank' = ScanRank /\ QueueRank' = QueueRank
  BY DEF MainRank, ScanRank, QueueRank
<1>3. \/ u = "main" /\ v = "thread"
      \/ u = "thread" /\ v = "main"
  BY DEF Threads
<1> QED
  BY <1>1, <1>2, <1>3 DEF Rank

\* A step of an upload lowers the rank, also the one that ends it and takes sync() on.
LEMMA RankUploadStep ==
  ASSUME TypeOK, TypeOK', Turns, NEW u \in Threads,
         UploadStep(u) \/ PutUnanswered(u) \/ PutRefused(u) \/ UnlinkFails(u)
  PROVE  Rank' < Rank
<1> PICK v \in Threads : v # u
  BY DEF Threads
<1>1. /\ phase \in [Threads -> Phases] /\ attempt \in [Threads -> 0..MaxAttempts]
      /\ phase[u] # "idle"
      /\ closed' = closed /\ queue' = queue /\ thread' = thread
      /\ phase'[v] = phase[v] /\ attempt'[v] = attempt[v]
  BY DEF TypeOK, UploadType, UploadStep, MarkAttempt, PutConfirmed, PutConflict, MarkUploaded, Unlink,
     MarkCleanup, MarkRejected, PutUnanswered, PutRefused, UnlinkFails, SetPhase, UploadDone, AfterFailure
<1>2. UploadRank'[v] = UploadRank[v] /\ ThreadPlace[thread'] \in Nat
  BY <1>1, RankTypeNext DEF UploadRank, Threads, RankTypes
<1>3. UploadRank'[u] < UploadRank[u]
  <2>1. attempt[u] \in 0..MaxAttempts
    BY <1>1
  <2>2. CASE MarkAttempt(u) \/ PutConfirmed(u) \/ PutConflict(u) \/ MarkUploaded(u)
    <3>1. attempt'[u] = attempt[u]
      BY <2>2 DEF MarkAttempt, PutConfirmed, PutConflict, MarkUploaded
    <3>2. \/ phase[u] = "attempt" /\ phase'[u] = "put"
          \/ phase[u] = "put" /\ phase'[u] \in {"confirmed", "rejected"}
          \/ phase[u] = "confirmed" /\ phase'[u] = "unlink"
      BY <1>1, <2>2 DEF MarkAttempt, PutConfirmed, PutConflict, MarkUploaded, SetPhase
    <3> QED
      BY <2>1, <3>1, <3>2 DEF UploadRank, Threads, StepsLeft
  <2>3. CASE Unlink(u) \/ MarkCleanup(u) \/ MarkRejected(u) \/ UnlinkFails(u)
    <3>1. \/ phase[u] = "unlink" /\ phase'[u] \in {"mark_cleanup", "unlink_failed", "idle"}
          \/ phase[u] \in {"mark_cleanup", "unlink_failed", "rejected"} /\ phase'[u] = "idle"
      BY <1>1, <2>3 DEF Unlink, MarkCleanup, MarkRejected, UnlinkFails, UploadDone, SetPhase
    <3> QED
      BY <3>1 DEF UploadRank, Threads, StepsLeft
  <2>4. CASE PutUnanswered(u) \/ PutRefused(u)
    <3>1. phase[u] = "put"
      BY <2>4 DEF PutUnanswered, PutRefused
    <3>2. \/ phase'[u] = "attempt" /\ attempt'[u] = attempt[u] + 1 /\ attempt[u] < MaxAttempts
          \/ phase'[u] = "rejected"
      BY <1>1, <2>4 DEF PutUnanswered, PutRefused, AfterFailure, SetPhase
    <3> QED
      BY <2>1, <3>1, <3>2 DEF UploadRank, Threads, StepsLeft
  <2> QED
    BY <2>2, <2>3, <2>4 DEF UploadStep
<1>4. CASE main' = main
  BY <1>1, <1>2, <1>3, <1>4, UploadCloser
<1>5. CASE main' # main
  <2>1. u = "main" /\ main' \in {"complete", "deliver", "failing"} /\ (main' = "complete" => main = "schema")
    BY <1>5 DEF UploadStep, MarkAttempt, PutConfirmed, PutConflict, MarkUploaded, Unlink, MarkCleanup,
       MarkRejected, PutUnanswered, PutRefused, UnlinkFails, UploadDone, Threads
  <2>2. main \in {"schema", "manifest"}
    BY <1>1, <2>1 DEF Turns
  <2>3. Place[main'] < Place[main]
    BY <2>1, <2>2 DEF Place
  <2> QED
    BY <1>1, <1>2, <2>1, <2>3, PlaceCloser DEF Threads
<1> QED
  BY <1>4, <1>5

\* Every step lowers the rank.
LEMMA RankNext ==
  ASSUME TypeOK, TypeOK', Turns, Next
  PROVE  Rank' < Rank
<1>0. main \in MainPoints /\ queue \in Seq(Chunks \cup {Sentinel}) /\ phase \in [Threads -> Phases]
  BY DEF TypeOK, ControlType, UploadType
<1>a. \A x : Len(Append(queue, x)) = Len(queue) + 1 /\ Len(queue) \in Nat
  BY <1>0
<1>b. /\ MainRank \in Nat /\ ScanRank \in Nat /\ QueueRank \in Nat
      /\ ThreadPlace[thread] \in Nat /\ UploadRank["main"] \in Nat /\ UploadRank["thread"] \in Nat
      /\ MainRank' \in Nat /\ ScanRank' \in Nat /\ QueueRank' \in Nat
      /\ ThreadPlace[thread'] \in Nat /\ UploadRank'["main"] \in Nat /\ UploadRank'["thread"] \in Nat
  BY RankType, RankTypeNext DEF RankTypes, Threads
<1>1. ASSUME NEW u \in Threads,
             UploadStep(u) \/ PutUnanswered(u) \/ PutRefused(u) \/ UnlinkFails(u)
      PROVE  Rank' < Rank
  BY <1>1, RankUploadStep
<1>2. ASSUME Place[main'] < Place[main], closed' \in {closed, closed + 1},
             queue' = queue \/ \E x : queue' = Append(queue, x),
             thread' = thread \/ (thread = "none" /\ thread' = "initialize"),
             UNCHANGED <<phase, attempt>>
      PROVE  Rank' < Rank
  <2>1. UploadRank'["main"] = UploadRank["main"] /\ UploadRank'["thread"] = UploadRank["thread"]
    BY <1>2 DEF UploadRank, Threads
  <2>2. Len(queue') \in {Len(queue), Len(queue) + 1}
    BY <1>2, <1>a
  <2>3. ThreadPlace[thread'] <= ThreadPlace[thread]
    BY <1>2, RankType DEF RankTypes, ThreadPlace
  <2> QED
    BY <1>2, <2>1, <2>2, <2>3, PlaceCloser
<1>3. CASE \/ BeginRun \/ StartThread \/ SetUploading \/ PreparationFails
           \/ Join \/ CompleteRun \/ DeliverRun \/ CleanUp \/ FailRun \/ FailRunFails
  <2>1. /\ \/ main = "begin" /\ main' = "mkdir"
           \/ main = "mkdir" /\ main' = "set_uploading"
           \/ main = "set_uploading" /\ main' = "scan"
           \/ main \in {"begin", "mkdir", "set_uploading", "failing"} /\ main' = "raised"
           \/ main = "join" /\ main' = "decide"
           \/ main = "complete" /\ main' = "finalizing"
           \/ main = "deliver" /\ main' = "cleanup"
           \/ main = "cleanup" /\ main' = "delivered"
           \/ main = "failing" /\ main' = "failed"
        /\ closed' = closed /\ queue' = queue /\ UNCHANGED <<phase, attempt>>
    BY <1>3 DEF BeginRun, StartThread, SetUploading, PreparationFails, Join, CompleteRun,
       DeliverRun, CleanUp, FailRun, FailRunFails
  <2>2. Place[main'] < Place[main]
    BY <2>1 DEF Place
  <2>3. thread' = thread \/ (thread = "none" /\ thread' = "initialize")
    BY <1>3 DEF BeginRun, StartThread, SetUploading, PreparationFails, Join, CompleteRun,
       DeliverRun, CleanUp, FailRun, FailRunFails, Turns
  <2> QED
    BY <1>2, <2>1, <2>2, <2>3
<1>4. CASE DiskPressure \/ ScanFails \/ ScanCancelled \/ ScanEnds
  <2>1. /\ main = "scan" /\ main' = "join" /\ closed' \in {closed, closed + 1}
        /\ queue' = Append(queue, Sentinel) /\ thread' = thread /\ UNCHANGED <<phase, attempt>>
    BY <1>4 DEF DiskPressure, ScanFails, ScanCancelled, ScanEnds, StopThread
  <2>2. Place[main'] < Place[main]
    BY <2>1 DEF Place
  <2> QED
    BY <1>2, <2>1, <2>2
<1>5. CASE CloseChunk
  <2>1. CASE main' = "join"
    <3>1. /\ main = "scan" /\ closed' = closed + 1 /\ thread' = thread
          /\ queue' = Append(queue, Sentinel) /\ UNCHANGED <<phase, attempt>>
      BY <1>5, <2>1 DEF CloseChunk, StopThread
    <3>2. Place[main'] < Place[main]
      BY <2>1, <3>1 DEF Place
    <3> QED
      BY <1>2, <3>1, <3>2
  <2>2. CASE main' # "join"
    <3>1. /\ main' = main /\ closed' = closed + 1 /\ queue' = Append(queue, closed + 1)
          /\ thread' = thread /\ UNCHANGED <<phase, attempt>>
      BY <1>5, <2>2 DEF CloseChunk
    <3>2. MainRank' = MainRank /\ QueueRank' = QueueRank + Waiting
      BY <3>1, <1>a, Products DEF MainRank, QueueRank
    <3>3. ScanRank' + Weight <= ScanRank
      <4>1. NumChunks - closed' < NumChunks - closed
        BY <3>1 DEF TypeOK, ControlType
      <4> QED
        BY <4>1, RankType, RankTypeNext, Products DEF ScanRank, RankTypes
    <3>4. UploadRank'["main"] = UploadRank["main"] /\ UploadRank'["thread"] = UploadRank["thread"]
      BY <3>1 DEF UploadRank, Threads
    <3> QED
      BY <1>b, <3>1, <3>2, <3>3, <3>4, LessOfChunks, ZenonT(30) DEF Rank
  <2> QED
    BY <2>1, <2>2
<1>6. CASE ThreadStarts \/ ThreadInitializeFails
  <2>1. /\ thread = "initialize" /\ thread' \in {"loop", "dead"}
        /\ UNCHANGED <<main, closed, queue, phase, attempt>>
    BY <1>6 DEF ThreadStarts, ThreadInitializeFails
  <2>2. ThreadPlace[thread'] < ThreadPlace[thread]
    BY <2>1 DEF ThreadPlace
  <2>3. /\ MainRank' = MainRank /\ ScanRank' = ScanRank /\ QueueRank' = QueueRank
        /\ UploadRank'["main"] = UploadRank["main"] /\ UploadRank'["thread"] = UploadRank["thread"]
    BY <2>1 DEF MainRank, ScanRank, QueueRank, UploadRank, Threads
  <2> QED
    BY <1>b, <2>2, <2>3, LessOfThread DEF Rank
<1>7. CASE ThreadStatementFails
  <2>1. /\ UNCHANGED <<main, closed, queue, attempt>>
        /\ phase'["main"] = phase["main"] /\ phase'["thread"] = "idle"
        /\ phase["thread"] \in ThreadFaults /\ phase["thread"] \in Phases
        /\ thread' = thread \/ thread' = "dead"
    BY <1>7, <1>0 DEF ThreadStatementFails, SetPhase, Threads
  <2>2. phase["thread"] \in {"attempt", "confirmed", "mark_cleanup", "unlink_failed", "rejected"}
    BY <2>1 DEF ThreadStatements, Phases
  <2>3. UploadRank'["thread"] < UploadRank["thread"]
    <3>1. attempt["thread"] \in 0..MaxAttempts
      BY DEF TypeOK, UploadType, Threads
    <3> QED
      BY <2>1, <2>2, <3>1 DEF UploadRank, Threads, StepsLeft
  <2>4. UploadRank'["main"] = UploadRank["main"]
    BY <2>1 DEF UploadRank, Threads
  <2>5. ThreadPlace[thread'] <= ThreadPlace[thread]
    BY <2>1, RankType DEF ThreadPlace, RankTypes
  <2> QED
    BY <2>1, <2>3, <2>4, <2>5, UploadCloser DEF Threads
<1>8. CASE TakeItem
  <2>1. /\ UNCHANGED <<main, closed>> /\ queue # <<>> /\ queue' = Tail(queue)
        /\ thread = "loop" /\ thread' \in {"loop", "ended"}
        /\ phase["thread"] = "idle"
        /\ phase'["main"] = phase["main"] /\ attempt'["main"] = attempt["main"]
    BY <1>8, <1>0 DEF TakeItem, SetPhase, Threads, TypeOK, UploadType
  <2>2. Len(queue) = Len(queue') + 1 /\ Len(queue') \in Nat
    BY <2>1, <1>0
  <2>3. QueueRank = QueueRank' + Waiting
    BY <2>2, Products DEF QueueRank
  <2>4. UploadRank["thread"] = 0
    BY <2>1 DEF UploadRank, Threads, StepsLeft
  <2>5. UploadRank'["main"] = UploadRank["main"] /\ ThreadPlace[thread'] <= ThreadPlace[thread]
        /\ MainRank' = MainRank /\ ScanRank' = ScanRank
    BY <2>1 DEF UploadRank, Threads, ThreadPlace, MainRank, ScanRank
  <2>6. UploadRank'["thread"] < Waiting
    BY RankTypeNext DEF RankTypes, Threads
  <2> QED
    BY <1>b, <2>3, <2>5, <2>6, LessOfQueue, ZenonT(30) DEF Rank
<1>9. CASE RegisterFile
  <2>1. /\ UNCHANGED <<main, closed, queue, thread, attempt>>
        /\ phase["main"] = "register" /\ phase'["main"] = "attempt"
        /\ phase'["thread"] = phase["thread"]
    BY <1>9, <1>0 DEF RegisterFile, SetPhase, Threads
  <2>2. attempt["main"] \in 0..MaxAttempts
    BY DEF TypeOK, UploadType, Threads
  <2>3. UploadRank'["main"] < UploadRank["main"]
    BY <2>1, <2>2 DEF UploadRank, Threads, StepsLeft
  <2>4. UploadRank'["thread"] = UploadRank["thread"] /\ ThreadPlace[thread'] <= ThreadPlace[thread]
    BY <2>1, RankType DEF UploadRank, Threads, RankTypes
  <2> QED
    BY <2>1, <2>3, <2>4, UploadCloser DEF Threads
<1>10. CASE Decide \/ UploadManifest \/ MainStatementFails
  <2>1. /\ UNCHANGED <<closed, queue, thread>>
        /\ phase'["thread"] = phase["thread"] /\ attempt'["thread"] = attempt["thread"]
    BY <1>10, <1>0 DEF Decide, UploadManifest, MainStatementFails, StartUpload, SetPhase, Threads,
       TypeOK, UploadType
  <2>2. Place[main'] < Place[main]
    <3>1. CASE Decide \/ UploadManifest
      BY <3>1 DEF Decide, UploadManifest, Place
    <3>2. CASE MainStatementFails
      <4>1. main' = "failing"
        BY <3>2 DEF MainStatementFails
      <4>2. main \in {"decide", "schema", "complete", "finalizing", "manifest", "deliver", "cleanup"}
        <5>1. CASE phase["main"] = "idle"
          BY <1>0, <3>2, <5>1 DEF MainStatementFails, MainStatements, MainPoints, Ended
        <5>2. CASE phase["main"] # "idle"
          BY <5>2 DEF Turns
        <5> QED
          BY <5>1, <5>2
      <4> QED
        BY <4>1, <4>2 DEF Place
    <3> QED
      BY <1>10, <3>1, <3>2
  <2>3. UploadRank'["thread"] = UploadRank["thread"] /\ Len(queue') = Len(queue)
        /\ ThreadPlace[thread'] <= ThreadPlace[thread]
    BY <2>1, RankType DEF UploadRank, Threads, RankTypes
  <2> QED
    BY <2>1, <2>2, <2>3, PlaceCloser
<1> QED
  BY <1>1, <1>3, <1>4, <1>5, <1>6, <1>7, <1>8, <1>9, <1>10
  DEF Next, MainStep, ThreadStep, Failure, Threads

\* Every step of sync() and its upload thread brings their end nearer: however uploads are
\* retried and whatever fails, there is no endless run of steps. With JoinServed this is what
\* SyncEnds rests on but for the fairness of the two threads.
THEOREM StepsRunOut == Spec => [](Rank \in Nat) /\ [][Rank' < Rank]_vars
<1>1. TypeOK => Rank \in Nat
  BY RankType DEF RankTypes
<1>2. InductiveInvariant /\ InductiveInvariant' /\ [Next]_vars => [Rank' < Rank]_vars
  BY RankNext DEF InductiveInvariant
<1>3. InductiveInvariant => TypeOK
  BY DEF InductiveInvariant
<1> QED
  BY <1>1, <1>2, <1>3, Invariance, PTL DEF Spec
=============================================================================
