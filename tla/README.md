# airgap-sync: specifications, model checking and proofs

airgap-sync copies MySQL tables across a one-way gap. The *source* scans a table,
writes it as compressed chunk files and PUTs them to a relay; an external FTP
transfer carries the relay's files into the incoming directory of the
*destination*, which imports, verifies and swaps them in. A *run* is one full
snapshot of one table: chunks, a schema file and, last, a manifest that makes the
run visible. There is no channel back: the source never learns what the
destination did, and each side must survive crashes, repeated and reordered
deliveries, and operators' commands on its own.

This directory holds TLA+ models of that system, translated from the code under
`src/src/airgap_sync` (paths below are relative to it), TLC configurations that
check them on small instances, and TLAPS proofs. `PROJECT.json` maps every
definition that models code to its lines.

## 1. Inventory

| Component | State it keeps | Operations | Hard behaviour | Correct when |
|---|---|---|---|---|
| Destination processor (`destination/processor.py`, `mysql.py`) | metadata tables `runs`, `chunks`, `table_versions`; staging, live and backup tables; two advisory locks | `process`: register, import, verify, order, prepare, RENAME, finalize; recovery of a swap; cleanup of applied and superseded runs | several processors (worker and `destination process`), a crash or a failing statement between any two SQL statements, locks lost with the session, runs in any order, cleanup without locks | readers only ever see whole verified snapshots; each chunk is imported once; history is a chain; nothing is dropped too early; everything is settled and cleaned up in the end |
| Incoming directory and destination worker (`incoming.py`, `worker.py`) | files per run | discovery, validation, polling, orphan cleanup | files arrive in any order, half written and again; the orphan cleanup looks, asks and then removes | an incomplete run is left alone, a complete one is processed, and nothing that was removed or altered on the way passes verification |
| Source delivery (`source/delivery.py`, `uploader.py`, `scanner.py`) | the queue between scan and upload thread, pending bytes, first fatal error, run directory, rows of `sync_runs` and `run_artifacts` | `DeliveryRunner.sync`: scan, close chunks, upload with retries, join, schema, complete, manifest, deliver, clean up | two threads, a bounded spool, timeouts whose PUT was applied, errors in either thread, end markers | the manifest is the last file; nothing unconfirmed is deleted; the spool is bounded; sync ends |
| Source state (`source/state.py`) | SQLite: runs, tables, artifacts, cycles | one `BEGIN IMMEDIATE` transaction per operation | several processes write it | rows of different tables agree |
| Source cycle and worker (`source/cycle.py`, `common/runtime.py`, `cli.py`) | the open cycle and its tables; the process lock | run/resume a cycle, recover an interrupted one, abandon, maintenance, tick | restarts, shutdown requests, commands that do not take the process lock | one cycle at a time, in order, resumed where it stopped; it completes |
| Source snapshot (`source/snapshot.py`, `chunk_writer.py`, `common/manifest.py`, `row_codec.py`, `verification.py`) | the open chunk, closed chunk files, the manifest, the digest | `source snapshot`, encoding, chunk boundaries, the multiset digest | numeric edges: a row larger than a chunk, a scan that ends with a full chunk, equal rows | the chunks hold every scanned row once and in order; the digest tells multisets of rows apart |
| Destination statistics (`destination/statistics.py`) | none | net change of a run and of a month from the version history | history gaps | changes add up |
| Monitor reports (`source/monitor_report.py`, `monitor/protocol.py`) | two durable cursors | page through runs, write and upload reports | rows are added while paging, pages are cut short by a budget, uploads fail or are not answered | no run is left out for ever |
| Monitor ingest and store (`monitor/ingest.py`, `store.py`) | claimed files, receipts, merged runs, samples | rounds: settle, claim, read, commit, remove; deduplicate, merge, expire, quarantine | files still being written, duplicates, reordering, rows forgotten by retention, a kill between steps | no report is lost; what is shown never goes back; unreadable files starve nobody |
| Monitor progress (`monitor/progress.py`) | samples per stage | record, merge received samples | late samples, a kill between commit and merge | an ended stage stays ended, progress never goes back |
| Monitor alerts (`monitor/alerts.py`) | alerts, scan and recovery cursors, what was noted of incoming files | rounds: source, database and incoming rules, `apply`, retention; acknowledge | late, repeated and tied evidence, changed rules, failing families, kills, bounded pages | an alert agrees with the latest evidence, is closed only by evidence, and closes in the end |
| Monitor web application, configuration, logging, DDL rewriting, source MySQL wrapper, transport names, deployment scripts | none of their own, or presentation | — | — | — |

Interactions: the worker of the source calls `DeliveryRunner.sync` for one table
after the other; `source sync` and `source snapshot` call the same code from other
processes, with only SQLite between them. The relay and the transfer connect
`SourceDelivery` and `DestinationProcessor`: what one guarantees
(`SnapshotTransfer`: the manifest only after all the rest) is what the other
relies on when it takes a visible manifest as an announcement. The destination
does not even rely on it completely: it validates that every file a manifest names
is present, so transfers that reorder files are fine.

On the way, the *content* of a run (its rows, cut into chunks and named by the
manifest) is the same thing for scan, transfer, validation, import and read-back:
`SnapshotContent` follows it through all of them, where `SourceDelivery` and
`DestinationProcessor` follow locks, statuses and files. The monitor is a second,
independent path over the same transfer: `MonitorReports` is what is said and how it
is merged, `MonitorIngest` how its files are taken from the incoming directory, and
`MonitorAlerts` what is concluded from what has been merged. They meet in the state
one leaves to the other: a report `MonitorIngest` commits is an `Ingest` of
`MonitorReports`, and the sample that a commit makes the latest is the `ReceiveSample`
of `MonitorAlerts`.

## 2. Modules

| Module | What it is |
|---|---|
| `DestinationProcessor` | the destination: any number of processors, runs and tables |
| `SnapshotReplica` | abstract specification: what readers of the target database may see |
| `MCDestinationProcessor` | TLC instances: one table, two or three runs |
| `DestinationProcessorProofs` | TLAPS: the inductive invariant and what follows from it |
| `SourceDelivery` | one run of `DeliveryRunner.sync`, both of its threads |
| `SourceDeliveryProofs` | TLAPS: its inductive invariant, its safety properties and the refinement |
| `SnapshotTransfer` | abstract specification: what a run may look like from the relay |
| `SourceCycle` | cycles, the worker and operators' commands on one SQLite database |
| `CycleProgress` | abstract specification of a cycle |
| `MCSourceCycle` | TLC instances: one or two captured tables |
| `SourceCycleProofs` | TLAPS: its inductive invariant, its safety properties and the refinement |
| `SnapshotContent` | the rows of one run from the scan to the read-back, and the orphan cleanup |
| `MCSnapshotContent` | TLC instance: small and large rows, and hashes for them |
| `SnapshotContentProofs` | TLAPS: what folds and digests compute, the invariants of scan and import, what a run that verifies is |
| `FoldLemmas` | TLAPS: `FoldLeft` and `FlattenSeq` of the community modules, and induction over natural numbers |
| `MonitorReports` | run reports: the reporter, the transfer, and the merge in monitor.db |
| `MCMonitorReports` | TLC instance: one run within the window of facts, one before it |
| `MonitorReportsProofs` | TLAPS: its inductive invariant and its safety properties |
| `MonitorIngest` | how report files are taken from the incoming directory |
| `MonitorIngestProofs` | TLAPS: its inductive invariant and that no report is lost |
| `MonitorAlerts` | rounds of alert evaluation and the life of an alert |
| `MCMonitorAlerts` | TLC instance: one family of rules at a time |
| `MonitorAlertsProofs` | TLAPS: its inductive invariant and its safety properties |

Definitions named `X_Y` are faulty variants of `X`: `PROJECT.json` pairs each with
a run and a property that must then be violated, which shows that the property
depends on that piece of the code.

### DestinationProcessor

A processor is a MySQL session inside `process()` or a cleanup. `pc[p]` names the
next SQL statement or file operation, so processors interleave between any two,
and `Crash` may fall between any two: it rolls back, releases the advisory locks
and forgets the locals, while files, metadata and tables stay. One action stands
for one statement or transaction: `AcquireRunLock`, `AcquireTableLock` (with
`NestedLocks = FALSE` the second `GET_LOCK` drops the first, as MySQL before 5.7
does), `Register` (insert or find the run, then `Dispatch` on its status),
`Stage`, `BeginImport`, `PickChunk`, `ImportChunk` (rows and IMPORTED mark in one
transaction), `CompleteStaged`, `SetVerifying`, `Verify`, `OrderStaged`,
`PrepareSwapping`, `Rename`, `Finalize`; `Recover`, `Reverify`, `Reswap` for a run
found SWAPPING; and the statements of the two cleanup routines.

Abstractions. A table's content is the run it came from and how often it holds
each chunk, so partial and doubled imports are distinct from complete ones. The
digest is right for a run unless it is in `Corrupt`, in which case a read-back
never matches (that the digest can be relied on is `SnapshotContent`). Data files and
schema file are one item `"data"`; the manifest is the other. A failing statement
(`StatementFails`, `ChunkFails`, `CleanupFails`) follows the handler that catches it:
`fail_run` under the table lock, the cleanup routines' own record of the error, or the
way out.

### SourceDelivery

`main` is the control point of `sync()`, `thread` that of the upload thread;
`phase[u]` is where either of them is in an upload: `attempt` (the SQLite record),
`put`, `confirmed`, `unlink`, `mark_cleanup`, `unlink_failed`, `rejected`. `queue`
is `upload_queue` with `Sentinel` for the `None` that ends it, `pending` the shared
count of bytes (a chunk counts as one), `fatal` what `set_fatal` keeps. A PUT ends
confirmed, refused, or unanswered; unanswered and refused ones may have been
applied, and then the retry meets 409. `ThreadFaults` and `MainFaults` say at which
statements the SQLite connection of each thread may fail; `thread = "dead"` is an
upload thread that ended at a statement outside its error handling, which tells nobody.

### SourceCycle

A sync is reduced to the statements that change the database, and the upload of
its manifest; the worker (`worker`, `pos`, `result`, `stop`) drives one sync at a
time, commands drive others. `runs` and `cycles` are the SQLite tables, a run being
its row number and 0 NULL. `SyncFails` is a failure inside the `try` of `sync()`
(then `FailRun`), `SyncRaises` one outside it (the run stays active),
`BeginRefused` is `begin_run` finding an active run. `KillWorker`, `KillManual`,
`RequestStop`, `Abandon` and `StartWorker` are the process environment. Due times
are abstracted to "later": the worker may wake at any time.

### SnapshotContent

`WriteRow` is one turn of the scan: encode, add to the digest, write, and close the
chunk when a limit is reached (`Full`); `FinishScan` closes the last chunk, compares the
sums and writes the manifest; `ScanFails` aborts at any point, also where the callback
of a closed chunk raises: of one that a row filled, or of the last one, which `finish()`
closes however short it is. `Deliver` and `DeliverManifest` are the transfer: a file is
`part` or `whole`, with any number of its rows readable while it is a part, and may be
written again at any time. `ListManifests`, `ReadActive`, `RemoveOrphan`, `SweepEnds`
are the orphan cleanup, statement by statement. `Observe`, `ObserveAgain`, `HashFile`
are `validate_run`; `Register` to `Verify` the processor, batch by batch
(`InsertBatch`), with the chunk's transaction ending in `EndChunk`. A file that is removed
while it is read may have been a part, so its rows may end anywhere.

Abstractions. A row is its encoding, so the row codec is not in question. The sha256 of
a file is taken to identify its content. `Modulus` is 2^256 in the code; that the sum of
two hashes per row can collide is a matter of chance there. `DigestTellsApart` says that it
does not, for tables within the bound; it holds of the instance's hashes, which TLC
evaluates (`MCDigestTellsApart`), and is the hypothesis of one theorem. The table is read
back in the order it was imported in, although a database may return any order: that
makes no difference to the digest is a theorem (`DigestIgnoresOrder`). Old files are any
files: the retention time may have passed for each of them.

### MonitorReports

`life[r]` is the sequence of statuses the run's row has had, so a report's fact is a
status with its place in that sequence (`turn`), which the code does not have and the
properties need. `Report` is a whole `report()`: two pages behind two cursors (`Page`,
which the query's budget may cut anywhere), the upload, and the cursors saved after it,
unless the upload was refused or the process killed. A report is stamped by
`source_clock`; the monitor lives by `clock`. `Tick` advances either, so the source may be
ahead or behind by any amount, and change from one to the other. The transfer delivers what
was `accepted` any number of times and in any order. `Ingest` is the transaction of
`store.ingest` (receipt, `Merged` per run) for a report in the window of acceptance, which
is from `History` before the monitor's clock to `Future` after it (`InWindow`),
`MergeProgress` the merge of stage progress
after it, `MergeIsLost` a kill between the two; `ExpireRow` is retention. `Sample` and
`ChangeStatus` are what the source's `Recorder` and sync do to a run.

### MonitorIngest

A file in a directory is `none`, `part` or `whole`; `FinishWriting` is the writer going
on with its open file, wherever the file was moved meanwhile. A round is
`OpenDirectory`, a bounded number of `Visit`s, each followed by `Read`, `Commit` and
`Remove` for a file that was taken, and `LeaveDirectory`, for the processing directory
first and the incoming directory next. `seen` counts the visits that found a file as
it was before: one settles it, one more ends the grace period of an unreadable one.
`Unchanged` is the comparison of the file's identity before it is opened and before it is
removed. `StepFails` is a failing call (the file is left to the next round), `Kill` the
process. `old` are the reports that are outside the window of acceptance: those that grew
too old, and those captured too far ahead, which are rejected alike when their grace is over.
That one of the latter may enter the window while its file waits is left out.

### MonitorAlerts

A round is `BeginRound` (rules changed or switched off disable open alerts),
`EvaluateSource`, `EvaluateRds`, `EvaluateIncoming` and `Expire`; `FamilyFails` may take
the place of any family, after some of its decisions, and `Kill` may fall between any
two. `ReceiveSample` takes a sample of any age that the window of acceptance admits, up to
`Future` ahead of the clock, at any time; the latest by capture and hash counts. `Applied`
is `apply()` for one decision: open, refresh, suppress (`Suppressed`),
keep (`Outdated`), recover. `Pending` and `RecoveryAfter` are the page of open alerts
looked up in a round and its durable cursor, `Listed` the directory iterator. Inputs are
the latest sample of a node, the latest run and version of a table, and the files and
metadata of incoming runs. The rules for disks, source runs, cycles and the source's
version read the same sample and go through the same `apply()` as the worker rule, and
are not modelled one by one.

## 3. Runs

| Run | Instance | Shows |
|---|---|---|
| `destination_safety` | 2 processors, 3 runs of successive seconds and 2 chunks, the newest of which reads back wrong; no nested locks; empty target; one crash, failing statement or repeated delivery; 577k states | exclusive work per table, every chunk imported exactly once, one version chain, VERIFIED is recorded, only complete verified content is served, backups and files go only after recording; implements `SnapshotReplica` |
| `destination_settles` | 2 processors, 2 runs, 1 crash, fairness | every run is settled, backups are dropped, files and staging tables go away |
| `destination_late_older_run` | 1 processor, 2 runs, 1 crash | *violated*: see 6.1 |
| `delivery_safety` | 4 chunks, room for 2, 3 attempts, 3 relay faults, 3 other faults at every statement, fairness | the manifest is last, DELIVERED means every file confirmed, nothing unconfirmed is deleted, one PUT at a time, bounded spool, sync ends; implements `SnapshotTransfer` |
| `delivery_thread_dies` | 2 chunks, one failure to open the thread's database | *violated*: see 6.2 |
| `cycle_safety` | 1 table, 2 cycles, 1 command, 1 kill or shutdown, 1 failure, 1 raise, 1 abandoned cycle; 3.2M states | a completed cycle has a delivered run of its own for every table; table rows agree with run rows; maintenance spares what is in use |
| `cycle_completes` | 2 tables, worker alone, 2 failures, 1 kill or shutdown, fairness; 69k states | the cycle completes; implements `CycleProgress` |
| `cycle_killed_command` | 1 table, 1 command, 1 kill, fairness | *violated*: see 6.3 |
| `snapshot_content` | up to 4 rows of which one kind fills a chunk alone, chunks of 2 rows or 3 bytes, batches of 1, 2 troubles; 1.4M states | chunks hold the scan; a run that verifies has exactly the rows scanned |
| `monitor_reports` | 2 runs, one older than the window, 2 reports of one fact and one progress each, 2 statuses per run, history of 1, 1 ahead; 3.4M states | a status goes back only after its row expired and within the skew that is accepted; no step back in progress, only real conflicts, the rotation leaves no run out |
| `monitor_ingest` | 2 files, one unreadable, batches of 1, 1 redelivery, 1 kill, 1 failing call, fairness; 303k states | no report inside the window of acceptance is lost; every readable file is taken |
| `monitor_alerts` | 1 node, or 1 table, or 2 incoming runs; 3 events, samples up to 2 late or 1 ahead, 2 rule sets, 1 trouble, pages of 1, fairness; 936k states | alerts agree with the latest evidence, are closed by evidence only, and close in the end |

**Bounds.** *Destination.* Two processors are enough for every race, because every step
touches one run or one table and a third processor could only be in the position of one
of the two. Two runs give every ordering (older first, older late); the third adds a
corrupt run on top of a chain. Two chunks tell "some" from "all". `OneDisturbance` lets
one crash, failing statement or repeated delivery fall anywhere, each with the recovery
that follows it; combinations of them, runs of the same second, several tables and
nested locks are what the proofs add, which have no such bounds. *Delivery.* Four
chunks with room for two reach the backlog limit with a chunk in flight and one queued;
three attempts tell first, middle and last apart. *Cycle.* One command and one kill next
to the worker reach the interleavings of two syncs on one table; a second cycle shows
what the first leaves behind. `MaxRuns` never binds before the other bounds do in the
passing runs. *Content.* A chunk limit of two rows and three bytes is reached by
counting, by bytes with small rows in front, and by one row alone; two troubles let a row be
altered in an import that was interrupted, or two rows be altered so that they might
cancel. *Reports.* Two reports of one fact each make the reports overtake each other,
repeat, tie in one second, and expire between two deliveries; initial statuses and
cursors are arbitrary, so two further statuses reach every pair of a regression. Either
clock reaches 2, the destination's to let a row expire, the source's so that a report is
captured up to two units ahead of it or behind: outside the window on both sides, on its
edges and inside. The status of the run that is older than the window is in no report, so
`MCMonitorReports` has one for all.
*Ingest.* One file per round with an unreadable one in front shows starvation; one kill
and one redelivery meet at every step of a file. *Alerts.* Three events open, close and
tie an alert, also when a sample comes later than one of the same second or an earlier one;
two values of the rules change it; `OneFamily` restricts a behaviour to
one of the families of rules, which is sound for these properties because a rule reads
and writes its own alert only and rounds run all families in any case; `FirstThreshold` lets
only the heartbeat rule, which alone reads the threshold, begin with either value of it.

`CHECK_DEADLOCK FALSE` is given where the system really stops: all runs settled,
`sync()` returned, the bounded cycles done, the bounds on time and reports reached. The
rounds of `monitor_ingest` and `monitor_alerts` never stop and are checked for deadlock.

**Fairness.** `DestinationProcessor!Fairness`: a started processor executes on; the
worker polls for ever and visits every candidate of a poll in turn
(`DestinationWorker.run`), so a run that is a candidate again and again is started
again and again (strong fairness of the start of each run and cleanup); the transfer
finishes what it began. `SourceDelivery`: both threads run. `SourceCycle`: the worker
and running syncs execute on, and the service manager restarts the worker
(`Restart=on-failure` in the unit file of the repository's README). `MonitorIngest` and
`MonitorAlerts`: the monitor process runs its rounds for ever, is restarted when killed,
and a round takes its steps; no fairness says that a particular file or alert is looked at,
which is what the properties are about. No fairness is assumed of operators,
kills, failures, writers, or the relay. Since the failures are bounded, a liveness
result reads "if it stops failing, it gets there".

## 4. What the properties are about

Destination. `ExclusiveTableWork` is the purpose of the two locks, also where
nesting is not supported. `ImportedOnce` relates the staging table's rows to the
chunk marks. `ServedComplete` holds in the middle of a swap and after a crash.
`VersionChain` makes net changes add up. `VerifiedIsRecorded`,
`BackupKeptUntilRecorded` and `IncomingKeptUntilSettled` relate what is irrevocable
(a drop, an unlink, VERIFIED) to the record that justifies it. `ImplementsReplica`
is the promise to readers. `EventuallySettled`, `EventuallyCleanedUp` and
`BackupEventuallyDropped` say that no single crash strands a run, except one that an
older run overtook (`Overtaken`, 6.1).

Delivery. `CommittedIsComplete` is the commit protocol of a run: no failure of either
thread that somebody is told of lets `sync()` publish an incomplete snapshot.
`DeliveredIsConfirmed` says the same of the source's own record. `KeptUntilConfirmed`
relates local files to what the relay confirmed. `SpoolIsBounded` and `OnePutAtATime` are
the configured limits. `SyncEnds` excludes a join on a thread that waits for ever.
`ImplementsTransfer` is what the other side may rely on; after a silent death of the
upload thread (`"broken"`) that is only that files do not disappear.

Cycle. `CompletedIsDelivered` relates a cycle's row to the relay: a run per table,
visible there, made for this cycle only. `TableShowsLastRun` relates rows written by
different statements of several processes and by recovery. `FilesAreKept` concerns
maintenance next to live syncs. `CycleCompletes` and `ImplementsCycle` say that
resuming makes progress and never redoes or reorders.

Content. `ChunksHoldTheScan` relates the chunk files to the scan and to the limits,
through closings by count, by size, by a row larger than a chunk, and at the end; only the last
chunk of a scan that ended, finished or aborted, may be short of the limits.
`VerifiedIsScanned` is end to end: whatever files are half written, sent again or removed
between validation and import, however often the import is interrupted, and though the
database alters a row, a run that verifies has the rows that were scanned.

Monitor. `GoesBackOnlyWithinSkew` relates what is shown to the order in which the source
went through its statuses, which no report says. While a row is kept its status never goes
back, because the row keeps the time of its evidence. A row that expired was received
`History` ago, but may have been captured up to `Future` later than that, so an earlier
report whose age is within `Future` of the limit can still bring back an earlier status
(6.14); no other can.
`ConflictsAreReal` says that reordering alone never raises a flag. `RotationVisitsAll`
is fairness among runs, as a bound. `ProgressNeverBack` holds across the kill between
commit and merge. `NoReportLost` relates files in two directories, the job in hand, the
database and the window of time. `EventuallyTaken` says that files which fail in every round
keep no others waiting. `AlertsAgree` and `ClosedByEvidence` are the two halves of what
an alert means: it is open if the latest evidence says so, and does not close
without it. `StaleEventuallyCloses` needs the page of the recovery to move on.

## 5. Proofs

In each of the modules, none of the properties is inductive alone; the invariant says what
control points and recorded statuses guarantee. A proof has one lemma per action and
conjunct an action can disturb, frame lemmas for actions that leave a conjunct's
variables alone, and temporal theorems that combine them. Every safety and action property
that a passing run checks is also proved, for every value of the constants, and so are the
three refinements.

### The destination

`DestinationProcessorProofs` proves, for every number of processors, runs, tables,
chunks, crashes, faults and redeliveries, from `DestinationAssumption` (types of the
constants; `None` is neither a processor nor a run) alone:

| Theorem | States |
|---|---|
| `Invariance` | `Spec => []InductiveInvariant` |
| `TypeCorrect` | `Spec => []TypeOK` |
| `WorkIsExclusive` | `Spec => []ExclusiveTableWork` |
| `ChunksImportedOnce` | `Spec => []ImportedOnce` |
| `ServesCompleteRuns` | `Spec => []ServedComplete` |
| `VersionsFormAChain` | `Spec => []VersionChain` |
| `VerifiedRunsAreRecorded` | `Spec => []VerifiedIsRecorded` |
| `BackupIsKept` | `Spec => BackupKeptUntilRecorded` |
| `IncomingIsKept` | `Spec => IncomingKeptUntilSettled` |
| `Refinement` | `Spec => ImplementsReplica` |

`ServedComplete` is preserved by `Rename` only because the staging table renamed was
verified, which is a fact about what happened several statements before, possibly in
another session that crashed. `InductiveInvariant` therefore has these parts:

- `Engaged`: a processor between registration and finalize has the table lock of its
  run. From it, work on a table is exclusive (the lock has one holder), and a
  step of another processor cannot disturb what the following parts say about a run.
- `ImportPoint`, `AbsentIsEmpty`, `ImportedOnce`: the chunk about to be imported is not
  marked, a staging table just created belongs to a run of which nothing is marked, and
  rows equal marks.
- `SwapPoint`, `SwapReady`: at the control points from `order` to `rename`, and for a
  run recorded SWAPPING, an existing staging table passes verification; at `finalize`
  and `reswap` the live table is the run's.
- `NewestExists`, `VersionChain`, `VerifiedIsRecorded`: `latest_version` is well
  defined and `Finalize`, which compares with it again in its transaction, extends the
  chain at its end.
- `CleanupIsDue`: a processor in a cleanup has a recorded run, or one with a newer
  version; SUPERSEDED implies a newer version. This is what the cleanup routines, which
  take no lock, rely on: records are never taken back.

`Refinement` uses the invariant at `Rename` (what is served afterwards is
complete and not corrupt) and at `Finalize` (what is recorded is being served and
newer than everything recorded).

### The delivery of a run

`SourceDeliveryProofs` proves, for every number of chunks and attempts, every backlog
limit, every bound on failures and failures at any set of statements, from
`DeliveryAssumption` (types of the constants):

| Theorem | States |
|---|---|
| `Invariance` | `Spec => []InductiveInvariant` |
| `TypeCorrect` | `Spec => []TypeOK` |
| `UnconfirmedIsKept` | `Spec => []KeptUntilConfirmed` |
| `OnePut` | `Spec => []OnePutAtATime` |
| `SpoolBound` | `Spec => []SpoolIsBounded` |
| `ManifestComesLast` | `Spec => []CommittedIsComplete` |
| `DeliveredWasConfirmed` | `Spec => []DeliveredIsConfirmed` |
| `Refinement` | `Spec => ImplementsTransfer` |
| `JoinServed` | `Spec => []JoinIsServed` |
| `StepsRunOut` | `Spec => [](Rank \in Nat) /\ [][Rank' < Rank]_vars` |

`CommittedIsComplete` and `DeliveredIsConfirmed` are about runs whose upload thread did
not die outside its error handling; for the others they are false (6.2).
`CommittedIsComplete` is about a PUT by the main thread and facts the upload thread
established long before, so the invariant follows a chunk all the way:

- `InOrder`: the queue is increasing, the end marker is its last element and there only
  once the scan is over, and a thread that has ended has emptied it. `Turns`: past
  `Join` the upload thread is gone, so no upload of it is under way.
- `Accounted`: as long as no error is recorded, every closed chunk is confirmed, in the
  queue, or in the upload thread's hands. This is where a silent death of the thread
  breaks the argument. With the two parts above it gives, at `Decide`, that every chunk
  is confirmed, which `Committed` carries up to the manifest.
- `Confirmed`: what is recorded UPLOADED is at the relay; what was not taken from the
  queue is still PENDING and on disk. `Counted`: the pending account covers the recorded
  chunk files on disk; it gives the bound of the spool and that the account never goes
  below zero. `FailsOnce`: what a failing run was before it failed.

The last two are what `SyncEnds` rests on. `JoinServed`: while `sync()` waits in `join`, its
upload thread has ended, or is there and has the end marker in front of it, as the last
item of the queue, whatever ended the scan. `StepsRunOut`: every step of either thread lowers
a natural number, so there is no endless run of retries, failures or items. `Rank` counts,
with weights that make each smaller than the one before, the places `sync()` has still to
pass, the chunks to come, the items in the queue, and the steps left of an upload at its
attempt. What remains to TLC is that a step is possible and, by fairness, taken.

### Cycles

`SourceCycleProofs` proves, for every set of tables, sequence of captured tables, number
of commands, cycles, kills, failures and abandonments, from `CycleAssumption`:

| Theorem | States |
|---|---|
| `Invariance` | `Spec => []InductiveInvariant` |
| `TypeCorrect` | `Spec => []TypeOK` |
| `CompletedWasDelivered` | `Spec => []CompletedIsDelivered` |
| `TableRowsAgree` | `Spec => []TableShowsLastRun` |
| `FilesStay` | `Spec => FilesAreKept` |
| `Refinement` | `Spec => ImplementsCycle` |

- `OwnRuns`: a live sync has a run of its table, and no two have the same. A step of one
  process therefore changes no other process's row, except through recovery.
- `SyncPoint`, `WorkerPoint`: what a sync has done at its last statements, and that a
  result `delivered` in the worker's hands is a delivered run at the relay. This is what
  `deliver_cycle_table` relies on, one statement after the sync returned.
- `OnlyLastOpen`, `InOrder`: one open cycle, the last; its delivered tables are a
  beginning of the captured ones, and the worker is at the next. From this the
  refinement: the step that delivers is `DeliverNext`, every other one stutters.
- `DeliveredIsReal`, `CompletedIsAll`, `RunsOfCycles`: the run that a cycle names for a
  delivered table is over, so no live sync and no recovery touches it again; the worker's
  run is named by no cycle yet, so no two cycles count the same.
- `TableRows` (with `Shown`): what a table's row may show of the run that a live sync
  produces, point by point, including what recovery wrote in between.
- `Undisturbed`: until somebody is killed, a recovery finds nothing to do and no live run is
  FAILED. It is why `FilesAreKept` holds then, and only then (6.10).

### The monitor

`MonitorReportsProofs`, for every number of runs and reports, page size, window and time,
from `ReportsAssumption`:

| Theorem | States |
|---|---|
| `Invariance` | `Spec => []IInv` |
| `TypeCorrect` | `Spec => []TypeOK` |
| `RotationIsFair` | `Spec => []RotationVisitsAll` |
| `RowsGoBackOnlyWithinSkew` | `Spec => GoesBackOnlyWithinSkew` |
| `ConflictsComeFromSource` | `Spec => []ConflictsAreReal` |
| `ProgressGoesOn` | `Spec => ProgressNeverBack` |

`CursorInv` bounds, for each run, the pages since it was passed by the distance of the
cursor from it, which gives the rotation. `ReportInv` and `OrderInv` say that a report was
true when captured and that of two reports the later one says something later. `RowInv`
ties a row to a report that was captured no later than the row's own time, so that a
report with a later time is a later report, and that time to the moment it was received, by
`Future` and nothing else: the proof relates the two clocks in no other way. `ForgottenInv`
is what retention leaves behind: when a run does not show the latest status ever shown of it,
every report that says something earlier than that was captured before
`clock - History + Future`. `StageInv` ties merged progress to a report.

`MonitorIngestProofs`, for every set of files, batch size, number of redeliveries, kills
and failures, from `IngestAssumption`:

| Theorem | States |
|---|---|
| `Invariance` | `Spec => []IInv` |
| `TypeCorrect` | `Spec => []TypeOK` |
| `NothingIsLost` | `Spec => []NoReportLost` |

`PartInv` says that until a file was whole there is at most one copy of it, and afterwards no
half-written one, so what `Remove` compares by identity is what was read; `JobInv` that
what is in hand for removal was committed or is really outside the window.

`MonitorAlertsProofs`, for every set of runs, thresholds and limits, page size, clock and
number of events and troubles, from `AlertsAssumption`, which says besides the types that
an incoming run is not the name of a rule (a fingerprint is a digest of rule and object, so
alerts of different rules are different rows):

| Theorem | States |
|---|---|
| `Invariance` | `Spec => []Inv` |
| `TypeCorrect` | `Spec => []TypeOK` |
| `Agreement` | `Spec => AlertsAgree` |
| `Closing` | `Spec => ClosedByEvidence` |

`AlertsAgree` is about the step that evaluates a family, but whether `apply()` may suppress a
decision depends on what an alert remembers of evidence many rounds ago. `AlertInv` says how
the two compare: no alert is ahead of the evidence its rule looks at, and one that is level
with it agrees with it, up to samples of one second (`Tied`). For the heartbeat rule, whose
evidence is the absence of a sample, `HeartbeatInv` says that an open alert about the second of
the latest sample means that this sample is overdue, whichever sample of that second came last
and however late: nothing is assumed of how old a sample is when it arrives.
`RoundInv` keeps the rules of a round the ones it began with; `EvidenceInv` bounds times by
the clock. The outcome lemmas (`HeartbeatOutcome`, `WorkerOutcome`, `FreshnessOutcome`,
`RunRuleOutcome`) say what one evaluation leaves, and both theorems are read off from them.

### The content of a run

`SnapshotContentProofs`, for every set of rows, sizes and hashes, chunk limits, batch size,
table and number of troubles, from `ContentAssumption` (types of the constants):

| Theorem | States |
|---|---|
| `DigestIgnoresOrder` | tables with the same rows, each as often, have the same `Summary` |
| `ScanInvariance` | `Spec => []ScanInv` |
| `ChunksRight` | `Spec => []ChunksHoldTheScan` |
| `Invariance` | `Spec => []Inv` |
| `DigestsMatch` | `Spec => [](status = "VERIFIED" => Summary(staging) = Summary(scanned))` |
| `VerifiedRight` | `ASSUME DigestTellsApart PROVE Spec => []VerifiedIsScanned` |
| `FaithfulRunsVerify` | `Spec /\ [][~RowAltered]_vars => [](status # "MISMATCH" /\ (status = "VERIFIED" => staging = scanned))` |

Only `VerifiedRight` has a hypothesis about the hashes, and only `FaithfulRunsVerify` one about
the database: that no batch is stored as other rows than it was given. Then no run ends in
MISMATCH, and what verifies is the scan in its order: a mismatch is never the doing of the
transport, of a crash, or of the importer's resumption.

`ScanInv` says that closed chunks and the open one join to the rows scanned, that each chunk
is cut where `Full` says (only the last of a scan that ended, finished or aborted, may be
less than full), that the digest is
the `Summary` of the rows, and that the manifest of a finished scan is that scan.
`DirectoryInv` says that a file in the incoming directory is of a chunk that was closed and
has at most its rows, and that a manifest is announced only once the scan has finished.
`ProcessorInv` says that the processor works only on what was announced, and that VERIFIED is
given to equal digests. `FaithfulInv` adds, for an unaltered
import, that the staging table is a beginning of the chunks, in order, and the decoded rows
a beginning of the next.

Chunks and digests are folds (`FoldLeft`, `FlattenSeq`), which the community modules define by
CHOOSE over functions on sets. `FoldLemmas` proves that the function a fold chooses exists
(`FoldingFunction`) and follows the sequence from its beginning; `SummaryOfAppend`,
`FlattenOfAppend` and their like are all that the invariants need of them. Induction is over
sets of natural numbers (`NaturalInduction`, from the well-foundedness of `<`), since the
library's induction theorems take an operator as parameter. `DigestIgnoresOrder` is an
induction over the length of the table, in which a row that occurs may be taken for the
last one (`Extract`), because additions modulo any number commute.

### Only model-checked

The liveness properties (`EventuallySettled`, `EventuallyCleanedUp`,
`BackupEventuallyDropped`, `SyncEnds`, `CycleCompletes`, `EventuallyTaken`,
`StaleEventuallyCloses`): fairness and ENABLED are outside the prover's reach. For `SyncEnds`
the part that is safety is proved (`JoinServed`, `StepsRunOut`). No module declares
RECURSIVE operators.

## 6. Where code and documentation disagree

The first three are runs. The counterexamples of the others were met with the same models,
and the models keep the behaviour, but no property is stated that they violate; 11 to 13
were met while reading.

1. `destination_late_older_run` (`LiveNeverRegresses`). Ordering looks at
   `table_versions` only. When a processor dies between RENAME and
   `finalize_verified` of a newer run, a late older run is promoted over it. If then
   the older run is finalized first, the newer run's content is dropped as its backup
   and the newer run can never be settled: its re-verification reads the wrong table.
   `EventuallySettled` excludes exactly the runs this happened to (`Overtaken`).
2. `delivery_thread_dies` (`ManifestIsLast`). A SQLite error at the start of the upload
   thread, or inside its error handler, ends the thread without `set_fatal`; `join`
   returns and schema and manifest are uploaded without the chunks. The destination
   refuses such a run because its files are missing, but the source calls it DELIVERED.
3. `cycle_killed_command` (`CycleCompletes`). A killed `source sync` leaves an active
   run that `begin_run` refuses for ever and that recovery, which looks at cycle tables
   in RUNNING only, never ends. A sync that raises outside its `try`
   (`delivery.py:110`, `212`) does the same to its own table.
4. With a second crash between `record_verification` and `prepare_swapping` of a
   recovery (`processor.py:451`) the run is STAGED without a staging table, which every
   later attempt fails. `destination_settles` therefore has one crash.
5. A run superseded in its recovery after it had been swapped in leaves its backup table
   behind: `_cleanup_superseded` does not drop it.
6. A statement that fails while a cleanup is recorded turns VERIFIED into FAILED
   (`processor.py:531`), and one that fails in `_cleanup_delivered_run` turns DELIVERED
   into FAILED (`delivery.py:354`), where the README says that success is never taken
   back. `SnapshotTransfer` has a `Retract` for the second.
7. The backup is dropped before the incoming files, not last as README.md:205-206 says.
8. When the answer to the manifest's PUT is lost, the retry's 409 makes the run FAILED
   although the destination sees it; technical-design.md:348-349 says that a failed run
   has no manifest. `SnapshotTransfer` therefore allows giving up a run that arrived.
9. `complete_run` sets SNAPSHOT_READY, which is not an active status, in the middle of a
   delivery: for one statement another process may begin a run of the same table.
10. Recovery fails every active run of an interrupted table, also one that a command
    is still producing; that command later overwrites FAILED, or its files are removed
    by maintenance. `FilesAreKept` is therefore stated for `crashes = 0`.
11. Of two samples of one second the one with the greater hash becomes the latest. If the
    first one has proved a recovery, `apply` suppresses what the second one says, although
    it is other evidence and docs/monitoring-m4.md:18 says only that an old replay cannot
    reopen. `AlertsAgree` has this exception (`Tied`).
12. `cleanup_orphan_artifacts` lists manifests, asks for active runs and then removes
    files one by one, so a manifest that arrives in between loses files, where its
    docstring (`worker.py:26`) says that only artifacts without a manifest are deleted.
    `VerifiedIsScanned` shows that no wrong data comes of it; the run must be sent again.
13. The `Recorder` of a run reads the progress file before the run lock is taken
    (`processor.py:122`, `134`). A processor that gets the lock just after another one
    wrote its last samples goes on from a stale file, in the same generation, and writes
    it back over them, where docs/monitoring-m6.md:17 says that the COMPLETE of an earlier
    attempt stays. Only what the monitor shows is affected.
14. docs/monitoring-m5.md:34 says that an older capture cannot regress the status. A row that
    was captured ahead of the destination's clock (up to `future_seconds`, `store.py:158`) is
    forgotten `history_days` after its receipt (`store.py:283-288`). For up to
    `future_seconds` after that, a delayed report captured before it is still accepted and
    creates the row again with an earlier status. `GoesBackOnlyWithinSkew` allows this and
    nothing else; `future_seconds = 0` excludes it.

Two runs of one table of the same second are ambiguous to the destination: it refuses the
second on every attempt. `EventuallySettled` is checked for runs of different seconds; the
proofs of the safety properties cover ties.

## 7. Not modelled

- Rewriting of `CREATE TABLE` text, row encodings, file and transport names,
  configuration, logging, argument handling and output of the command line, the timeline
  and web application of the monitor, the statistics of the destination, the deployment
  scripts: data or presentation without state of their own. Statistics are computed from
  the version history, of which `VersionChain` is proved.
- The source's MySQL connection: its failures are the failing scans of `SourceDelivery`
  and `SnapshotContent`.
- Of the monitor: collecting telemetry of host, disks and worker; validation of a report's
  fields; quarantine files and retention of samples; the alert rules for source disks,
  runs, cycles and versions and for the destination's worker and disks; acknowledging
  alerts, which changes no other state.
- Schema creation and migration of the two SQLite databases and of the metadata tables.
- Parts of the monitor that the models abstract: facts that the 64 KiB of a report have no
  room for are passed by the cursor, so `RotationVisitsAll` counts passes of the cursor, not
  facts sent; content receipts never expire, which is sound because a report's receipt
  outlives its window (`dedup_days` exceeds `history_days` by at least a day,
  `future_seconds` is an hour at most: `models.py:226-238`); the nodes, versions
  and runs that a family evaluates are one each, where the code reads them behind a cursor
  in pages of 1000.
- An `OSError` at a PUT, say a file that cannot be opened, ends the upload like a refusal but
  leaves the record of the artifact UPLOADING instead of FAILED. `SourceDelivery` has this
  outcome for failing statements only; what decides anything is whether a record is UPLOADED.
- Time: `created_at` is an arbitrary function of runs, due times are "later", poll
  intervals and back-off delays do not appear. The monitor's windows and thresholds
  are counted in abstract units; neither the source's clock nor the destination's is set
  back.
- Disk contents altered by the file system; the atomic-write helper is taken
  as atomic.

## 8. What could come next

Everything planned at first is there: destination, delivery, cycles, the content of a run,
and the monitor's reports, ingest, progress and alerts. What is worth adding:

1. One module that composes `MonitorIngest` and `MonitorReports` by INSTANCE, instead of
   their common interface, a committed report; and one that composes the two sides of a run,
   with `SnapshotTransfer` as the destination's environment.
2. Ranks like the one of `StepsRunOut` for the other liveness properties, at least for the
   processor between a start and its way out and for a round of the monitor.
3. The destination's own alert rules and the acknowledgement of alerts, if they get
   conditions on each other; the clock of the source, if the order of `created_at` and
   `run_id` begins to matter on the destination.
