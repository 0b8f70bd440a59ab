------------------------ MODULE DestinationProcessor ------------------------
(***************************************************************************)
(* The destination side of a synchronisation: processes that take a run    *)
(* (one full snapshot of one table: a manifest and its data files) from    *)
(* the incoming directory and turn it into the live table of a MySQL       *)
(* database.                                                               *)
(*                                                                         *)
(* A processor is one MySQL session executing DestinationProcessor.process *)
(* (destination/processor.py); its control point pc[p] is the next SQL     *)
(* statement or file operation it executes, so that several processors     *)
(* (the worker and manual `destination process`) interleave between any    *)
(* two statements and a crash may fall between any two of them.            *)
(* Incoming files, metadata and tables survive a crash; the advisory       *)
(* locks and everything a processor remembers do not.                      *)
(***************************************************************************)
EXTENDS Naturals, FiniteSets

CONSTANTS
  Procs,        \* MySQL sessions running a processor
  Runs,         \* run identifiers
  Tables,       \* source tables, each replicated to the table of its name
  NumChunks,    \* data chunks of a run (0: an empty table)
  TableOf,      \* [Runs -> Tables]: manifest.source.table
  CreatedAt,    \* [Runs -> Nat]: manifest.created_at, in seconds
  Corrupt,      \* runs whose rows read back from MySQL differ from the manifest's digest
  PreExisting,  \* tables the target database holds before the first run
  NestedLocks,  \* TRUE: GET_LOCK keeps the session's other locks (MySQL >= 5.7)
  MaxCrashes,   \* bound on processor crashes
  MaxFaults,    \* bound on statements and unlinks that fail in a live session
  MaxRedeliveries, \* bound on complete repetitions of a run's transfer
  None

ASSUME DestinationAssumption ==
  /\ NumChunks \in Nat
  /\ TableOf \in [Runs -> Tables]
  /\ CreatedAt \in [Runs -> Nat]
  /\ Corrupt \subseteq Runs
  /\ PreExisting \subseteq Tables
  /\ NestedLocks \in BOOLEAN
  /\ MaxCrashes \in Nat /\ MaxFaults \in Nat /\ MaxRedeliveries \in Nat
  /\ None \notin Procs \cup Runs

VARIABLES
  incoming,        \* [Runs -> files present in the incoming directory]
  sent,            \* [Runs -> files the transfer has delivered so far]
  status,          \* runs.status, "ABSENT" before the row exists
  target_existed,  \* runs.target_existed/backup_table: "unset", "fresh" or "replace"
  backup_done,     \* runs.backup_cleanup_completed_at is set
  incoming_done,   \* runs.incoming_cleanup_completed_at is set
  chunk,           \* chunks.status
  versions,        \* run_id column of table_versions
  previous,        \* table_versions.previous_run_id
  staging,         \* [Runs -> content of the run's staging table, None if absent]
  live,            \* [Tables -> content of the target table, None if absent]
  backup,          \* [Runs -> content of the run's backup table, None if absent]
  runLock,         \* [Runs -> session holding the run's advisory lock]
  tableLock,       \* [Tables -> session holding the table's advisory lock]
  pc, cur,         \* control point and run of each processor
  known,           \* the run had metadata when the lock was taken (existing is not None)
  latest,          \* ordering.latest remembered until finalize
  at,              \* chunk about to be imported (0: none)
  todo,            \* cleanups the run record, as read, says are outstanding
  failed,          \* the cleanup in progress raised and will be recorded as an error
  crashes, faults, redeliveries  \* counters of the bounded environment

files == <<incoming, sent, redeliveries>>
failures == <<crashes, faults>>
env == <<files, failures>>
cleanup == <<backup_done, incoming_done>>
history == <<versions, previous>>
tables == <<staging, live, backup>>
metadata == <<status, target_existed, cleanup, chunk, history>>
locks == <<runLock, tableLock>>
local == <<cur, known, latest, at, todo, failed>>
vars == <<env, metadata, tables, locks, pc, local>>

Files == {"manifest", "data"}
Chunks == 1..NumChunks
Statuses == {"ABSENT", "VALIDATED", "IMPORTING", "STAGED", "VERIFYING", "SWAPPING",
             "VERIFIED", "MISMATCH", "SUPERSEDED", "FAILED"}

\* Control points up to and including the transaction that records the run ...
WorkPoints == {"register", "stage", "begin_import", "import", "import_chunk", "set_verifying",
               "verify", "order", "promote", "rename", "finalize", "recover",
               "reverify", "reswap"}
\* ... and those of the two cleanup routines, which also run without any lock.
CleanupPoints == {"backup", "drop_backup", "record_backup", "staging", "drop_staging",
                  "manifest", "rest", "record_incoming"}
PCs == {"idle", "run_lock", "table_lock", "unlock"} \cup WorkPoints \cup CleanupPoints

\* A table holds rows of one run, each chunk some number of times; the run of a
\* table that was there before the first run is None.
Contents == [run : Runs \cup {None}, rows : [Chunks -> Nat]]
Rows(n) == [c \in Chunks |-> n]
ForeignTable == [run |-> None, rows |-> Rows(1)]
EmptyStaging(r) == [run |-> r, rows |-> Rows(0)]

\* The digest and row count of a table's content equal the manifest's of run r.
\* (Definitions named X_Y are faulty variants of X for the mutation runs.)
MatchesManifest_NoDigest(content, r) == content.run = r /\ content.rows = Rows(1)
MatchesManifest(content, r) == content.run = r /\ content.rows = Rows(1) /\ r \notin Corrupt

SameTable(r) == {v \in versions : TableOf[v] = TableOf[r]}
\* latest_version: ORDER BY source_created_at DESC LIMIT 1 (no two versions of a
\* table have the same time, see VersionChain).
LatestVersion(r) ==
  IF SameTable(r) = {} THEN None
  ELSE CHOOSE v \in SameTable(r) : \A w \in SameTable(r) : CreatedAt[w] <= CreatedAt[v]

IsOlder_Never(r, last) == FALSE
IsOlder(r, last) == last \notin {None, r} /\ CreatedAt[r] < CreatedAt[last]
IsAmbiguous(r, last) == last \notin {None, r} /\ CreatedAt[r] = CreatedAt[last]

Holds(p) == cur[p] # None /\ tableLock[TableOf[cur[p]]] = p

-----------------------------------------------------------------------------
Init ==
  /\ incoming = [r \in Runs |-> {}]
  /\ sent = [r \in Runs |-> {}]
  /\ redeliveries = 0
  /\ status = [r \in Runs |-> "ABSENT"]
  /\ target_existed = [r \in Runs |-> "unset"]
  /\ backup_done = [r \in Runs |-> FALSE]
  /\ incoming_done = [r \in Runs |-> FALSE]
  /\ chunk = [r \in Runs |-> [c \in Chunks |-> "PENDING"]]
  /\ versions = {}
  /\ previous = [r \in Runs |-> None]
  /\ staging = [r \in Runs |-> None]
  /\ live = [t \in Tables |-> IF t \in PreExisting THEN ForeignTable ELSE None]
  /\ backup = [r \in Runs |-> None]
  /\ runLock = [r \in Runs |-> None]
  /\ tableLock = [t \in Tables |-> None]
  /\ pc = [p \in Procs |-> "idle"]
  /\ cur = [p \in Procs |-> None]
  /\ known = [p \in Procs |-> FALSE]
  /\ latest = [p \in Procs |-> None]
  /\ at = [p \in Procs |-> 0]
  /\ todo = [p \in Procs |-> {}]
  /\ failed = [p \in Procs |-> FALSE]
  /\ crashes = 0
  /\ faults = 0

Goto(p, point) == pc' = [pc EXCEPT ![p] = point]
SetStatus(r, s) == status' = [status EXCEPT ![r] = s]

Released_Leaked(holder, p) == holder
Released(holder, p) == IF holder = p THEN None ELSE holder

\* What a processor forgets and releases when it leaves process(): the locks it
\* holds (RELEASE_LOCK, or the end of its session) and its local state.
Leave(p) ==
  /\ runLock' = [r \in Runs |-> Released(runLock[r], p)]
  /\ tableLock' = [t \in Tables |-> Released(tableLock[t], p)]
  /\ Goto(p, "idle")
  /\ cur' = [cur EXCEPT ![p] = None]
  /\ known' = [known EXCEPT ![p] = FALSE]
  /\ latest' = [latest EXCEPT ![p] = None]
  /\ at' = [at EXCEPT ![p] = 0]
  /\ todo' = [todo EXCEPT ![p] = {}]
  /\ failed' = [failed EXCEPT ![p] = FALSE]

\* process(): except -> fail_run (which spares SWAPPING) -> finally release.
\* Leaves status and pc primed.
FailRun(p) ==
  /\ SetStatus(cur[p], IF status[cur[p]] = "SWAPPING" THEN "SWAPPING" ELSE "FAILED")
  /\ Goto(p, "unlock")

\* Cleanups that the record of run r, read now, shows as outstanding.
VerifiedTodo_NoBackup(r) == IF incoming_done[r] THEN {} ELSE {"incoming"}
VerifiedTodo(r) == (IF backup_done[r] THEN {} ELSE {"backup"})
                     \cup (IF incoming_done[r] THEN {} ELSE {"incoming"})
SupersededTodo(r) == IF incoming_done[r] THEN {} ELSE {"staging", "incoming"}

\* Entry of _retry_cleanup and _cleanup_superseded.
EnterVerifiedCleanup(p, r) ==
  /\ todo' = [todo EXCEPT ![p] = VerifiedTodo(r)]
  /\ Goto(p, "backup")
EnterSupersededCleanup(p, r) ==
  /\ todo' = [todo EXCEPT ![p] = SupersededTodo(r)]
  /\ Goto(p, IF incoming_done[r] THEN "unlock" ELSE "staging")

-----------------------------------------------------------------------------
(* The transfer into the incoming directory: files appear complete, in any  *)
(* order, and a finished transfer may be repeated.                           *)
Deliver(r, f) ==
  /\ f \notin sent[r]
  /\ sent' = [sent EXCEPT ![r] = @ \cup {f}]
  /\ incoming' = [incoming EXCEPT ![r] = @ \cup {f}]
  /\ UNCHANGED <<redeliveries, metadata, tables, locks, pc, local, failures>>

Redeliver(r) ==
  /\ sent[r] = Files
  /\ redeliveries < MaxRedeliveries
  /\ redeliveries' = redeliveries + 1
  /\ incoming' = [incoming EXCEPT ![r] = Files]
  /\ UNCHANGED <<sent, metadata, tables, locks, pc, local, failures>>

-----------------------------------------------------------------------------
(* process(): entry and locks                                                *)

\* The candidates of one poll: runs whose manifest is present and runs whose
\* metadata says a cleanup is pending.
Discovered(r) == "manifest" \in incoming[r]
CleanupPending_NotSuperseded(r) == status[r] = "VERIFIED" /\ ~(incoming_done[r] /\ backup_done[r])
CleanupPending(r) ==
  \/ status[r] = "VERIFIED" /\ ~(incoming_done[r] /\ backup_done[r])
  \/ status[r] = "SUPERSEDED" /\ ~incoming_done[r]

\* A run that is already VERIFIED or SUPERSEDED is only cleaned up, unlocked.
StartCleanup(p, r) ==
  /\ pc[p] = "idle"
  /\ Discovered(r) \/ CleanupPending(r)
  /\ cur' = [cur EXCEPT ![p] = r]
  /\ \/ /\ status[r] = "VERIFIED"
        /\ EnterVerifiedCleanup(p, r)
     \/ /\ status[r] = "SUPERSEDED"
        /\ EnterSupersededCleanup(p, r)
  /\ UNCHANGED <<env, metadata, tables, locks, known, latest, at, failed>>

\* validate_run: every declared file is there and complete; otherwise the result
\* is INCOMPLETE and nothing changes.
StartRun(p, r) ==
  /\ pc[p] = "idle"
  /\ Discovered(r)
  /\ status[r] \notin {"VERIFIED", "SUPERSEDED"}
  /\ incoming[r] = Files
  /\ cur' = [cur EXCEPT ![p] = r]
  /\ Goto(p, "run_lock")
  /\ UNCHANGED <<env, metadata, tables, locks, known, latest, at, todo, failed>>

\* GET_LOCK(name, 0): taken, or BUSY at once.
LockFree_Ignored(holder) == TRUE
LockFree(holder) == holder = None

AcquireRunLock(p) ==
  /\ pc[p] = "run_lock"
  /\ \/ /\ LockFree(runLock[cur[p]])
        /\ runLock' = [runLock EXCEPT ![cur[p]] = p]
        /\ Goto(p, "table_lock")
     \/ /\ ~LockFree(runLock[cur[p]])
        /\ Goto(p, "unlock")
        /\ UNCHANGED runLock
  /\ UNCHANGED <<env, metadata, tables, tableLock, local>>

\* Before MySQL 5.7 a second GET_LOCK gives up the session's first lock.
AcquireTableLock(p) ==
  LET r == cur[p]
      t == TableOf[r] IN
  /\ pc[p] = "table_lock"
  /\ runLock' = IF NestedLocks THEN runLock ELSE [runLock EXCEPT ![r] = None]
  /\ \/ /\ LockFree(tableLock[t])
        /\ tableLock' = [tableLock EXCEPT ![t] = p]
        /\ Goto(p, "register")
     \/ /\ ~LockFree(tableLock[t])
        /\ Goto(p, "unlock")
        /\ UNCHANGED tableLock
  /\ UNCHANGED <<env, metadata, tables, local>>

\* The finally clause, and every return without locks.
Unlock(p) ==
  /\ pc[p] = "unlock"
  /\ Leave(p)
  /\ UNCHANGED <<env, metadata, tables>>

-----------------------------------------------------------------------------
(* _process_locked: register and dispatch on the run's status                *)

\* register_validated_run inserts the run and its chunks in one transaction, or
\* finds them; then the run's status decides where processing resumes.
Dispatch(p, r, s) ==
  \/ /\ s = "VERIFIED"
     /\ EnterVerifiedCleanup(p, r)
     /\ UNCHANGED status
  \/ /\ s \in {"MISMATCH", "SUPERSEDED"}
     /\ Goto(p, "unlock")
     /\ UNCHANGED <<status, todo>>
  \/ /\ s = "SWAPPING"
     /\ Goto(p, "recover")
     /\ UNCHANGED <<status, todo>>
  \/ /\ s \in {"STAGED", "VERIFYING"}
     /\ staging[r] = None
     /\ FailRun(p)
     /\ UNCHANGED todo
  \/ /\ s \in {"STAGED", "VERIFYING"}
     /\ staging[r] # None
     /\ Goto(p, "set_verifying")
     /\ UNCHANGED <<status, todo>>
  \/ /\ s \in {"VALIDATED", "IMPORTING", "FAILED"}
     /\ Goto(p, "stage")
     /\ UNCHANGED <<status, todo>>
  \/ /\ s = "ABSENT"
     /\ Goto(p, "stage")
     /\ SetStatus(r, "VALIDATED")
     /\ UNCHANGED todo

Register(p) ==
  LET r == cur[p] IN
  /\ pc[p] = "register"
  /\ known' = [known EXCEPT ![p] = status[r] # "ABSENT"]
  /\ Dispatch(p, r, status[r])
  /\ UNCHANGED <<env, target_existed, cleanup, chunk, history, tables, locks, cur, latest, at, failed>>

-----------------------------------------------------------------------------
(* _stage: the staging table and its chunks                                  *)

\* A staging table without metadata, or imported chunks without staging table.
StagingMismatch(p, r) ==
  IF staging[r] # None THEN ~known[p]
                       ELSE known[p] /\ \E c \in Chunks : chunk[r][c] = "IMPORTED"

Stage(p) ==
  LET r == cur[p] IN
  /\ pc[p] = "stage"
  /\ IF StagingMismatch(p, r)
       THEN FailRun(p) /\ UNCHANGED staging
       ELSE /\ staging' = [staging EXCEPT ![r] = IF @ = None THEN EmptyStaging(r) ELSE @]
            /\ Goto(p, "begin_import")
            /\ UNCHANGED status
  /\ UNCHANGED <<env, target_existed, cleanup, chunk, history, live, backup, locks, local>>

BeginImport(p) ==
  /\ pc[p] = "begin_import"
  /\ SetStatus(cur[p], "IMPORTING")
  /\ Goto(p, "import")
  /\ UNCHANGED <<env, target_existed, cleanup, chunk, history, tables, locks, local>>

\* The loop over the manifest's chunks skips those already IMPORTED ...
Remaining_Restart(r) == Chunks
Remaining(r) == {c \in Chunks : chunk[r][c] # "IMPORTED"}

PickChunk(p) ==
  /\ pc[p] = "import"
  /\ \E c \in Remaining(cur[p]) :
       /\ \A d \in Remaining(cur[p]) : c <= d
       /\ at' = [at EXCEPT ![p] = c]
  /\ Goto(p, "import_chunk")
  /\ UNCHANGED <<env, metadata, tables, locks, cur, known, latest, todo, failed>>

\* ... and inserts a chunk's rows and its IMPORTED mark in one transaction. (The
\* staging table is there: cleanups drop only those whose chunks are all IMPORTED.)
InsertRows(content, c) == [content EXCEPT !.rows[c] = @ + 1]

ImportChunk(p) ==
  LET r == cur[p] IN
  /\ pc[p] = "import_chunk"
  /\ staging[r] # None
  /\ staging' = [staging EXCEPT ![r] = InsertRows(@, at[p])]
  /\ chunk' = [chunk EXCEPT ![r][at[p]] = "IMPORTED"]
  /\ Goto(p, "import")
  /\ UNCHANGED <<env, status, target_existed, cleanup, history, live, backup, locks, local>>

\* The transaction of a chunk fails and is rolled back; fail_chunk marks the
\* chunk in a transaction of its own and the run fails.
ChunkFails(p) ==
  LET r == cur[p] IN
  /\ pc[p] = "import_chunk"
  /\ faults < MaxFaults
  /\ faults' = faults + 1
  /\ chunk' = [chunk EXCEPT ![r][at[p]] = "FAILED"]
  /\ FailRun(p)
  /\ UNCHANGED <<files, crashes, target_existed, cleanup, history, tables, locks, local>>

\* complete_staged: every chunk is IMPORTED.
CompleteStaged(p) ==
  /\ pc[p] = "import"
  /\ Remaining(cur[p]) = {}
  /\ SetStatus(cur[p], "STAGED")
  /\ Goto(p, "set_verifying")
  /\ UNCHANGED <<env, target_existed, cleanup, chunk, history, tables, locks, local>>

-----------------------------------------------------------------------------
(* _verify, _matches and _ordering                                           *)

SetVerifying(p) ==
  /\ pc[p] = "set_verifying"
  /\ SetStatus(cur[p], "VERIFYING")
  /\ Goto(p, "verify")
  /\ UNCHANGED <<env, target_existed, cleanup, chunk, history, tables, locks, local>>

Verify(p) ==
  LET r == cur[p] IN
  /\ pc[p] = "verify"
  /\ IF staging[r] = None THEN FailRun(p)
     ELSE IF MatchesManifest(staging[r], r) THEN SetStatus(r, "STAGED") /\ Goto(p, "order")
     ELSE SetStatus(r, "MISMATCH") /\ Goto(p, "unlock")
  /\ UNCHANGED <<env, target_existed, cleanup, chunk, history, tables, locks, local>>

\* _ordering and what follows it: an older run is superseded and cleaned up, an
\* equally old one is an error, any other goes on at point next.
Order(p, r, next) ==
  LET last == LatestVersion(r) IN
  IF IsOlder(r, last)
    THEN SetStatus(r, "SUPERSEDED") /\ EnterSupersededCleanup(p, r) /\ UNCHANGED latest
  ELSE IF IsAmbiguous(r, last)
    THEN FailRun(p) /\ UNCHANGED <<todo, latest>>
  ELSE Goto(p, next) /\ latest' = [latest EXCEPT ![p] = last] /\ UNCHANGED <<status, todo>>

OrderStaged(p) ==
  /\ pc[p] = "order"
  /\ Order(p, cur[p], "promote")
  /\ UNCHANGED <<env, target_existed, cleanup, chunk, history, tables, locks, cur, known, at, failed>>

-----------------------------------------------------------------------------
(* _promote: intent, one RENAME TABLE, and the recording transaction         *)

SwapKind_ObjectType(t) == IF live[t] = None THEN "fresh" ELSE "BASE TABLE"
SwapKind(t) == IF live[t] = None THEN "fresh" ELSE "replace"

PrepareSwapping(p) ==
  LET r == cur[p] IN
  /\ pc[p] = "promote"
  /\ IF live[TableOf[r]] # None /\ backup[r] # None
       THEN FailRun(p) /\ UNCHANGED target_existed
       ELSE /\ SetStatus(r, "SWAPPING")
            /\ target_existed' = [target_existed EXCEPT ![r] = SwapKind(TableOf[r])]
            /\ Goto(p, "rename")
  /\ UNCHANGED <<env, cleanup, chunk, history, tables, locks, local>>

\* RENAME TABLE live TO backup, staging TO live is atomic; it fails as a whole
\* when a source is missing or a target exists.
Renamable(r) ==
  /\ staging[r] # None
  /\ IF target_existed[r] = "replace" THEN live[TableOf[r]] # None /\ backup[r] = None
                                      ELSE live[TableOf[r]] = None

Rename(p) ==
  LET r == cur[p]
      t == TableOf[r] IN
  /\ pc[p] = "rename"
  /\ IF Renamable(r)
       THEN /\ live' = [live EXCEPT ![t] = staging[r]]
            /\ backup' = IF live[t] = None THEN backup ELSE [backup EXCEPT ![r] = live[t]]
            /\ staging' = [staging EXCEPT ![r] = None]
            /\ Goto(p, "finalize")
            /\ UNCHANGED status
       ELSE FailRun(p) /\ UNCHANGED tables
  /\ UNCHANGED <<env, target_existed, cleanup, chunk, history, locks, local>>

\* The row inserted into table_versions.
VersionsWith_Lost(r) == versions
VersionsWith(r) == versions \cup {r}

\* finalize_verified refuses when the latest version is not the one the ordering
\* was decided against, or is not older than the run.
FinalizeConflict(p, r) ==
  LET last == LatestVersion(r) IN
  last # latest[p] \/ IsOlder(r, last) \/ IsAmbiguous(r, last)

Finalize(p) ==
  LET r == cur[p] IN
  /\ pc[p] = "finalize"
  /\ IF LatestVersion(r) # r /\ FinalizeConflict(p, r)
       THEN FailRun(p) /\ UNCHANGED <<history, todo>>
       ELSE /\ SetStatus(r, "VERIFIED")
            /\ versions' = VersionsWith(r)
            /\ previous' = IF r \in versions THEN previous
                                             ELSE [previous EXCEPT ![r] = LatestVersion(r)]
            /\ EnterVerifiedCleanup(p, r)
  /\ UNCHANGED <<env, target_existed, cleanup, chunk, tables, locks, cur, known, latest, at, failed>>

-----------------------------------------------------------------------------
(* _recover_swap: a run found SWAPPING                                       *)

\* The objects are those of a completed RENAME.
Renamed(r) ==
  /\ staging[r] = None
  /\ live[TableOf[r]] # None
  /\ target_existed[r] = "replace" => backup[r] # None

Recover(p) ==
  LET r == cur[p] IN
  /\ pc[p] = "recover"
  /\ IF Renamable(r) THEN Order(p, r, "rename")
     ELSE IF Renamed(r) THEN Order(p, r, "reverify")
     ELSE FailRun(p) /\ UNCHANGED <<todo, latest>>
  /\ UNCHANGED <<env, target_existed, cleanup, chunk, history, tables, locks, cur, known, at, failed>>

\* The live table is scanned again; record_verification leaves the run STAGED ...
Reverify(p) ==
  LET r == cur[p] IN
  /\ pc[p] = "reverify"
  /\ IF MatchesManifest(live[TableOf[r]], r)
       THEN SetStatus(r, "STAGED") /\ Goto(p, "reswap")
       ELSE FailRun(p)
  /\ UNCHANGED <<env, target_existed, cleanup, chunk, history, tables, locks, local>>

\* ... and a statement of its own restores the swap intent.
Reswap(p) ==
  /\ pc[p] = "reswap"
  /\ SetStatus(cur[p], "SWAPPING")
  /\ Goto(p, "finalize")
  /\ UNCHANGED <<env, target_existed, cleanup, chunk, history, tables, locks, local>>

-----------------------------------------------------------------------------
(* _retry_cleanup: the backup table of a VERIFIED run                        *)

CheckBackup(p) ==
  LET r == cur[p] IN
  /\ pc[p] = "backup"
  /\ Goto(p, IF "backup" \notin todo[p] THEN "manifest"
             ELSE IF target_existed[r] = "replace" /\ backup[r] # None THEN "drop_backup"
             ELSE "record_backup")
  /\ UNCHANGED <<env, metadata, tables, locks, local>>

\* DROP TABLE of a table another processor has dropped meanwhile is an error,
\* which the routine catches and records.
DropBackup(p) ==
  LET r == cur[p] IN
  /\ pc[p] = "drop_backup"
  /\ backup' = [backup EXCEPT ![r] = None]
  /\ failed' = [failed EXCEPT ![p] = backup[r] = None]
  /\ Goto(p, "record_backup")
  /\ UNCHANGED <<env, metadata, staging, live, locks, cur, known, latest, at, todo>>

RecordBackup(p) ==
  /\ pc[p] = "record_backup"
  /\ backup_done' = [backup_done EXCEPT ![cur[p]] = ~failed[p]]
  /\ failed' = [failed EXCEPT ![p] = FALSE]
  /\ Goto(p, "manifest")
  /\ UNCHANGED <<env, status, target_existed, incoming_done, chunk, history, tables, locks, cur, known, latest, at, todo>>

(* _cleanup_superseded: the staging table of a SUPERSEDED run                *)

CheckStaging(p) ==
  /\ pc[p] = "staging"
  /\ Goto(p, IF staging[cur[p]] = None THEN "manifest" ELSE "drop_staging")
  /\ UNCHANGED <<env, metadata, tables, locks, local>>

DropStaging(p) ==
  LET r == cur[p] IN
  /\ pc[p] = "drop_staging"
  /\ staging' = [staging EXCEPT ![r] = None]
  /\ failed' = [failed EXCEPT ![p] = staging[r] = None]
  /\ Goto(p, IF staging[r] = None THEN "record_incoming" ELSE "manifest")
  /\ UNCHANGED <<env, metadata, live, backup, locks, cur, known, latest, at, todo>>

(* _cleanup_incoming: the manifest first, then every other file, and the     *)
(* record of it that both routines write                                     *)

RemoveManifest(p) ==
  LET r == cur[p] IN
  /\ pc[p] = "manifest"
  /\ IF "incoming" \in todo[p]
       THEN incoming' = [incoming EXCEPT ![r] = @ \ {"manifest"}] /\ Goto(p, "rest")
       ELSE UNCHANGED incoming /\ Goto(p, "unlock")
  /\ UNCHANGED <<sent, redeliveries, metadata, tables, locks, local, failures>>

RemoveRest(p) ==
  LET r == cur[p] IN
  /\ pc[p] = "rest"
  /\ incoming' = [incoming EXCEPT ![r] = @ \ {"data"}]
  /\ Goto(p, "record_incoming")
  /\ UNCHANGED <<sent, redeliveries, metadata, tables, locks, local, failures>>

RecordIncoming(p) ==
  /\ pc[p] = "record_incoming"
  /\ incoming_done' = [incoming_done EXCEPT ![cur[p]] = ~failed[p]]
  /\ Goto(p, "unlock")
  /\ UNCHANGED <<env, status, target_existed, backup_done, chunk, history, tables, locks, local>>

-----------------------------------------------------------------------------
(* Failures                                                                  *)

\* A processor dies or loses its session: an open transaction is rolled back and
\* MySQL drops its locks.
Crash(p) ==
  /\ pc[p] # "idle"
  /\ crashes < MaxCrashes
  /\ crashes' = crashes + 1
  /\ Leave(p)
  /\ UNCHANGED <<files, metadata, tables, faults>>

\* Where a failing statement raises out of _process_locked or of process(): all
\* of the work, reading the run again before a cleanup, recording that a cleanup
\* failed, and recording the incoming cleanup of a VERIFIED run.
Uncaught(p) ==
  \/ pc[p] \in WorkPoints \ {"import_chunk"}
  \/ pc[p] \in {"backup", "staging"} /\ Holds(p)
  \/ pc[p] = "record_backup" /\ failed[p]
  \/ pc[p] = "record_incoming" /\ (failed[p] \/ "staging" \notin todo[p])

StatementFails(p) ==
  /\ Uncaught(p)
  /\ faults < MaxFaults
  /\ faults' = faults + 1
  /\ \/ /\ Holds(p)
        /\ FailRun(p)
     \/ /\ ~Holds(p)
        /\ Goto(p, "unlock")
        /\ UNCHANGED status
  /\ UNCHANGED <<files, target_existed, cleanup, chunk, history, tables, locks, local, crashes>>

\* Everywhere else in a cleanup the routine catches it and records the error.
CleanupFails(p) ==
  /\ faults < MaxFaults
  /\ faults' = faults + 1
  /\ ~failed[p]
  /\ \/ /\ pc[p] \in {"backup", "drop_backup", "record_backup"}
        /\ "backup" \in todo[p]
        /\ Goto(p, "record_backup")
     \/ /\ pc[p] \in {"staging", "drop_staging", "manifest", "rest", "record_incoming"}
        /\ "incoming" \in todo[p]
        /\ pc[p] = "record_incoming" => "staging" \in todo[p]
        /\ Goto(p, "record_incoming")
  /\ failed' = [failed EXCEPT ![p] = TRUE]
  /\ UNCHANGED <<files, metadata, tables, locks, cur, known, latest, at, todo, crashes>>

-----------------------------------------------------------------------------
\* What a started processor executes next.
Step(p) ==
  \/ AcquireRunLock(p) \/ AcquireTableLock(p) \/ Register(p)
  \/ Stage(p) \/ BeginImport(p) \/ PickChunk(p) \/ ImportChunk(p)
  \/ CompleteStaged(p)
  \/ SetVerifying(p) \/ Verify(p) \/ OrderStaged(p)
  \/ PrepareSwapping(p) \/ Rename(p) \/ Finalize(p)
  \/ Recover(p) \/ Reverify(p) \/ Reswap(p)
  \/ CheckBackup(p) \/ DropBackup(p) \/ RecordBackup(p)
  \/ CheckStaging(p) \/ DropStaging(p)
  \/ RemoveManifest(p) \/ RemoveRest(p) \/ RecordIncoming(p)
  \/ Unlock(p)

Failure(p) == Crash(p) \/ ChunkFails(p) \/ StatementFails(p) \/ CleanupFails(p)

Environment(r) == Redeliver(r) \/ \E f \in Files : Deliver(r, f)

Next ==
  \/ \E r \in Runs : Environment(r)
  \/ \E p \in Procs :
       \/ \E r \in Runs : StartCleanup(p, r) \/ StartRun(p, r)
       \/ Step(p)
       \/ Failure(p)

Spec == Init /\ [][Next]_vars

\* A started processor keeps executing; a poll visits every candidate run, so a
\* run that is a candidate again and again is started again and again; the
\* transfer completes what it began.
Fairness ==
  /\ \A p \in Procs : WF_vars(Step(p))
  /\ \A p \in Procs, r \in Runs : SF_vars(StartCleanup(p, r)) /\ SF_vars(StartRun(p, r))
  /\ \A r \in Runs, f \in Files : WF_vars(Deliver(r, f))

FairSpec == Spec /\ Fairness

-----------------------------------------------------------------------------
(* Properties                                                                *)

EnvironmentType ==
  /\ incoming \in [Runs -> SUBSET Files]
  /\ sent \in [Runs -> SUBSET Files]
  /\ redeliveries \in Nat /\ crashes \in Nat /\ faults \in Nat

MetadataType ==
  /\ status \in [Runs -> Statuses]
  /\ target_existed \in [Runs -> {"unset", "fresh", "replace"}]
  /\ backup_done \in [Runs -> BOOLEAN]
  /\ incoming_done \in [Runs -> BOOLEAN]
  /\ chunk \in [Runs -> [Chunks -> {"PENDING", "IMPORTED", "FAILED"}]]
  /\ versions \subseteq Runs
  /\ previous \in [Runs -> Runs \cup {None}]

TablesType ==
  /\ staging \in [Runs -> Contents \cup {None}]
  /\ live \in [Tables -> Contents \cup {None}]
  /\ backup \in [Runs -> Contents \cup {None}]

LocksType ==
  /\ runLock \in [Runs -> Procs \cup {None}]
  /\ tableLock \in [Tables -> Procs \cup {None}]

LocalType ==
  /\ pc \in [Procs -> PCs]
  /\ cur \in [Procs -> Runs \cup {None}]
  /\ known \in [Procs -> BOOLEAN]
  /\ latest \in [Procs -> Runs \cup {None}]
  /\ at \in [Procs -> Chunks \cup {0}]
  /\ todo \in [Procs -> SUBSET {"backup", "staging", "incoming"}]
  /\ failed \in [Procs -> BOOLEAN]

\* Every variable has its type (mysql.py's tables and the state of process()).
TypeOK == EnvironmentType /\ MetadataType /\ TablesType /\ LocksType /\ LocalType

\* Two processors never work on runs of one table at the same time, from
\* registration to the recording transaction, whether or not the server lets a
\* session keep the run lock while it takes the table lock
\* (acquire_run_lock, acquire_table_lock).
ExclusiveTableWork ==
  \A p, q \in Procs :
    /\ pc[p] \in WorkPoints /\ pc[q] \in WorkPoints
    /\ TableOf[cur[p]] = TableOf[cur[q]]
    => p = q

\* However often an import is interrupted, resumed or attempted by two
\* processors, a staging table holds each imported chunk exactly once and
\* nothing of the others (_stage, _import_chunk).
ImportedOnce ==
  \A r \in Runs : staging[r] # None =>
    staging[r].rows = [c \in Chunks |-> IF chunk[r][c] = "IMPORTED" THEN 1 ELSE 0]

\* A live table is never partial and never one whose read-back digest differs:
\* it is what was there before, or all rows of one verified run, also in the
\* middle of a swap and after a crash (_verify, _promote, _recover_swap).
ServedComplete ==
  \A t \in Tables : live[t] # None =>
    /\ live[t].rows = Rows(1)
    /\ live[t].run # None => live[t].run \notin Corrupt /\ TableOf[live[t].run] = t

\* The version history of a table is one chain: previous_run_id of a version is
\* the newest strictly older version, so net changes add up (finalize_verified).
VersionChain ==
  \A r \in versions :
    /\ previous[r] # None =>
         /\ previous[r] \in versions
         /\ TableOf[previous[r]] = TableOf[r]
         /\ CreatedAt[previous[r]] < CreatedAt[r]
    /\ \A v \in versions \ {r} : TableOf[v] = TableOf[r] =>
         /\ CreatedAt[v] # CreatedAt[r]
         /\ CreatedAt[v] < CreatedAt[r] =>
              previous[r] # None /\ CreatedAt[v] <= CreatedAt[previous[r]]

\* A VERIFIED run has its row in table_versions, also after the crashes and the
\* recoveries that come between the rename and the record (finalize_verified).
VerifiedIsRecorded == \A r \in Runs : status[r] = "VERIFIED" => r \in versions

\* The table that was replaced is dropped only once the run that replaced it is
\* in the version history, whatever crashes or processors intervene.
BackupKeptUntilRecorded ==
  [][\A r \in Runs : backup[r] # None /\ backup'[r] = None => r \in versions]_vars

\* A file is removed from incoming only when its run is recorded or a strictly
\* newer version of its table is: no data is deleted that is still needed.
IncomingKeptUntilSettled ==
  [][\A r \in Runs : ~(incoming[r] \subseteq incoming'[r]) =>
       \/ r \in versions
       \/ \E v \in versions : TableOf[v] = TableOf[r] /\ CreatedAt[v] > CreatedAt[r]]_vars

\* A table never goes back to an older snapshot: an older run that arrives late is
\* SUPERSEDED (_ordering, _promote).
LiveNeverRegresses ==
  [][\A t \in Tables : live[t] # None /\ live[t].run # None /\ live'[t] # live[t] =>
       CreatedAt[live'[t].run] >= CreatedAt[live[t].run]]_vars

\* A run that was renamed into place but not recorded when an older run took its
\* place: _recover_swap finds the other run's rows every time and leaves it.
Overtaken(r) ==
  /\ status[r] = "SWAPPING"
  /\ staging[r] = None
  /\ \E v \in Runs :
       CreatedAt[v] < CreatedAt[r] /\ live[TableOf[r]] = [run |-> v, rows |-> Rows(1)]

\* Every run whose transfer completed is settled in the end: applied, superseded by
\* a newer version or found to differ from its manifest (process, _recover_swap),
\* but for one that an older run overtook.
Settled(r) == r \in versions \/ status[r] \in {"SUPERSEDED", "MISMATCH"}
EventuallySettled == <>[](\A r \in Runs : sent[r] = Files => Settled(r) \/ Overtaken(r))

\* After success or supersession the run's files and staging table go away and
\* metadata says so (_retry_cleanup, _cleanup_superseded, retry_pending_cleanup).
CleanedUp(r) == incoming[r] = {} /\ incoming_done[r] /\ staging[r] = None
EventuallyCleanedUp ==
  <>[](\A r \in Runs : status[r] \in {"VERIFIED", "SUPERSEDED"} => CleanedUp(r))

\* The table an applied run replaced is dropped in the end.
BackupEventuallyDropped ==
  <>[](\A r \in Runs : status[r] = "VERIFIED" => backup[r] = None /\ backup_done[r])

-----------------------------------------------------------------------------
(* The invariant the safety properties follow from: what each control point  *)
(* and each recorded status guarantees. DestinationProcessorProofs proves it *)
(* inductive.                                                                *)

Newer(v, r) == TableOf[v] = TableOf[r] /\ CreatedAt[v] > CreatedAt[r]
Superseded(r) == \E v \in versions : Newer(v, r)

\* A staging table, if there is one, has passed or would pass verification.
Ready(r) == staging[r] # None => MatchesManifest(staging[r], r)
\* The live table is the run's.
Live(r) ==
  LET content == live[TableOf[r]] IN
  content # None /\ content.run = r /\ content.rows = Rows(1)
NothingImported(r) == \A c \in Chunks : chunk[r][c] # "IMPORTED"

\* A processor that is not idle has a run, and a table lock while it works.
Engaged ==
  \A p \in Procs :
    /\ pc[p] # "idle" => cur[p] \in Runs
    /\ pc[p] \in WorkPoints => tableLock[TableOf[cur[p]]] = p

\* The versions of a table have a newest one (they are finitely many).
NewestExists ==
  \A r \in Runs : SameTable(r) # {} =>
    \E v \in SameTable(r) : \A w \in SameTable(r) : CreatedAt[w] <= CreatedAt[v]

\* A cleanup only ever runs for a recorded run or one with a newer version.
CleanupDue(p) ==
  /\ pc[p] \in {"backup", "drop_backup", "record_backup"} => cur[p] \in versions
  /\ pc[p] \in CleanupPoints => cur[p] \in versions \/ Superseded(cur[p])

CleanupIsDue ==
  /\ \A r \in Runs : status[r] = "SUPERSEDED" => Superseded(r)
  /\ \A p \in Procs : CleanupDue(p)

\* What the import loop relies on.
ImportPoint(p) ==
  /\ pc[p] = "stage" /\ ~known[p] => NothingImported(cur[p])
  /\ pc[p] = "import_chunk" => at[p] \in Chunks /\ chunk[cur[p]][at[p]] # "IMPORTED"
AbsentIsEmpty == \A r \in Runs : status[r] = "ABSENT" => NothingImported(r)

\* What the swap and its recovery rely on.
SwapPoint(p) ==
  /\ pc[p] \in {"stage", "begin_import", "import", "import_chunk"} =>
       status[cur[p]] \in {"VALIDATED", "IMPORTING", "FAILED"}
  /\ pc[p] = "recover" => status[cur[p]] = "SWAPPING"
  /\ pc[p] \in {"order", "promote", "rename", "reverify", "reswap"} => Ready(cur[p])
  /\ pc[p] = "reverify" => live[TableOf[cur[p]]] # None
  /\ pc[p] \in {"reswap", "finalize"} => Live(cur[p])
SwapReady ==
  \A r \in Runs :
    /\ staging[r] # None => staging[r].run = r
    /\ status[r] = "SWAPPING" => Ready(r)

\* Every control point and status keeps what it promises, for the type, the
\* locks, the version history, cleanups, imports and swaps together: the
\* inductive invariant (the whole of process() and its recovery paths).
InductiveInvariant ==
  /\ TypeOK
  /\ Engaged
  /\ NewestExists /\ VersionChain /\ VerifiedIsRecorded
  /\ CleanupIsDue
  /\ AbsentIsEmpty /\ ImportedOnce /\ SwapReady /\ ServedComplete
  /\ \A p \in Procs : ImportPoint(p) /\ SwapPoint(p)

\* The destination as its readers see it implements SnapshotReplica. A live
\* table that is not exactly one run's rows maps to no run at all.
ServedRun(content) ==
  IF content = None \/ content = ForeignTable THEN None
  ELSE IF content.rows = Rows(1) THEN content.run
  ELSE "partial"

Replica == INSTANCE SnapshotReplica
             WITH served <- [t \in Tables |-> ServedRun(live[t])], recorded <- versions
ImplementsReplica == Replica!ReplicaSpec

=============================================================================
