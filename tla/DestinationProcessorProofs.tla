--------------------- MODULE DestinationProcessorProofs ---------------------
(***************************************************************************)
(* Proofs about DestinationProcessor for any number of processors, runs,   *)
(* tables, chunks, crashes and faults.                                     *)
(***************************************************************************)
EXTENDS DestinationProcessor, TLAPS

USE DestinationAssumption

-----------------------------------------------------------------------------
(* The version history                                                       *)

\* latest_version returns a version of the run's table that no other exceeds.
LEMMA LatestIsNewest ==
  ASSUME TypeOK, NewestExists, NEW r \in Runs
  PROVE  /\ LatestVersion(r) = None <=> SameTable(r) = {}
         /\ SameTable(r) # {} =>
              /\ LatestVersion(r) \in SameTable(r)
              /\ \A w \in SameTable(r) : CreatedAt[w] <= CreatedAt[LatestVersion(r)]
<1>1. CASE SameTable(r) = {}
  BY <1>1 DEF LatestVersion
<1>2. CASE SameTable(r) # {}
  <2>1. PICK v \in SameTable(r) : \A w \in SameTable(r) : CreatedAt[w] <= CreatedAt[v]
    BY <1>2 DEF NewestExists
  <2>2. /\ LatestVersion(r) \in SameTable(r)
        /\ \A w \in SameTable(r) : CreatedAt[w] <= CreatedAt[LatestVersion(r)]
    BY <1>2, <2>1 DEF LatestVersion
  <2>3. LatestVersion(r) # None
    BY <2>2 DEF SameTable, TypeOK, MetadataType, DestinationAssumption
  <2> QED
    BY <1>2, <2>2, <2>3
<1> QED
  BY <1>1, <1>2

COROLLARY LatestType ==
  ASSUME TypeOK, NewestExists, NEW r \in Runs
  PROVE  LatestVersion(r) \in Runs \cup {None}
BY LatestIsNewest DEF SameTable, TypeOK, MetadataType

\* Only finalize_verified writes table_versions.
LEMMA HistoryFrame ==
  ASSUME Next
  PROVE  (\E p \in Procs : Finalize(p)) \/ UNCHANGED history
<1> USE DEF metadata, history
<1>1. ASSUME NEW r \in Runs, Environment(r) PROVE UNCHANGED history
  BY <1>1 DEF Environment, Deliver, Redeliver
<1>2. ASSUME NEW p \in Procs, NEW r \in Runs, StartCleanup(p, r) \/ StartRun(p, r)
      PROVE  UNCHANGED history
  BY <1>2 DEF StartCleanup, StartRun
<1>3. ASSUME NEW p \in Procs, Failure(p) PROVE UNCHANGED history
  BY <1>3 DEF Failure, Crash, ChunkFails, StatementFails, CleanupFails
<1>4. ASSUME NEW p \in Procs, Step(p), ~Finalize(p) PROVE UNCHANGED history
  BY <1>4 DEF Step, AcquireRunLock, AcquireTableLock, Register, Stage, BeginImport, PickChunk,
     ImportChunk, CompleteStaged, SetVerifying, Verify,
     OrderStaged, PrepareSwapping, Rename, Recover, Reverify, Reswap, CheckBackup, DropBackup,
     RecordBackup, CheckStaging, DropStaging, RemoveManifest, RemoveRest, RecordIncoming, Unlock
<1> QED
  BY <1>1, <1>2, <1>3, <1>4 DEF Next


\* The initial state has the right types.
LEMMA TypeInit == Init => TypeOK
BY DEF Init, TypeOK, EnvironmentType, MetadataType, TablesType, LocksType, LocalType, Statuses, PCs,
   Contents, Rows, ForeignTable, Chunks

-----------------------------------------------------------------------------
(* Types. Each part of TypeOK is preserved by the steps that touch its       *)
(* variables; the others leave them unchanged.                               *)

\* Every step keeps the types of what arrives and of the counters.
LEMMA EnvironmentTypeNext ==
  ASSUME EnvironmentType, Next
  PROVE  EnvironmentType'
<1> USE DEF EnvironmentType, env, files, failures
<1>1. ASSUME NEW r \in Runs, Environment(r) PROVE EnvironmentType'
  BY <1>1 DEF Environment, Deliver, Redeliver, Files
<1>2. ASSUME NEW p \in Procs, NEW r \in Runs, StartCleanup(p, r) \/ StartRun(p, r)
      PROVE  EnvironmentType'
  BY <1>2 DEF StartCleanup, StartRun
<1>3. ASSUME NEW p \in Procs, Failure(p) PROVE EnvironmentType'
  BY <1>3 DEF Failure, Crash, ChunkFails, StatementFails, CleanupFails
<1>4. ASSUME NEW p \in Procs, RemoveManifest(p) \/ RemoveRest(p) PROVE EnvironmentType'
  BY <1>4 DEF RemoveManifest, RemoveRest, Files
<1>5. ASSUME NEW p \in Procs, Step(p), ~RemoveManifest(p), ~RemoveRest(p)
      PROVE  UNCHANGED env
  BY <1>5 DEF Step, AcquireRunLock, AcquireTableLock, Register, Stage, BeginImport, PickChunk,
     ImportChunk, CompleteStaged, SetVerifying, Verify,
     OrderStaged, PrepareSwapping, Rename, Finalize, Recover, Reverify, Reswap, CheckBackup,
     DropBackup, RecordBackup, CheckStaging, DropStaging, RecordIncoming, Unlock
<1> QED
  BY <1>1, <1>2, <1>3, <1>4, <1>5 DEF Next



\* A processor past "idle" knows its run.
LEMMA BusyHasRun ==
  ASSUME Engaged, NEW p \in Procs, Step(p) \/ Failure(p)
  PROVE  cur[p] \in Runs
BY DEF Engaged, Step, Failure, AcquireRunLock, AcquireTableLock, Register, Stage, BeginImport,
   PickChunk, ImportChunk, CompleteStaged, SetVerifying, Verify, OrderStaged,
   PrepareSwapping, Rename, Finalize, Recover, Reverify, Reswap, CheckBackup, DropBackup,
   RecordBackup, CheckStaging, DropStaging, RemoveManifest, RemoveRest, RecordIncoming, Unlock,
   Crash, ChunkFails, StatementFails, CleanupFails, Uncaught, Holds, WorkPoints, DestinationAssumption

\* Every step keeps the types of the metadata tables.
LEMMA MetadataTypeNext ==
  ASSUME TypeOK, Engaged, NewestExists, Next
  PROVE  MetadataType'
<1> USE DEF MetadataType, metadata, cleanup, history
<1>1. ASSUME NEW r \in Runs, Environment(r) PROVE MetadataType'
  BY <1>1 DEF Environment, Deliver, Redeliver, TypeOK
<1>2. ASSUME NEW p \in Procs, NEW r \in Runs, StartCleanup(p, r) \/ StartRun(p, r)
      PROVE  MetadataType'
  BY <1>2 DEF StartCleanup, StartRun, TypeOK
<1>3. ASSUME NEW p \in Procs, Step(p) \/ Failure(p) PROVE MetadataType'
  <2> DEFINE r == cur[p]
  <2>1. r \in Runs
    BY <1>3, BusyHasRun
  <2>2. LatestVersion(r) \in Runs \cup {None}
    BY <2>1, LatestType
  <2> USE <2>1
  <2>3. CASE Register(p)
    BY <2>3 DEF Register, Dispatch, FailRun, SetStatus, Statuses, TypeOK
  <2>4. CASE Stage(p) \/ BeginImport(p) \/ CompleteStaged(p) \/ SetVerifying(p) \/ Verify(p)
             \/ Reverify(p) \/ Reswap(p) \/ Rename(p)
    BY <2>4 DEF Stage, BeginImport, CompleteStaged, SetVerifying, Verify, Reverify, Reswap, Rename,
       FailRun, SetStatus, Statuses, TypeOK
  <2>5. CASE OrderStaged(p) \/ Recover(p)
    BY <2>5 DEF OrderStaged, Recover, Order, FailRun, SetStatus, Statuses, TypeOK
  <2>6. CASE PrepareSwapping(p)
    BY <2>6 DEF PrepareSwapping, SwapKind, FailRun, SetStatus, Statuses, TypeOK
  <2>7. CASE Finalize(p)
    <3>1. status' \in [Runs -> Statuses]
      BY <2>7 DEF Finalize, FailRun, SetStatus, Statuses, TypeOK
    <3>2. versions' \subseteq Runs
      BY <2>7 DEF Finalize, VersionsWith, TypeOK
    <3>3. previous' \in [Runs -> Runs \cup {None}]
      BY <2>2, <2>7 DEF Finalize, TypeOK
    <3> QED
      BY <2>7, <3>1, <3>2, <3>3 DEF Finalize, TypeOK
  <2>8. CASE ImportChunk(p) \/ ChunkFails(p)
    <3>1. status' \in [Runs -> Statuses]
      BY <2>8 DEF ImportChunk, ChunkFails, FailRun, SetStatus,
         Statuses, TypeOK
    <3>2. \A s \in {"IMPORTED", "FAILED"} : [chunk EXCEPT ![r][at[p]] = s]
            \in [Runs -> [Chunks -> {"PENDING", "IMPORTED", "FAILED"}]]
      BY DEF TypeOK
    <3>3. chunk' \in [Runs -> [Chunks -> {"PENDING", "IMPORTED", "FAILED"}]]
      BY <2>8, <3>2 DEF ImportChunk, ChunkFails
    <3> QED
      BY <2>8, <3>1, <3>3 DEF ImportChunk, ChunkFails, TypeOK
  <2>9. CASE StatementFails(p)
    BY <2>9 DEF StatementFails, FailRun, SetStatus, Statuses, TypeOK
  <2>10. CASE RecordBackup(p) \/ RecordIncoming(p)
    BY <2>10 DEF RecordBackup, RecordIncoming, TypeOK, LocalType
  <2>11. CASE AcquireRunLock(p) \/ AcquireTableLock(p) \/ PickChunk(p) \/ CheckBackup(p)
              \/ DropBackup(p) \/ CheckStaging(p) \/ DropStaging(p) \/ RemoveManifest(p)
              \/ RemoveRest(p) \/ Unlock(p) \/ Crash(p) \/ CleanupFails(p)
    BY <2>11 DEF AcquireRunLock, AcquireTableLock, PickChunk, CheckBackup, DropBackup, CheckStaging,
       DropStaging, RemoveManifest, RemoveRest, Unlock, Crash, CleanupFails, TypeOK
  <2> QED
    BY <1>3, <2>3, <2>4, <2>5, <2>6, <2>7, <2>8, <2>9, <2>10, <2>11 DEF Step, Failure
<1> QED
  BY <1>1, <1>2, <1>3 DEF Next

\* Every step keeps the types of the staging, live and backup tables.
LEMMA TablesTypeNext ==
  ASSUME TypeOK, Engaged, Next
  PROVE  TablesType'
<1> USE DEF TablesType, tables
<1>1. ASSUME NEW r \in Runs, Environment(r) PROVE TablesType'
  BY <1>1 DEF Environment, Deliver, Redeliver, TypeOK
<1>2. ASSUME NEW p \in Procs, NEW r \in Runs, StartCleanup(p, r) \/ StartRun(p, r)
      PROVE  TablesType'
  BY <1>2 DEF StartCleanup, StartRun, TypeOK
<1>3. ASSUME NEW p \in Procs, Step(p) \/ Failure(p) PROVE TablesType'
  <2> DEFINE r == cur[p]
  <2>1. r \in Runs /\ TableOf[r] \in Tables
    BY <1>3, BusyHasRun DEF DestinationAssumption
  <2> USE <2>1
  <2>2. CASE Stage(p)
    <3>1. EmptyStaging(r) \in Contents
      BY DEF EmptyStaging, Contents, Rows
    <3> QED
      BY <2>2, <3>1 DEF Stage, TypeOK
  <2>3. CASE ImportChunk(p)
    <3>1. staging[r] # None => InsertRows(staging[r], at[p]) \in Contents
      BY DEF InsertRows, Contents, TypeOK
    <3> QED
      BY <2>3, <3>1 DEF ImportChunk, TypeOK
  <2>4. CASE Rename(p)
    BY <2>4 DEF Rename, Renamable, TypeOK
  <2>5. CASE DropBackup(p) \/ DropStaging(p)
    BY <2>5 DEF DropBackup, DropStaging, TypeOK
  <2>6. CASE Step(p) /\ ~Stage(p) /\ ~ImportChunk(p) /\ ~Rename(p) /\ ~DropBackup(p)
             /\ ~DropStaging(p)
    BY <2>6 DEF Step, AcquireRunLock, AcquireTableLock, Register, BeginImport, PickChunk,
       CompleteStaged, SetVerifying, Verify, OrderStaged,
       PrepareSwapping, Finalize, Recover, Reverify, Reswap, CheckBackup, RecordBackup,
       CheckStaging, RemoveManifest, RemoveRest, RecordIncoming, Unlock, TypeOK
  <2>7. CASE Failure(p)
    BY <2>7 DEF Failure, Crash, ChunkFails, StatementFails, CleanupFails, TypeOK
  <2> QED
    BY <1>3, <2>2, <2>3, <2>4, <2>5, <2>6, <2>7
<1> QED
  BY <1>1, <1>2, <1>3 DEF Next

\* Every step keeps the types of the run and table locks.
LEMMA LocksTypeNext ==
  ASSUME TypeOK, Engaged, Next
  PROVE  LocksType'
<1> USE DEF LocksType, locks
<1>1. ASSUME NEW r \in Runs, Environment(r) PROVE LocksType'
  BY <1>1 DEF Environment, Deliver, Redeliver, TypeOK
<1>2. ASSUME NEW p \in Procs, NEW r \in Runs, StartCleanup(p, r) \/ StartRun(p, r)
      PROVE  LocksType'
  BY <1>2 DEF StartCleanup, StartRun, TypeOK
<1>3. ASSUME NEW p \in Procs, Step(p) \/ Failure(p) PROVE LocksType'
  <2>1. cur[p] \in Runs
    BY <1>3, BusyHasRun
  <2>2. CASE AcquireRunLock(p)
    BY <2>1, <2>2 DEF AcquireRunLock, TypeOK
  <2>3. CASE AcquireTableLock(p)
    BY <2>1, <2>3 DEF AcquireTableLock, TypeOK
  <2>4. CASE Unlock(p) \/ Crash(p)
    BY <2>4 DEF Unlock, Crash, Leave, Released, TypeOK
  <2>5. CASE Step(p) /\ ~AcquireRunLock(p) /\ ~AcquireTableLock(p) /\ ~Unlock(p)
    BY <2>5 DEF Step, Register, Stage, BeginImport, PickChunk, ImportChunk,
      CompleteStaged, SetVerifying, Verify, OrderStaged, PrepareSwapping, Rename,
       Finalize, Recover, Reverify, Reswap, CheckBackup, DropBackup, RecordBackup, CheckStaging,
       DropStaging, RemoveManifest, RemoveRest, RecordIncoming, TypeOK
  <2>6. CASE Failure(p) /\ ~Crash(p)
    BY <2>6 DEF Failure, ChunkFails, StatementFails, CleanupFails, TypeOK
  <2> QED
    BY <1>3, <2>2, <2>3, <2>4, <2>5, <2>6
<1> QED
  BY <1>1, <1>2, <1>3 DEF Next



\* Every step keeps the types of what a processor has read.
LEMMA LocalTypeNext ==
  ASSUME TypeOK, Engaged, NewestExists, Next
  PROVE  LocalType'
<1> USE DEF LocalType, local, Goto, PCs, WorkPoints, CleanupPoints
<1>1. ASSUME NEW r \in Runs, Environment(r) PROVE LocalType'
  BY <1>1 DEF Environment, Deliver, Redeliver, TypeOK
<1>2. ASSUME NEW p \in Procs, NEW r \in Runs, StartCleanup(p, r) PROVE LocalType'
  BY <1>2 DEF StartCleanup, EnterVerifiedCleanup, VerifiedTodo, EnterSupersededCleanup,
     SupersededTodo, TypeOK
<1>3. ASSUME NEW p \in Procs, NEW r \in Runs, StartRun(p, r) PROVE LocalType'
  BY <1>3 DEF StartRun, TypeOK
<1>4. ASSUME NEW p \in Procs, Step(p) \/ Failure(p) PROVE LocalType'
  <2> DEFINE r == cur[p]
  <2>1. r \in Runs
    BY <1>4, BusyHasRun
  <2>2. LatestVersion(r) \in Runs \cup {None}
    BY <2>1, LatestType
  <2> USE <2>1
  <2>3. CASE Register(p)
    <3>1. status[r] \in Statuses
      BY DEF TypeOK, MetadataType
    <3>2. pc' \in [Procs -> PCs]
      BY <2>3, <3>1 DEF Register, Dispatch, EnterVerifiedCleanup, FailRun, TypeOK, Statuses
    <3>3. todo' \in [Procs -> SUBSET {"backup", "staging", "incoming"}]
      BY <2>3, <3>1 DEF Register, Dispatch, EnterVerifiedCleanup, VerifiedTodo, FailRun, TypeOK, Statuses
    <3> QED
      BY <2>3, <3>2, <3>3 DEF Register, TypeOK
  <2>4. CASE Unlock(p) \/ Crash(p)
    BY <2>4 DEF Unlock, Crash, Leave, TypeOK
  <2>5. CASE OrderStaged(p)
    BY <2>2, <2>5 DEF OrderStaged, Order, EnterSupersededCleanup, SupersededTodo, FailRun, TypeOK
  <2>6. CASE Recover(p)
    <3>1. CASE Renamable(r)
      BY <2>2, <2>6, <3>1 DEF Recover, Order, EnterSupersededCleanup, SupersededTodo, FailRun, TypeOK
    <3>2. CASE ~Renamable(r) /\ Renamed(r)
      BY <2>2, <2>6, <3>2 DEF Recover, Order, EnterSupersededCleanup, SupersededTodo, FailRun, TypeOK
    <3>3. CASE ~Renamable(r) /\ ~Renamed(r)
      BY <2>6, <3>3 DEF Recover, FailRun, TypeOK
    <3> QED
      BY <3>1, <3>2, <3>3
  <2>7. CASE Finalize(p)
    BY <2>7 DEF Finalize, EnterVerifiedCleanup, VerifiedTodo, FailRun, TypeOK
  <2>8. CASE PickChunk(p)
    BY <2>8 DEF PickChunk, Remaining, TypeOK
  <2>9. CASE AcquireRunLock(p) \/ AcquireTableLock(p) \/ Stage(p) \/ BeginImport(p)
             \/ ImportChunk(p) \/ CompleteStaged(p)
    BY <2>9 DEF AcquireRunLock, AcquireTableLock, Stage, BeginImport, ImportChunk,
       CompleteStaged, FailRun, TypeOK
  <2>10. CASE SetVerifying(p) \/ Verify(p) \/ PrepareSwapping(p) \/ Rename(p) \/ Reverify(p)
              \/ Reswap(p)
    BY <2>10 DEF SetVerifying, Verify, PrepareSwapping, Rename, Reverify, Reswap, FailRun, TypeOK
  <2>11. CASE CheckBackup(p) \/ DropBackup(p) \/ RecordBackup(p)
    BY <2>11 DEF CheckBackup, DropBackup, RecordBackup, TypeOK
  <2>12. CASE CheckStaging(p) \/ DropStaging(p)
    BY <2>12 DEF CheckStaging, DropStaging, TypeOK
  <2>13. CASE RemoveManifest(p) \/ RemoveRest(p) \/ RecordIncoming(p)
    BY <2>13 DEF RemoveManifest, RemoveRest, RecordIncoming, TypeOK
  <2>14. CASE ChunkFails(p) \/ StatementFails(p)
    BY <2>14 DEF ChunkFails, StatementFails, FailRun, TypeOK
  <2>15. CASE CleanupFails(p)
    BY <2>15 DEF CleanupFails, TypeOK
  <2> QED
    BY <1>4, <2>3, <2>4, <2>5, <2>6, <2>7, <2>8, <2>9, <2>10, <2>11, <2>12, <2>13, <2>14, <2>15
       DEF Step, Failure
<1> QED
  BY <1>1, <1>2, <1>3, <1>4 DEF Next

\* Every step keeps the types.
LEMMA TypeNext ==
  ASSUME TypeOK, Engaged, NewestExists, Next
  PROVE  TypeOK'
BY EnvironmentTypeNext, MetadataTypeNext, TablesTypeNext, LocksTypeNext, LocalTypeNext DEF TypeOK


-----------------------------------------------------------------------------
(* Processors and their locks                                                *)

\* A step of one processor leaves what the others remember alone.
LEMMA OthersKeep ==
  ASSUME TypeOK, NEW p \in Procs, NEW q \in Procs \ {p},
         Step(p) \/ Failure(p) \/ \E r \in Runs : StartCleanup(p, r) \/ StartRun(p, r)
  PROVE  pc'[q] = pc[q] /\ cur'[q] = cur[q] /\ known'[q] = known[q] /\ latest'[q] = latest[q]
         /\ at'[q] = at[q]
<1> DEFINE Kept == pc'[q] = pc[q] /\ cur'[q] = cur[q] /\ known'[q] = known[q]
                     /\ latest'[q] = latest[q] /\ at'[q] = at[q]
<1> USE DEF TypeOK, LocalType, local, Goto
<1>1. ASSUME NEW r \in Runs, StartCleanup(p, r) PROVE Kept
  BY <1>1 DEF StartCleanup, EnterVerifiedCleanup, EnterSupersededCleanup
<1>2. ASSUME NEW r \in Runs, StartRun(p, r) PROVE Kept
  BY <1>2 DEF StartRun
<1>3. ASSUME Failure(p) PROVE Kept
  BY <1>3 DEF Failure, Crash, Leave, ChunkFails, StatementFails, CleanupFails, FailRun
<1>4. ASSUME Register(p) PROVE Kept
  BY <1>4 DEF Register, Dispatch, EnterVerifiedCleanup, FailRun
<1>5. ASSUME OrderStaged(p) \/ Recover(p) \/ Finalize(p) PROVE Kept
  BY <1>5 DEF OrderStaged, Recover, Order, EnterSupersededCleanup, Finalize, EnterVerifiedCleanup,
     FailRun
<1>6. ASSUME Step(p), ~Register(p), ~OrderStaged(p), ~Recover(p), ~Finalize(p) PROVE Kept
  BY <1>6 DEF Step, AcquireRunLock, AcquireTableLock, Stage, BeginImport, PickChunk, ImportChunk,
     CompleteStaged, SetVerifying, Verify, PrepareSwapping,
     Rename, Reverify, Reswap, CheckBackup, DropBackup, RecordBackup, CheckStaging, DropStaging,
     RemoveManifest, RemoveRest, RecordIncoming, Unlock, Leave, FailRun
<1> QED
  BY <1>1, <1>2, <1>3, <1>4, <1>5, <1>6

\* A lock is only given up by the processor that holds it.
LEMMA LocksKept ==
  ASSUME TypeOK, Engaged, NEW p \in Procs, NEW q \in Procs \ {p}, NEW t \in Tables,
         tableLock[t] = q,
         Step(p) \/ Failure(p) \/ \E r \in Runs : StartCleanup(p, r) \/ StartRun(p, r)
  PROVE  tableLock'[t] = q
<1> USE DEF locks
<1>1. CASE \E r \in Runs : StartCleanup(p, r) \/ StartRun(p, r)
  BY <1>1 DEF StartCleanup, StartRun
<1>2. CASE AcquireTableLock(p)
  <2>1. q # None
    BY DEF DestinationAssumption
  <2> QED
    BY <1>2, <2>1 DEF AcquireTableLock, LockFree, TypeOK, LocksType
<1>3. CASE Unlock(p) \/ Crash(p)
  BY <1>3 DEF Unlock, Crash, Leave, Released
<1>4. CASE Failure(p) /\ ~Crash(p)
  BY <1>4 DEF Failure, ChunkFails, StatementFails, CleanupFails
<1>5. CASE Step(p) /\ ~AcquireTableLock(p) /\ ~Unlock(p)
  BY <1>5 DEF Step, AcquireRunLock, Register, Stage, BeginImport, PickChunk, ImportChunk,
     CompleteStaged, SetVerifying, Verify, OrderStaged,
     PrepareSwapping, Rename, Finalize, Recover, Reverify, Reswap, CheckBackup, DropBackup,
     RecordBackup, CheckStaging, DropStaging, RemoveManifest, RemoveRest, RecordIncoming
<1> QED
  BY <1>1, <1>2, <1>3, <1>4, <1>5

\* A processor enters the work on a run only by taking its table's lock, and
\* keeps run and lock until it leaves it.
LEMMA WorkKeepsLock ==
  ASSUME TypeOK, Engaged, NEW p \in Procs, Step(p) \/ Failure(p), pc'[p] \in WorkPoints
  PROVE  cur'[p] \in Runs /\ tableLock'[TableOf[cur'[p]]] = p
<1> USE DEF locks, local, Goto, WorkPoints, TypeOK, LocalType
<1>0. cur[p] \in Runs /\ TableOf[cur[p]] \in Tables
  BY BusyHasRun DEF DestinationAssumption
<1>1. CASE AcquireTableLock(p)
  BY <1>0, <1>1 DEF AcquireTableLock, LocksType
<1>2. CASE pc[p] \in WorkPoints /\ UNCHANGED <<cur, tableLock>>
  BY <1>0, <1>2 DEF Engaged
<1>3. CASE pc[p] \notin WorkPoints /\ ~AcquireTableLock(p)
  BY <1>3 DEF Step, Failure, AcquireRunLock, Register, Stage, BeginImport, PickChunk, ImportChunk,
     CompleteStaged, SetVerifying, Verify, OrderStaged, PrepareSwapping,
     Rename, Finalize, Recover, Reverify, Reswap, CheckBackup, DropBackup, RecordBackup,
     CheckStaging, DropStaging, RemoveManifest, RemoveRest, RecordIncoming, Unlock, Crash, Leave,
     ChunkFails, StatementFails, CleanupFails, FailRun
<1>4. CASE pc[p] \in WorkPoints /\ Failure(p)
  BY <1>0, <1>4, <1>2 DEF Failure, Crash, Leave, ChunkFails, StatementFails, CleanupFails
<1>5. CASE pc[p] \in WorkPoints /\ Step(p)
  BY <1>0, <1>5, <1>2 DEF Step, AcquireRunLock, AcquireTableLock, Register, Stage, BeginImport,
     PickChunk, ImportChunk, CompleteStaged, SetVerifying, Verify,
     OrderStaged, PrepareSwapping, Rename, Finalize, Recover, Reverify, Reswap, CheckBackup,
     DropBackup, RecordBackup, CheckStaging, DropStaging, RemoveManifest, RemoveRest,
     RecordIncoming, Unlock
<1> QED
  BY <1>1, <1>2, <1>3, <1>4, <1>5

\* A processor works on one run until it is idle again.
LEMMA RunKept ==
  ASSUME TypeOK, NEW p \in Procs, Step(p) \/ Failure(p)
  PROVE  cur'[p] = cur[p] \/ pc'[p] = "idle"
BY DEF Step, Failure, local, AcquireRunLock, AcquireTableLock, Register, Stage, BeginImport,
   PickChunk, ImportChunk, CompleteStaged, SetVerifying, Verify,
   OrderStaged, PrepareSwapping, Rename, Finalize, Recover, Reverify, Reswap, CheckBackup,
   DropBackup, RecordBackup, CheckStaging, DropStaging, RemoveManifest, RemoveRest, RecordIncoming,
   Unlock, Crash, Leave, Goto, ChunkFails, StatementFails, CleanupFails, TypeOK, LocalType

\* While idle or not, a processor that goes on has a run.
LEMMA EngagedNext ==
  ASSUME TypeOK, Engaged, Next
  PROVE  Engaged'
<1>1. ASSUME NEW r \in Runs, Environment(r) PROVE Engaged'
  BY <1>1 DEF Environment, Deliver, Redeliver, Engaged, locks, local
<1>2. ASSUME NEW p \in Procs,
             Step(p) \/ Failure(p) \/ \E r \in Runs : StartCleanup(p, r) \/ StartRun(p, r)
      PROVE  Engaged'
  <2>1. ASSUME NEW q \in Procs \ {p}
        PROVE  /\ pc'[q] # "idle" => cur'[q] \in Runs
               /\ pc'[q] \in WorkPoints => tableLock'[TableOf[cur'[q]]] = q
    <3>1. pc'[q] = pc[q] /\ cur'[q] = cur[q]
      BY <1>2, OthersKeep
    <3>2. pc[q] \in WorkPoints => pc[q] # "idle"
      BY DEF WorkPoints
    <3>3. cur[q] \in Runs => TableOf[cur[q]] \in Tables
      BY DEF DestinationAssumption
    <3> QED
      BY <1>2, <3>1, <3>2, <3>3, LocksKept DEF Engaged
  <2>2. ASSUME NEW r \in Runs, StartCleanup(p, r) \/ StartRun(p, r)
        PROVE  cur'[p] \in Runs /\ pc'[p] \notin WorkPoints
    BY <2>2 DEF StartCleanup, StartRun, EnterVerifiedCleanup, EnterSupersededCleanup, Goto,
       WorkPoints, TypeOK, LocalType
  <2>3. ASSUME Step(p) \/ Failure(p), pc'[p] # "idle"
        PROVE  cur'[p] \in Runs
    BY <2>3, BusyHasRun, RunKept
  <2> QED
    BY <1>2, <2>1, <2>2, <2>3, WorkKeepsLock DEF Engaged
<1> QED
  BY <1>1, <1>2 DEF Next

\* The table lock makes the work on a table exclusive (_lock: GET_LOCK, and the
\* order run lock, table lock in process).
LEMMA Exclusive ==
  ASSUME Engaged
  PROVE  ExclusiveTableWork
BY DEF Engaged, ExclusiveTableWork


-----------------------------------------------------------------------------
(* The version history grows by newer versions only                          *)

\* Finalizing a run records nothing, or the run as the newest version of its table, with
\* the version it replaces.
LEMMA FinalizeRecords ==
  ASSUME TypeOK, Engaged, NewestExists, NEW p \in Procs, Finalize(p)
  PROVE  LET r == cur[p] IN
         \/ UNCHANGED history
         \/ /\ r \in Runs \ versions
            /\ \A w \in SameTable(r) : CreatedAt[w] < CreatedAt[r]
            /\ versions' = versions \cup {r}
            /\ previous' = [previous EXCEPT ![r] = LatestVersion(r)]
<1> DEFINE r == cur[p]
<1>1. r \in Runs
  BY BusyHasRun DEF Step
<1>2. CASE LatestVersion(r) # r /\ FinalizeConflict(p, r)
  BY <1>2 DEF Finalize
<1>3. CASE r \in versions /\ ~(LatestVersion(r) # r /\ FinalizeConflict(p, r))
  BY <1>3 DEF Finalize, VersionsWith, history
<1>4. CASE r \notin versions /\ ~(LatestVersion(r) # r /\ FinalizeConflict(p, r))
  <2>1. LatestVersion(r) # r
    BY <1>1, <1>4, LatestIsNewest DEF SameTable, DestinationAssumption
  <2>2. ~IsOlder(r, LatestVersion(r)) /\ ~IsAmbiguous(r, LatestVersion(r))
    BY <1>4, <2>1 DEF FinalizeConflict
  <2>3. ASSUME NEW w \in SameTable(r) PROVE CreatedAt[w] < CreatedAt[r]
    <3>1. /\ LatestVersion(r) \in SameTable(r)
          /\ LatestVersion(r) # None
          /\ CreatedAt[w] <= CreatedAt[LatestVersion(r)]
      BY <1>1, <2>3, LatestIsNewest
    <3>2. CreatedAt[r] \in Nat /\ CreatedAt[w] \in Nat /\ CreatedAt[LatestVersion(r)] \in Nat
      BY <1>1, <2>3, <3>1 DEF SameTable, TypeOK, MetadataType, DestinationAssumption
    <3> QED
      BY <2>1, <2>2, <3>1, <3>2 DEF IsOlder, IsAmbiguous
  <2> QED
    BY <1>1, <1>4, <2>3 DEF Finalize, VersionsWith
<1> QED
  BY <1>2, <1>3, <1>4

\* A recorded version is newer than all others of its table, so there still is a newest.
LEMMA NewestExistsNext ==
  ASSUME TypeOK, Engaged, NewestExists, Next
  PROVE  NewestExists'
<1>1. CASE UNCHANGED history
  BY <1>1 DEF history, NewestExists, SameTable
<1>2. ASSUME NEW p \in Procs, Finalize(p), ~UNCHANGED history PROVE NewestExists'
  <2> DEFINE r == cur[p]
  <2>1. /\ r \in Runs
        /\ \A w \in SameTable(r) : CreatedAt[w] < CreatedAt[r]
        /\ versions' = versions \cup {r}
    BY <1>2, FinalizeRecords
  <2>2. ASSUME NEW s \in Runs, SameTable(s)' # {}
        PROVE  \E v \in SameTable(s)' : \A w \in SameTable(s)' : CreatedAt[w] <= CreatedAt[v]
    <3>1. CASE TableOf[s] = TableOf[r]
      <4>1. SameTable(s)' = SameTable(r) \cup {r}
        BY <2>1, <3>1 DEF SameTable
      <4>2. \A w \in SameTable(r) \cup {r} : CreatedAt[w] <= CreatedAt[r]
        BY <2>1 DEF SameTable, TypeOK, MetadataType, DestinationAssumption
      <4> QED
        BY <4>1, <4>2
    <3>2. CASE TableOf[s] # TableOf[r]
      <4>1. SameTable(s)' = SameTable(s)
        BY <2>1, <3>2 DEF SameTable
      <4> QED
        BY <2>2, <4>1 DEF NewestExists
    <3> QED
      BY <3>1, <3>2
  <2> QED
    BY <2>2 DEF NewestExists
<1> QED
  BY <1>1, <1>2, HistoryFrame

\* Recording a version keeps the chain of versions, each naming the one before it.
LEMMA VersionChainNext ==
  ASSUME TypeOK, Engaged, NewestExists, VersionChain, Next
  PROVE  VersionChain'
<1>1. CASE UNCHANGED history
  BY <1>1 DEF history, VersionChain
<1>2. ASSUME NEW p \in Procs, Finalize(p), ~UNCHANGED history PROVE VersionChain'
  <2> DEFINE r == cur[p]
  <2>1. /\ r \in Runs \ versions
        /\ \A w \in SameTable(r) : CreatedAt[w] < CreatedAt[r]
        /\ versions' = versions \cup {r}
        /\ previous' = [previous EXCEPT ![r] = LatestVersion(r)]
    BY <1>2, FinalizeRecords
  <2>2. /\ \A v \in versions \cup {r} : CreatedAt[v] \in Nat
        /\ versions \subseteq Runs /\ previous \in [Runs -> Runs \cup {None}]
    BY <2>1 DEF TypeOK, MetadataType, DestinationAssumption
  <2> DEFINE Chained(v) ==
    /\ previous'[v] # None =>
         /\ previous'[v] \in versions'
         /\ TableOf[previous'[v]] = TableOf[v]
         /\ CreatedAt[previous'[v]] < CreatedAt[v]
    /\ \A w \in versions' \ {v} : TableOf[w] = TableOf[v] =>
         /\ CreatedAt[w] # CreatedAt[v]
         /\ CreatedAt[w] < CreatedAt[v] =>
              previous'[v] # None /\ CreatedAt[w] <= CreatedAt[previous'[v]]
  <2>3. Chained(r)
    <3>1. previous'[r] = LatestVersion(r)
      BY <2>1, <2>2
    <3>2. LatestVersion(r) # None =>
            LatestVersion(r) \in versions /\ TableOf[LatestVersion(r)] = TableOf[r]
            /\ CreatedAt[LatestVersion(r)] < CreatedAt[r]
      BY <2>1, LatestIsNewest DEF SameTable
    <3>3. ASSUME NEW w \in versions, TableOf[w] = TableOf[r]
          PROVE  CreatedAt[w] < CreatedAt[r] /\ LatestVersion(r) # None
                   /\ CreatedAt[w] <= CreatedAt[LatestVersion(r)]
      BY <2>1, <3>3, LatestIsNewest DEF SameTable
    <3> QED
      BY <2>1, <2>2, <3>1, <3>2, <3>3
  <2>4. ASSUME NEW v \in versions PROVE Chained(v)
    <3>1. previous'[v] = previous[v] /\ v # r
      BY <2>1, <2>2
    <3>2. TableOf[r] = TableOf[v] => CreatedAt[v] < CreatedAt[r]
      BY <2>1 DEF SameTable
    <3> QED
      BY <2>1, <2>2, <3>1, <3>2 DEF VersionChain
  <2> QED
    BY <2>1, <2>3, <2>4 DEF VersionChain
<1> QED
  BY <1>1, <1>2, HistoryFrame


\* No recorded version is ever lost.
LEMMA VersionsGrow ==
  ASSUME TypeOK, Engaged, NewestExists, Next
  PROVE  versions \subseteq versions'
BY HistoryFrame, FinalizeRecords DEF history

-----------------------------------------------------------------------------
(* VERIFIED and SUPERSEDED mean what the version history says                *)

\* Only the recording transaction makes a run VERIFIED, only the ordering
\* against a newer version makes it SUPERSEDED.
LEMMA SettledStatus ==
  ASSUME TypeOK, Engaged, NEW r \in Runs, Next
  PROVE  /\ status'[r] = "VERIFIED" =>
              status[r] = "VERIFIED" \/ \E p \in Procs : Finalize(p) /\ r \in versions'
         /\ status'[r] = "SUPERSEDED" =>
              status[r] = "SUPERSEDED" \/ IsOlder(r, LatestVersion(r))
<1> DEFINE Meant ==
  /\ status'[r] = "VERIFIED" =>
       status[r] = "VERIFIED" \/ \E p \in Procs : Finalize(p) /\ r \in versions'
  /\ status'[r] = "SUPERSEDED" => status[r] = "SUPERSEDED" \/ IsOlder(r, LatestVersion(r))
<1> USE DEF metadata, SetStatus, FailRun, TypeOK, MetadataType
<1>1. ASSUME NEW s \in Runs, Environment(s) PROVE Meant
  BY <1>1 DEF Environment, Deliver, Redeliver
<1>2. ASSUME NEW p \in Procs, NEW s \in Runs, StartCleanup(p, s) \/ StartRun(p, s) PROVE Meant
  BY <1>2 DEF StartCleanup, StartRun
<1>3. ASSUME NEW p \in Procs, Failure(p) PROVE Meant
  BY <1>3 DEF Failure, Crash, ChunkFails, StatementFails, CleanupFails
<1>4. ASSUME NEW p \in Procs, Register(p) PROVE Meant
  BY <1>4 DEF Register, Dispatch
<1>5. ASSUME NEW p \in Procs, OrderStaged(p) \/ Recover(p) PROVE Meant
  BY <1>5 DEF OrderStaged, Recover, Order
<1>6. ASSUME NEW p \in Procs, Finalize(p) PROVE Meant
  BY <1>6 DEF Finalize, VersionsWith
<1>7. ASSUME NEW p \in Procs, Step(p), ~Register(p), ~OrderStaged(p), ~Recover(p), ~Finalize(p)
      PROVE  Meant
  BY <1>7 DEF Step, AcquireRunLock, AcquireTableLock, Stage, BeginImport, PickChunk, ImportChunk,
     CompleteStaged, SetVerifying, Verify, PrepareSwapping,
     Rename, Reverify, Reswap, CheckBackup, DropBackup, RecordBackup, CheckStaging, DropStaging,
     RemoveManifest, RemoveRest, RecordIncoming, Unlock
<1> QED
  BY <1>1, <1>2, <1>3, <1>4, <1>5, <1>6, <1>7 DEF Next

\* "Older than the latest version" is "superseded by some version".
LEMMA OlderIsSuperseded ==
  ASSUME TypeOK, NewestExists, NEW r \in Runs, IsOlder(r, LatestVersion(r))
  PROVE  Superseded(r)
BY LatestIsNewest DEF IsOlder, Superseded, Newer, SameTable, TypeOK, MetadataType, DestinationAssumption

\* A run is marked VERIFIED only with its version recorded.
LEMMA VerifiedIsRecordedNext ==
  ASSUME TypeOK, Engaged, NewestExists, VerifiedIsRecorded, Next
  PROVE  VerifiedIsRecorded'
BY SettledStatus, VersionsGrow DEF VerifiedIsRecorded

\* A processor enters a cleanup, or goes on in it, only with cause.
LEMMA CleanupEntered ==
  ASSUME TypeOK, Engaged, NewestExists, VerifiedIsRecorded, CleanupIsDue, NEW p \in Procs,
         Step(p) \/ Failure(p) \/ \E r \in Runs : StartCleanup(p, r) \/ StartRun(p, r)
  PROVE  CleanupDue(p)'
<1>1. versions \subseteq versions' /\ \A r \in Runs : Superseded(r) => Superseded(r)'
  BY VersionsGrow DEF Superseded, Newer, Next
<1> USE DEF CleanupDue, Goto, TypeOK, LocalType, local, metadata, CleanupPoints
<1>2. ASSUME NEW r \in Runs, StartCleanup(p, r) PROVE CleanupDue(p)'
  BY <1>1, <1>2 DEF StartCleanup, EnterVerifiedCleanup, EnterSupersededCleanup, CleanupIsDue,
     VerifiedIsRecorded
<1>3. ASSUME NEW r \in Runs, StartRun(p, r) PROVE CleanupDue(p)'
  BY <1>3 DEF StartRun
<1> DEFINE r == cur[p]
<1>4. ASSUME Step(p) \/ Failure(p) PROVE CleanupDue(p)'
  <2>1. r \in Runs
    BY <1>4, BusyHasRun
  <2> USE <1>1, <2>1
  <2>2. CASE Register(p)
    BY <2>2 DEF Register, Dispatch, EnterVerifiedCleanup, FailRun, VerifiedIsRecorded
  <2>3. CASE OrderStaged(p) \/ Recover(p)
    <3>1. CASE IsOlder(r, LatestVersion(r))
      <4>1. Superseded(r)' /\ cur' = cur
        BY <2>3, <3>1, OlderIsSuperseded DEF OrderStaged, Recover
      <4>2. pc'[p] \notin {"backup", "drop_backup", "record_backup"}
        BY <2>3, <3>1 DEF OrderStaged, Recover, Order, EnterSupersededCleanup, FailRun
      <4> QED
        BY <4>1, <4>2
    <3>2. CASE ~IsOlder(r, LatestVersion(r))
      BY <2>3, <3>2 DEF OrderStaged, Recover, Order, FailRun
    <3> QED
      BY <3>1, <3>2
  <2>4. CASE Finalize(p)
    BY <2>4 DEF Finalize, VersionsWith, EnterVerifiedCleanup, FailRun
  <2>5. CASE CheckBackup(p) \/ DropBackup(p) \/ RecordBackup(p) \/ CheckStaging(p) \/ DropStaging(p)
             \/ RemoveManifest(p) \/ RemoveRest(p) \/ RecordIncoming(p)
    BY <2>5 DEF CheckBackup, DropBackup, RecordBackup, CheckStaging, DropStaging, RemoveManifest,
       RemoveRest, RecordIncoming, CleanupIsDue
  <2>6. CASE CleanupFails(p)
    BY <2>6 DEF CleanupFails, CleanupIsDue
  <2>7. CASE Failure(p) /\ ~CleanupFails(p)
    BY <2>7 DEF Failure, Crash, Leave, ChunkFails, StatementFails, FailRun
  <2>8. CASE AcquireRunLock(p) \/ AcquireTableLock(p) \/ Stage(p) \/ BeginImport(p) \/ PickChunk(p)
             \/ ImportChunk(p) \/ CompleteStaged(p) \/ Unlock(p)
    BY <2>8 DEF AcquireRunLock, AcquireTableLock, Stage, BeginImport, PickChunk, ImportChunk,
       CompleteStaged, Unlock, Leave, FailRun
  <2>9. CASE SetVerifying(p) \/ Verify(p) \/ PrepareSwapping(p) \/ Rename(p) \/ Reverify(p)
             \/ Reswap(p)
    BY <2>9 DEF SetVerifying, Verify, PrepareSwapping, Rename, Reverify, Reswap, FailRun
  <2> QED
    BY <1>4, <2>2, <2>3, <2>4, <2>5, <2>6, <2>7, <2>8, <2>9 DEF Step, Failure
<1> QED
  BY <1>2, <1>3, <1>4

\* Cleanups are begun only for recorded or superseded runs, and stay due.
LEMMA CleanupIsDueNext ==
  ASSUME TypeOK, Engaged, NewestExists, VerifiedIsRecorded, CleanupIsDue, Next
  PROVE  CleanupIsDue'
<1>1. versions \subseteq versions' /\ \A r \in Runs : Superseded(r) => Superseded(r)'
  BY VersionsGrow DEF Superseded, Newer
<1>2. ASSUME NEW r \in Runs, status'[r] = "SUPERSEDED" PROVE Superseded(r)'
  BY <1>1, <1>2, SettledStatus, OlderIsSuperseded DEF CleanupIsDue
<1>3. ASSUME NEW r \in Runs, Environment(r) PROVE UNCHANGED <<pc, cur>>
  BY <1>3 DEF Environment, Deliver, Redeliver, local
<1>4. ASSUME NEW p \in Procs, NEW q \in Procs,
             Step(p) \/ Failure(p) \/ \E r \in Runs : StartCleanup(p, r) \/ StartRun(p, r)
      PROVE  CleanupDue(q)'
  <2>1. CASE q = p
    BY <1>4, <2>1, CleanupEntered
  <2>2. CASE q # p
    <3>1. pc'[q] = pc[q] /\ cur'[q] = cur[q]
      BY <1>4, <2>2, OthersKeep
    <3>2. pc[q] \in CleanupPoints => cur[q] \in Runs
      BY DEF Engaged, CleanupPoints
    <3> QED
      BY <1>1, <3>1, <3>2 DEF CleanupIsDue, CleanupDue
  <2> QED
    BY <2>1, <2>2
<1>5. ASSUME UNCHANGED <<pc, cur>>, NEW q \in Procs
      PROVE  CleanupDue(q)'
  BY <1>1, <1>5 DEF CleanupIsDue, CleanupDue, Engaged, CleanupPoints
<1> QED
  BY <1>2, <1>3, <1>4, <1>5 DEF Next, CleanupIsDue


-----------------------------------------------------------------------------
(* What the steps of a processor leave alone                                 *)

\* Every step other than those named leaves the staging tables unchanged ...
LEMMA StagingFrame ==
  ASSUME NEW p \in Procs, Step(p) \/ Failure(p),
         ~Stage(p), ~ImportChunk(p), ~Rename(p), ~DropStaging(p)
  PROVE  UNCHANGED staging
BY DEF tables, Step, Failure, AcquireRunLock, AcquireTableLock, Register, BeginImport, PickChunk,
   CompleteStaged, SetVerifying, Verify, OrderStaged,
   PrepareSwapping, Finalize, Recover, Reverify, Reswap, CheckBackup, DropBackup, RecordBackup,
   CheckStaging, RemoveManifest, RemoveRest, RecordIncoming, Unlock, Crash, ChunkFails,
   StatementFails, CleanupFails

\* ... the live tables ...
LEMMA LiveFrame ==
  ASSUME NEW p \in Procs, Step(p) \/ Failure(p), ~Rename(p)
  PROVE  UNCHANGED live
BY DEF tables, Step, Failure, AcquireRunLock, AcquireTableLock, Register, Stage, BeginImport,
   PickChunk, ImportChunk, CompleteStaged, SetVerifying, Verify,
   OrderStaged, PrepareSwapping, Finalize, Recover, Reverify, Reswap, CheckBackup, DropBackup,
   RecordBackup, CheckStaging, DropStaging, RemoveManifest, RemoveRest, RecordIncoming, Unlock,
   Crash, ChunkFails, StatementFails, CleanupFails

\* ... and the chunk records.
LEMMA ChunkFrame ==
  ASSUME NEW p \in Procs, Step(p) \/ Failure(p),
         ~ImportChunk(p), ~ChunkFails(p)
  PROVE  UNCHANGED chunk
BY DEF metadata, Step, Failure, AcquireRunLock, AcquireTableLock, Register, Stage, BeginImport,
   PickChunk, CompleteStaged, SetVerifying, Verify, OrderStaged, PrepareSwapping, Rename, Finalize,
   Recover, Reverify, Reswap, CheckBackup, DropBackup, RecordBackup, CheckStaging, DropStaging,
   RemoveManifest, RemoveRest, RecordIncoming, Unlock, Crash, StatementFails, CleanupFails

\* Starting a processor and the transfer touch neither metadata nor tables.
LEMMA StartFrame ==
  ASSUME NEW p \in Procs, NEW r \in Runs, StartCleanup(p, r) \/ StartRun(p, r)
  PROVE  UNCHANGED <<metadata, tables>>
BY DEF StartCleanup, StartRun

\* What happens outside the processors leaves metadata, tables, locks and processors
\* alone.
LEMMA EnvironmentFrame ==
  ASSUME NEW r \in Runs, Environment(r)
  PROVE  UNCHANGED <<metadata, tables, locks, pc, local>>
BY DEF Environment, Deliver, Redeliver

\* A processor changes the status, chunks and staging table of its own run only
\* and the live table of its own table only.
LEMMA OtherRunsKeep ==
  ASSUME TypeOK, NEW p \in Procs, Step(p) \/ Failure(p), NEW r \in Runs \ {cur[p]}
  PROVE  status'[r] = status[r] /\ chunk'[r] = chunk[r] /\ staging'[r] = staging[r]
<1> USE DEF TypeOK, MetadataType, TablesType
<1>1. staging'[r] = staging[r]
  BY StagingFrame DEF Stage, ImportChunk, Rename, DropStaging, tables
<1>2. chunk'[r] = chunk[r]
  BY ChunkFrame DEF ImportChunk, ChunkFails
<1>3. status'[r] = status[r]
  <2> USE DEF metadata, SetStatus, FailRun
  <2>1. CASE Register(p)
    BY <2>1 DEF Register, Dispatch
  <2>2. CASE OrderStaged(p) \/ Recover(p) \/ Finalize(p)
    BY <2>2 DEF OrderStaged, Recover, Order, Finalize
  <2>3. CASE Failure(p)
    BY <2>3 DEF Failure, Crash, ChunkFails, StatementFails, CleanupFails
  <2>4. CASE Step(p) /\ ~Register(p) /\ ~OrderStaged(p) /\ ~Recover(p) /\ ~Finalize(p)
    BY <2>4 DEF Step, AcquireRunLock, AcquireTableLock, Stage, BeginImport, PickChunk, ImportChunk,
       CompleteStaged, SetVerifying, Verify, PrepareSwapping,
       Rename, Reverify, Reswap, CheckBackup, DropBackup, RecordBackup, CheckStaging, DropStaging,
       RemoveManifest, RemoveRest, RecordIncoming, Unlock
  <2> QED
    BY <2>1, <2>2, <2>3, <2>4
<1> QED
  BY <1>1, <1>2, <1>3

\* A processor touches no live table but that of its run.
LEMMA OtherTablesKeep ==
  ASSUME TypeOK, NEW p \in Procs, Step(p) \/ Failure(p), NEW t \in Tables \ {TableOf[cur[p]]}
  PROVE  live'[t] = live[t]
BY LiveFrame DEF Rename, tables, TypeOK, TablesType

\* Without the table lock a processor can only clean up: of its own run it
\* changes no more than to drop the staging table.
LEMMA UnlockedOnlyCleansUp ==
  ASSUME TypeOK, Engaged, NEW p \in Procs, Step(p) \/ Failure(p), ~Holds(p)
  PROVE  UNCHANGED <<status, chunk, live>> /\ \A r \in Runs : staging'[r] \in {staging[r], None}
<1>1. cur[p] \in Runs /\ TableOf[cur[p]] \in Tables /\ cur[p] # None
  BY BusyHasRun DEF DestinationAssumption
<1>2. pc[p] \notin WorkPoints
  BY <1>1 DEF Engaged, Holds
<1>3. Step(p) => ~Register(p) /\ ~Stage(p) /\ ~BeginImport(p) /\ ~PickChunk(p) /\ ~ImportChunk(p)
        /\ ~CompleteStaged(p) /\ ~SetVerifying(p) /\ ~Verify(p)
        /\ ~OrderStaged(p) /\ ~PrepareSwapping(p) /\ ~Rename(p) /\ ~Finalize(p) /\ ~Recover(p)
        /\ ~Reverify(p) /\ ~Reswap(p)
  BY <1>2 DEF WorkPoints, Register, Stage, BeginImport, PickChunk, ImportChunk,
     CompleteStaged, SetVerifying, Verify, OrderStaged, PrepareSwapping,
     Rename, Finalize, Recover, Reverify, Reswap
<1>4. CASE Step(p)
  BY <1>3, <1>4 DEF Step, metadata, tables, AcquireRunLock, AcquireTableLock, CheckBackup, DropBackup,
     RecordBackup, CheckStaging, DropStaging, RemoveManifest, RemoveRest, RecordIncoming, Unlock,
     TypeOK, TablesType
<1>5. CASE Failure(p)
  BY <1>2, <1>5 DEF Failure, metadata, tables, Crash, ChunkFails, StatementFails, CleanupFails,
     WorkPoints
<1> QED
  BY <1>4, <1>5

\* What a working processor can rely on while others take steps: its run's
\* status and chunks and the live table stay as they are, and its staging table
\* at worst disappears.
LEMMA Rely ==
  ASSUME TypeOK, Engaged, NEW q \in Procs, pc[q] \in WorkPoints, NEW p \in Procs \ {q},
         Step(p) \/ Failure(p) \/ \E r \in Runs : StartCleanup(p, r) \/ StartRun(p, r)
  PROVE  LET r == cur[q] IN
         /\ status'[r] = status[r] /\ chunk'[r] = chunk[r]
         /\ staging'[r] \in {staging[r], None}
         /\ live'[TableOf[r]] = live[TableOf[r]]
<1>1. cur[q] \in Runs /\ TableOf[cur[q]] \in Tables /\ tableLock[TableOf[cur[q]]] = q
  BY DEF Engaged, WorkPoints, DestinationAssumption
<1>2. CASE \E r \in Runs : StartCleanup(p, r) \/ StartRun(p, r)
  BY <1>2, StartFrame DEF metadata, tables
<1>3. CASE (Step(p) \/ Failure(p)) /\ ~Holds(p)
  BY <1>1, <1>3, UnlockedOnlyCleansUp
<1>4. CASE (Step(p) \/ Failure(p)) /\ Holds(p)
  <2>1. TableOf[cur[p]] # TableOf[cur[q]] /\ cur[p] # cur[q]
    BY <1>1, <1>4 DEF Holds
  <2> QED
    BY <1>1, <1>4, <2>1, OtherRunsKeep, OtherTablesKeep
<1> QED
  BY <1>2, <1>3, <1>4


-----------------------------------------------------------------------------
(* Imports, swaps and what is served                                         *)

\* The control points of a processor keep their promises while others move.
LEMMA PointsKept ==
  ASSUME InductiveInvariant, NEW q \in Procs, NEW p \in Procs \ {q},
         Step(p) \/ Failure(p) \/ \E r \in Runs : StartCleanup(p, r) \/ StartRun(p, r)
  PROVE  ImportPoint(q)' /\ SwapPoint(q)'
<1>1. pc'[q] = pc[q] /\ cur'[q] = cur[q] /\ known'[q] = known[q] /\ at'[q] = at[q]
  BY OthersKeep DEF InductiveInvariant
<1>2. CASE pc[q] \notin WorkPoints
  BY <1>1, <1>2 DEF ImportPoint, SwapPoint, WorkPoints
<1>3. CASE pc[q] \in WorkPoints
  <2> DEFINE r == cur[q]
  <2>1. /\ status'[r] = status[r] /\ chunk'[r] = chunk[r]
        /\ staging'[r] \in {staging[r], None}
        /\ live'[TableOf[r]] = live[TableOf[r]]
    BY <1>3, Rely DEF InductiveInvariant
  <2>2. ImportPoint(q)'
    BY <1>1, <2>1 DEF ImportPoint, NothingImported, InductiveInvariant
  <2>3. SwapPoint(q)'
    BY <1>1, <2>1 DEF SwapPoint, Ready, Live, InductiveInvariant
  <2> QED
    BY <2>2, <2>3
<1> QED
  BY <1>2, <1>3

\* A chunk is imported at most once: ImportPoint is kept by the processor's own steps.
LEMMA ImportPointNext ==
  ASSUME InductiveInvariant, NEW p \in Procs,
         Step(p) \/ Failure(p) \/ \E r \in Runs : StartCleanup(p, r) \/ StartRun(p, r)
  PROVE  ImportPoint(p)'
<1> USE DEF InductiveInvariant, TypeOK, LocalType, local, Goto, ImportPoint
<1>1. ASSUME NEW r \in Runs, StartCleanup(p, r) \/ StartRun(p, r) PROVE ImportPoint(p)'
  BY <1>1 DEF StartCleanup, EnterVerifiedCleanup, EnterSupersededCleanup, StartRun
<1>2. CASE Register(p)
  <2>1. cur[p] \in Runs
    BY <1>2, BusyHasRun DEF Step
  <2>2. pc'[p] # "import_chunk" /\ UNCHANGED <<cur, chunk>>
    BY <1>2 DEF Register, Dispatch, EnterVerifiedCleanup, FailRun
  <2>3. known'[p] = (status[cur[p]] # "ABSENT")
    BY <1>2 DEF Register
  <2> QED
    BY <2>1, <2>2, <2>3 DEF AbsentIsEmpty, NothingImported
<1>3. CASE PickChunk(p)
  BY <1>3 DEF PickChunk, Remaining, metadata
<1>4. CASE pc'[p] \notin {"stage", "import_chunk"}
  BY <1>4
<1>5. CASE (Step(p) \/ Failure(p)) /\ pc'[p] \in {"stage", "import_chunk"} /\ ~Register(p)
            /\ ~PickChunk(p)
  <2>1. CASE Failure(p)
    BY <1>5, <2>1 DEF Failure, Crash, Leave, ChunkFails, StatementFails, CleanupFails,
       FailRun
  <2>2. CASE OrderStaged(p) \/ Recover(p) \/ Finalize(p)
    BY <1>5, <2>2 DEF OrderStaged, Recover, Order, EnterSupersededCleanup, Finalize,
       EnterVerifiedCleanup, FailRun
  <2>3. CASE Step(p) /\ ~OrderStaged(p) /\ ~Recover(p) /\ ~Finalize(p)
    BY <1>5, <2>3 DEF Step, AcquireRunLock, AcquireTableLock, Stage, BeginImport, ImportChunk,
       CompleteStaged, SetVerifying, Verify, PrepareSwapping,
       Rename, Reverify, Reswap, CheckBackup, DropBackup, RecordBackup, CheckStaging, DropStaging,
       RemoveManifest, RemoveRest, RecordIncoming, Unlock, Leave, FailRun
  <2> QED
    BY <1>5, <2>1, <2>2, <2>3
<1> QED
  BY <1>1, <1>2, <1>3, <1>4, <1>5

\* A run that is not known yet has no chunk imported.
LEMMA AbsentIsEmptyNext ==
  ASSUME InductiveInvariant, NEW p \in Procs, Step(p) \/ Failure(p)
  PROVE  AbsentIsEmpty'
<1>1. PICK r \in Runs : r = cur[p]
  BY BusyHasRun DEF InductiveInvariant
<1>2. ASSUME NEW s \in Runs \ {r}, status'[s] = "ABSENT" PROVE NothingImported(s)'
  BY <1>1, <1>2, OtherRunsKeep DEF InductiveInvariant, AbsentIsEmpty, NothingImported
<1>3. ASSUME status'[r] = "ABSENT" PROVE NothingImported(r)'
  <2> USE DEF metadata, SetStatus, FailRun, InductiveInvariant, TypeOK, MetadataType
  <2>1. status[r] = "ABSENT"
    <3>1. CASE Register(p)
      BY <1>1, <1>3, <3>1 DEF Register, Dispatch
    <3>2. CASE OrderStaged(p) \/ Recover(p) \/ Finalize(p)
      BY <1>1, <1>3, <3>2 DEF OrderStaged, Recover, Order, Finalize
    <3>3. CASE Failure(p)
      BY <1>1, <1>3, <3>3 DEF Failure, Crash, ChunkFails, StatementFails, CleanupFails
    <3>4. CASE Step(p) /\ ~Register(p) /\ ~OrderStaged(p) /\ ~Recover(p) /\ ~Finalize(p)
      BY <1>1, <1>3, <3>4 DEF Step, AcquireRunLock, AcquireTableLock, Stage, BeginImport, PickChunk,
         ImportChunk, CompleteStaged, SetVerifying, Verify,
         PrepareSwapping, Rename, Reverify, Reswap, CheckBackup, DropBackup, RecordBackup,
         CheckStaging, DropStaging, RemoveManifest, RemoveRest, RecordIncoming, Unlock
    <3> QED
      BY <3>1, <3>2, <3>3, <3>4
  <2>2. pc[p] # "import_chunk"
    BY <1>1, <2>1 DEF SwapPoint
  <2>3. UNCHANGED chunk
    BY <2>2, ChunkFrame DEF ImportChunk, ChunkFails
  <2> QED
    BY <1>1, <2>1, <2>3 DEF AbsentIsEmpty, NothingImported
<1> QED
  BY <1>1, <1>2, <1>3 DEF AbsentIsEmpty

\* The staging table keeps holding each imported chunk once and no other.
LEMMA ImportedOnceNext ==
  ASSUME InductiveInvariant, NEW p \in Procs, Step(p) \/ Failure(p)
  PROVE  ImportedOnce'
<1> DEFINE RowsMatch(s) == staging[s] # None =>
             staging[s].rows = [c \in Chunks |-> IF chunk[s][c] = "IMPORTED" THEN 1 ELSE 0]
<1>1. PICK r \in Runs : r = cur[p]
  BY BusyHasRun DEF InductiveInvariant
<1>2. RowsMatch(r) /\ ImportPoint(p)
  BY <1>1 DEF InductiveInvariant, ImportedOnce
<1>3. ASSUME NEW s \in Runs \ {r} PROVE RowsMatch(s)'
  BY <1>1, <1>3, OtherRunsKeep DEF InductiveInvariant, ImportedOnce
<1>4. RowsMatch(r)'
  <2> USE <1>1, <1>2 DEF InductiveInvariant, TypeOK, TablesType, MetadataType
  <2>1. CASE Stage(p)
    <3>1. UNCHANGED chunk
      BY <2>1 DEF Stage
    <3>2. CASE staging'[r] = staging[r]
      BY <3>1, <3>2
    <3>3. CASE staging'[r] # staging[r]
      <4>1. staging[r] = None /\ staging'[r] = EmptyStaging(r) /\ ~StagingMismatch(p, r)
        BY <2>1, <3>3 DEF Stage
      <4>2. NothingImported(r)
        BY <2>1, <4>1 DEF Stage, StagingMismatch, ImportPoint, NothingImported
      <4> QED
        BY <3>1, <4>1, <4>2 DEF EmptyStaging, Rows, NothingImported
    <3> QED
      BY <3>2, <3>3
  <2>2. CASE ImportChunk(p)
    <3> DEFINE a == at[p]
    <3>1. a \in Chunks /\ chunk[r][a] # "IMPORTED" /\ staging[r] # None
      BY <2>2 DEF ImportChunk, ImportPoint
    <3>2. staging'[r] = InsertRows(staging[r], a) /\ chunk'[r] = [chunk[r] EXCEPT ![a] = "IMPORTED"]
      BY <2>2 DEF ImportChunk
    <3>3. staging[r] \in Contents
      BY <3>1
    <3>4. staging'[r].rows = [staging[r].rows EXCEPT ![a] = @ + 1]
      BY <3>2, <3>3 DEF InsertRows, Contents
    <3>5. staging[r].rows = [c \in Chunks |-> IF chunk[r][c] = "IMPORTED" THEN 1 ELSE 0]
      BY <3>1
    <3>6. chunk[r] \in [Chunks -> {"PENDING", "IMPORTED", "FAILED"}]
      OBVIOUS
    <3> QED
      BY <3>1, <3>2, <3>4, <3>5, <3>6
  <2>3. CASE ChunkFails(p)
    <3> DEFINE a == at[p]
    <3>1. a \in Chunks /\ chunk[r][a] # "IMPORTED"
      BY <2>3 DEF ChunkFails, ImportPoint
    <3>2. UNCHANGED staging /\ chunk'[r] = [chunk[r] EXCEPT ![a] = "FAILED"]
      BY <2>3 DEF ChunkFails, tables
    <3>3. chunk[r] \in [Chunks -> {"PENDING", "IMPORTED", "FAILED"}]
      OBVIOUS
    <3>4. \A c \in Chunks : chunk'[r][c] = "IMPORTED" <=> chunk[r][c] = "IMPORTED"
      BY <3>1, <3>2, <3>3
    <3> QED
      BY <3>2, <3>4
  <2>4. CASE Rename(p) \/ DropStaging(p)
    <3>1. UNCHANGED chunk
      BY <2>4 DEF Rename, DropStaging, metadata
    <3>2. staging'[r] \in {staging[r], None}
      BY <2>4 DEF Rename, DropStaging, tables
    <3> QED
      BY <3>1, <3>2
  <2>5. CASE ~Stage(p) /\ ~ImportChunk(p) /\ ~ChunkFails(p)
             /\ ~Rename(p) /\ ~DropStaging(p)
    <3>1. UNCHANGED <<staging, chunk>>
      BY <2>5, StagingFrame, ChunkFrame
    <3> QED
      BY <3>1
  <2> QED
    BY <2>1, <2>2, <2>3, <2>4, <2>5
<1> QED
  BY <1>3, <1>4 DEF ImportedOnce


\* A run found SWAPPING is ready to be served, and a staging table is its run's.
LEMMA SwapReadyNext ==
  ASSUME InductiveInvariant, NEW p \in Procs, Step(p) \/ Failure(p)
  PROVE  SwapReady'
<1> DEFINE Safe(s) == /\ staging[s] # None => staging[s].run = s
                      /\ status[s] = "SWAPPING" => Ready(s)
<1>1. PICK r \in Runs : r = cur[p]
  BY BusyHasRun DEF InductiveInvariant
<1>2. ASSUME NEW s \in Runs \ {r} PROVE Safe(s)'
  BY <1>1, <1>2, OtherRunsKeep DEF InductiveInvariant, SwapReady, Ready
<1>3. Safe(r) /\ SwapPoint(p)
  BY <1>1 DEF InductiveInvariant, SwapReady
<1>4. Safe(r)'
  <2> USE <1>1, <1>3 DEF InductiveInvariant, TypeOK, TablesType, MetadataType, SetStatus
  <2>1. CASE Stage(p)
    <3>1. status'[r] # "SWAPPING"
      BY <2>1 DEF Stage, SwapPoint, FailRun
    <3>2. staging'[r] \in {staging[r], EmptyStaging(r)}
      BY <2>1 DEF Stage
    <3> QED
      BY <3>1, <3>2 DEF EmptyStaging
  <2>2. CASE ImportChunk(p)
    <3>1. status'[r] # "SWAPPING"
      BY <2>2 DEF ImportChunk, SwapPoint
    <3>2. staging[r] # None /\ staging'[r] = InsertRows(staging[r], at[p])
      BY <2>2 DEF ImportChunk
    <3>3. staging'[r].run = r
      BY <3>2 DEF InsertRows, Contents
    <3> QED
      BY <3>1, <3>3
  <2>3. CASE Rename(p) \/ DropStaging(p)
    <3>1. staging'[r] \in {staging[r], None}
      BY <2>3 DEF Rename, DropStaging, tables
    <3>2. CASE staging'[r] = None
      BY <3>2 DEF Ready
    <3>3. CASE staging'[r] = staging[r]
      <4>1. status'[r] = "SWAPPING" => status[r] = "SWAPPING"
        BY <2>3 DEF Rename, DropStaging, FailRun, metadata
      <4> QED
        BY <3>3, <4>1 DEF Ready
    <3> QED
      BY <3>1, <3>2, <3>3
  <2>4. CASE UNCHANGED staging
    <3>1. status'[r] = "SWAPPING" => status[r] = "SWAPPING" \/ PrepareSwapping(p) \/ Reswap(p)
      <4> USE DEF metadata, FailRun
      <4>1. CASE Register(p)
        BY <4>1 DEF Register, Dispatch
      <4>2. CASE OrderStaged(p) \/ Recover(p) \/ Finalize(p)
        BY <4>2 DEF OrderStaged, Recover, Order, Finalize
      <4>3. CASE Failure(p)
        BY <4>3 DEF Failure, Crash, ChunkFails, StatementFails, CleanupFails
      <4>4. CASE Step(p) /\ ~Register(p) /\ ~OrderStaged(p) /\ ~Recover(p) /\ ~Finalize(p)
        BY <4>4 DEF Step, AcquireRunLock, AcquireTableLock, Stage, BeginImport, PickChunk,
           ImportChunk, CompleteStaged, SetVerifying, Verify,
           Rename, Reverify, CheckBackup, DropBackup, RecordBackup, CheckStaging, DropStaging,
           RemoveManifest, RemoveRest, RecordIncoming, Unlock
      <4> QED
        BY <4>1, <4>2, <4>3, <4>4
    <3>2. PrepareSwapping(p) \/ Reswap(p) => Ready(r)
      BY DEF PrepareSwapping, Reswap, SwapPoint
    <3> QED
      BY <2>4, <3>1, <3>2 DEF Ready
  <2>5. UNCHANGED staging \/ Stage(p) \/ ImportChunk(p) \/ Rename(p) \/ DropStaging(p)
    BY StagingFrame
  <2> QED
    BY <2>1, <2>2, <2>3, <2>4, <2>5
<1> QED
  BY <1>2, <1>4 DEF SwapReady

\* Each control point of the swap and of its recovery is reached with what it relies on.
LEMMA SwapPointNext ==
  ASSUME InductiveInvariant, NEW p \in Procs, Step(p) \/ Failure(p)
  PROVE  SwapPoint(p)'
<1>1. PICK r \in Runs : r = cur[p]
  BY BusyHasRun DEF InductiveInvariant
<1>2. cur'[p] = r \/ pc'[p] = "idle"
  BY <1>1, RunKept DEF InductiveInvariant
<1> DEFINE SwapPoints == {"stage", "begin_import", "import", "import_chunk", "recover", "order",
                          "promote", "rename", "reverify", "reswap", "finalize"}
<1>3. CASE pc'[p] \notin SwapPoints
  BY <1>3 DEF SwapPoint
<1> USE <1>1 DEF InductiveInvariant, TypeOK, LocalType, MetadataType, Goto, SetStatus, local
<1>4. SwapPoint(p)
  OBVIOUS
<1>5. CASE Register(p)
  BY <1>5 DEF Register, Dispatch, EnterVerifiedCleanup, FailRun, SwapPoint
<1>6. CASE Stage(p) \/ BeginImport(p) \/ PickChunk(p) \/ ImportChunk(p) \/ CompleteStaged(p)
  BY <1>4, <1>6 DEF Stage, BeginImport, PickChunk, ImportChunk, CompleteStaged, FailRun, SwapPoint,
     metadata
<1>7. CASE Verify(p)
  BY <1>7 DEF Verify, FailRun, SwapPoint, Ready, tables
<1>8. CASE OrderStaged(p)
  BY <1>4, <1>8 DEF OrderStaged, Order, EnterSupersededCleanup, FailRun, SwapPoint, Ready, tables
<1>9. CASE PrepareSwapping(p)
  BY <1>4, <1>9 DEF PrepareSwapping, FailRun, SwapPoint, Ready, tables
<1>10. CASE Rename(p)
  <2>1. CASE ~Renamable(r)
    BY <1>10, <2>1 DEF Rename, FailRun, SwapPoint
  <2>2. CASE Renamable(r)
    <3>1. staging[r] # None /\ MatchesManifest(staging[r], r)
      BY <1>4, <1>10, <2>2 DEF Rename, Renamable, SwapPoint, Ready
    <3>2. live'[TableOf[r]] = staging[r] /\ pc'[p] = "finalize" /\ cur' = cur
      BY <1>10, <2>2 DEF Rename, TablesType, DestinationAssumption
    <3> QED
      BY <3>1, <3>2 DEF SwapPoint, Live, MatchesManifest
  <2> QED
    BY <2>1, <2>2
<1>11. CASE Recover(p)
  <2>1. UNCHANGED <<staging, live, cur>>
    BY <1>11 DEF Recover, tables
  <2>2. Ready(r)
    BY <1>4, <1>11 DEF Recover, SwapPoint, SwapReady
  <2>3. pc'[p] \in SwapPoints =>
          pc'[p] = "rename" \/ (pc'[p] = "reverify" /\ live[TableOf[r]] # None)
    BY <1>11 DEF Recover, Order, EnterSupersededCleanup, FailRun, Renamed
  <2> QED
    BY <1>3, <2>1, <2>2, <2>3 DEF SwapPoint, Ready
<1>12. CASE Reverify(p)
  BY <1>4, <1>12 DEF Reverify, FailRun, SwapPoint, Ready, Live, MatchesManifest, tables
<1>13. CASE Reswap(p)
  BY <1>4, <1>13 DEF Reswap, SwapPoint, Live, tables
<1>14. CASE Failure(p)
  BY <1>3, <1>14 DEF Failure, Crash, Leave, ChunkFails, StatementFails, CleanupFails,
     FailRun
<1>15. CASE Finalize(p)
  BY <1>3, <1>15 DEF Finalize, EnterVerifiedCleanup, FailRun
<1>16. CASE AcquireRunLock(p) \/ AcquireTableLock(p) \/ SetVerifying(p)
             \/ CheckBackup(p) \/ DropBackup(p) \/ RecordBackup(p) \/ CheckStaging(p)
             \/ DropStaging(p) \/ RemoveManifest(p) \/ RemoveRest(p) \/ RecordIncoming(p) \/ Unlock(p)
  BY <1>3, <1>16 DEF AcquireRunLock, AcquireTableLock,
     SetVerifying, CheckBackup, DropBackup, RecordBackup, CheckStaging, DropStaging,
     RemoveManifest, RemoveRest, RecordIncoming, Unlock, Leave, FailRun
<1> QED
  BY <1>5, <1>6, <1>7, <1>8, <1>9, <1>10, <1>11, <1>12, <1>13, <1>14, <1>15, <1>16 DEF Step

\* No step leaves a live table that is partial or of a digest that did not match.
LEMMA ServedCompleteNext ==
  ASSUME InductiveInvariant, NEW p \in Procs, Step(p) \/ Failure(p)
  PROVE  ServedComplete'
<1>1. PICK r \in Runs : r = cur[p]
  BY BusyHasRun DEF InductiveInvariant
<1>2. CASE UNCHANGED live
  BY <1>2 DEF InductiveInvariant, ServedComplete
<1>3. CASE Rename(p) /\ ~UNCHANGED live
  <2>1. Renamable(r)
    BY <1>1, <1>3 DEF Rename, tables
  <2>2. staging[r] # None /\ MatchesManifest(staging[r], r)
    BY <1>1, <1>3, <2>1 DEF Rename, Renamable, SwapPoint, Ready, InductiveInvariant
  <2>3. live' = [live EXCEPT ![TableOf[r]] = staging[r]]
    BY <1>1, <1>3, <2>1 DEF Rename
  <2> QED
    BY <2>2, <2>3 DEF ServedComplete, MatchesManifest, InductiveInvariant, TypeOK, TablesType
<1> QED
  BY <1>2, <1>3, LiveFrame


-----------------------------------------------------------------------------
(* The inductive invariant                                                   *)

\* The inductive invariant holds initially.
LEMMA InductiveInit == Init => InductiveInvariant
<1> SUFFICES ASSUME Init PROVE InductiveInvariant
  OBVIOUS
<1>1. TypeOK
  BY TypeInit
<1>2. Engaged /\ NewestExists /\ VersionChain /\ VerifiedIsRecorded /\ CleanupIsDue
  BY DEF Init, Engaged, NewestExists, SameTable, VersionChain, VerifiedIsRecorded, CleanupIsDue,
     CleanupDue, WorkPoints, CleanupPoints
<1>3. AbsentIsEmpty /\ ImportedOnce /\ SwapReady
  BY DEF Init, AbsentIsEmpty, NothingImported, ImportedOnce, SwapReady, Ready
<1>4. ServedComplete
  BY DEF Init, ServedComplete, ForeignTable
<1>5. \A p \in Procs : ImportPoint(p) /\ SwapPoint(p)
  BY DEF Init, ImportPoint, SwapPoint
<1> QED
  BY <1>1, <1>2, <1>3, <1>4, <1>5 DEF InductiveInvariant

\* Every step keeps the inductive invariant.
LEMMA InductiveNext == InductiveInvariant /\ [Next]_vars => InductiveInvariant'
<1> SUFFICES ASSUME InductiveInvariant, [Next]_vars PROVE InductiveInvariant'
  OBVIOUS
<1>1. CASE UNCHANGED vars
  <2> USE <1>1 DEF vars, env, files, failures, metadata, cleanup, history, tables, locks, local
  <2>1. TypeOK'
    BY DEF InductiveInvariant, TypeOK, EnvironmentType, MetadataType, TablesType, LocksType, LocalType
  <2>2. Engaged' /\ CleanupIsDue'
    BY DEF InductiveInvariant, Engaged, CleanupIsDue, CleanupDue, Superseded
  <2>3. NewestExists' /\ VersionChain' /\ VerifiedIsRecorded'
    BY DEF InductiveInvariant, NewestExists, SameTable, VersionChain, VerifiedIsRecorded
  <2>4. AbsentIsEmpty' /\ ImportedOnce' /\ SwapReady' /\ ServedComplete'
    BY DEF InductiveInvariant, AbsentIsEmpty, NothingImported, ImportedOnce, SwapReady, Ready,
       ServedComplete
  <2>5. \A p \in Procs : ImportPoint(p)' /\ SwapPoint(p)'
    BY DEF InductiveInvariant, ImportPoint, NothingImported, SwapPoint, Ready, Live
  <2> QED
    BY <2>1, <2>2, <2>3, <2>4, <2>5 DEF InductiveInvariant
<1>2. CASE Next
  <2>1. TypeOK' /\ Engaged' /\ NewestExists' /\ VersionChain' /\ VerifiedIsRecorded' /\ CleanupIsDue'
    BY <1>2, TypeNext, EngagedNext, NewestExistsNext, VersionChainNext, VerifiedIsRecordedNext,
       CleanupIsDueNext DEF InductiveInvariant
  <2> DEFINE Data == AbsentIsEmpty /\ ImportedOnce /\ SwapReady /\ ServedComplete
             Points(q) == ImportPoint(q) /\ SwapPoint(q)
  <2>2. ASSUME UNCHANGED <<metadata, tables>> PROVE Data'
    BY <2>2 DEF metadata, tables, InductiveInvariant, AbsentIsEmpty, NothingImported, ImportedOnce,
       SwapReady, Ready, ServedComplete
  <2>3. ASSUME NEW r \in Runs, Environment(r) PROVE Data' /\ \A q \in Procs : Points(q)'
    <3>1. UNCHANGED <<metadata, tables, locks, pc, local>>
      BY <2>3, EnvironmentFrame
    <3>2. \A q \in Procs : Points(q)'
      BY <3>1 DEF metadata, tables, local, InductiveInvariant, ImportPoint, SwapPoint,
         NothingImported, Ready, Live
    <3> QED
      BY <2>2, <3>1, <3>2
  <2>4. ASSUME NEW p \in Procs, NEW r \in Runs, StartCleanup(p, r) \/ StartRun(p, r)
        PROVE  Data' /\ \A q \in Procs : Points(q)'
    <3>1. Data'
      BY <2>2, <2>4, StartFrame
    <3>2. SwapPoint(p)'
      BY <2>4 DEF StartCleanup, EnterVerifiedCleanup, EnterSupersededCleanup, StartRun, Goto,
         SwapPoint, InductiveInvariant, TypeOK, LocalType
    <3> QED
      BY <2>4, <3>1, <3>2, ImportPointNext, PointsKept
  <2>5. ASSUME NEW p \in Procs, Step(p) \/ Failure(p)
        PROVE  Data' /\ \A q \in Procs : Points(q)'
    BY <2>5, AbsentIsEmptyNext, ImportedOnceNext, SwapReadyNext, ServedCompleteNext,
       ImportPointNext, SwapPointNext, PointsKept
  <2> QED
    BY <1>2, <2>1, <2>3, <2>4, <2>5 DEF Next, InductiveInvariant
<1> QED
  BY <1>1, <1>2

\* Every reachable state satisfies the inductive invariant.
THEOREM Invariance == Spec => []InductiveInvariant
BY InductiveInit, InductiveNext, PTL DEF Spec

-----------------------------------------------------------------------------
(* The properties                                                            *)

\* Every variable keeps its type, whatever fails.
THEOREM TypeCorrect == Spec => []TypeOK
<1>1. InductiveInvariant => TypeOK
  BY DEF InductiveInvariant
<1> QED
  BY <1>1, Invariance, PTL

\* At most one processor works on a table (the advisory table lock).
THEOREM WorkIsExclusive == Spec => []ExclusiveTableWork
<1>1. InductiveInvariant => ExclusiveTableWork
  BY Exclusive DEF InductiveInvariant
<1> QED
  BY <1>1, Invariance, PTL

\* No interleaving of imports, crashes, retries and cleanups inserts a chunk
\* twice or loses one that is marked IMPORTED.
THEOREM ChunksImportedOnce == Spec => []ImportedOnce
<1>1. InductiveInvariant => ImportedOnce
  BY DEF InductiveInvariant
<1> QED
  BY <1>1, Invariance, PTL

\* Readers never see a partial table or one that differs from its manifest.
THEOREM ServesCompleteRuns == Spec => []ServedComplete
<1>1. InductiveInvariant => ServedComplete
  BY DEF InductiveInvariant
<1> QED
  BY <1>1, Invariance, PTL

\* The version history of each table is one chain of strictly newer versions.
THEOREM VersionsFormAChain == Spec => []VersionChain
<1>1. InductiveInvariant => VersionChain
  BY DEF InductiveInvariant
<1> QED
  BY <1>1, Invariance, PTL

\* A run reported VERIFIED is in the version history.
THEOREM VerifiedRunsAreRecorded == Spec => []VerifiedIsRecorded
<1>1. InductiveInvariant => VerifiedIsRecorded
  BY DEF InductiveInvariant
<1> QED
  BY <1>1, Invariance, PTL

\* Only a recorded run's backup table is ever dropped: before that a crash can
\* still need it.
THEOREM BackupIsKept == Spec => BackupKeptUntilRecorded
<1> DEFINE Kept == \A r \in Runs : backup[r] # None /\ backup'[r] = None => r \in versions
<1>1. InductiveInvariant /\ [Next]_vars => Kept
  <2> SUFFICES ASSUME InductiveInvariant, [Next]_vars PROVE Kept
    OBVIOUS
  <2>1. ASSUME NEW p \in Procs, DropBackup(p) PROVE Kept
    <3>1. cur[p] \in versions
      BY <2>1 DEF InductiveInvariant, CleanupIsDue, CleanupDue, DropBackup
    <3> QED
      BY <2>1, <3>1 DEF DropBackup, InductiveInvariant, TypeOK, TablesType
  <2>2. ASSUME NEW p \in Procs, Rename(p) PROVE Kept
    BY <2>2 DEF Rename, tables, InductiveInvariant, TypeOK, TablesType
  <2>3. ASSUME NEW p \in Procs, Step(p) \/ Failure(p), ~DropBackup(p), ~Rename(p)
        PROVE  UNCHANGED backup
    BY <2>3 DEF tables, Step, Failure, AcquireRunLock, AcquireTableLock, Register, Stage,
       BeginImport, PickChunk, ImportChunk, CompleteStaged,
       SetVerifying, Verify, OrderStaged, PrepareSwapping, Finalize, Recover, Reverify, Reswap,
       CheckBackup, RecordBackup, CheckStaging, DropStaging, RemoveManifest, RemoveRest,
       RecordIncoming, Unlock, Crash, ChunkFails, StatementFails, CleanupFails
  <2>4. CASE UNCHANGED vars
    BY <2>4 DEF vars, tables
  <2> QED
    BY <2>1, <2>2, <2>3, <2>4, StartFrame, EnvironmentFrame DEF Next, tables
<1> QED
  BY <1>1, Invariance, PTL DEF Spec, BackupKeptUntilRecorded

\* No file of a run leaves incoming while the run may still have to be applied.
THEOREM IncomingIsKept == Spec => IncomingKeptUntilSettled
<1> DEFINE Kept == \A r \in Runs : ~(incoming[r] \subseteq incoming'[r]) =>
                     \/ r \in versions
                     \/ \E v \in versions : TableOf[v] = TableOf[r] /\ CreatedAt[v] > CreatedAt[r]
<1>1. InductiveInvariant /\ [Next]_vars => Kept
  <2> SUFFICES ASSUME InductiveInvariant, [Next]_vars PROVE Kept
    OBVIOUS
  <2>1. ASSUME NEW p \in Procs, RemoveManifest(p) \/ RemoveRest(p) PROVE Kept
    <3>1. cur[p] \in versions \/ Superseded(cur[p])
      BY <2>1 DEF InductiveInvariant, CleanupIsDue, CleanupDue, CleanupPoints, RemoveManifest,
         RemoveRest
    <3>2. \A r \in Runs \ {cur[p]} : incoming'[r] = incoming[r]
      BY <2>1 DEF RemoveManifest, RemoveRest, InductiveInvariant, TypeOK, EnvironmentType
    <3> QED
      BY <3>1, <3>2 DEF Superseded, Newer
  <2>2. ASSUME NEW r \in Runs, Environment(r) PROVE Kept
    BY <2>2 DEF Environment, Deliver, Redeliver, InductiveInvariant, TypeOK, EnvironmentType
  <2>3. ASSUME NEW p \in Procs, NEW r \in Runs, StartCleanup(p, r) \/ StartRun(p, r)
        PROVE  UNCHANGED incoming
    BY <2>3 DEF StartCleanup, StartRun, env, files
  <2>4. ASSUME NEW p \in Procs, Step(p) \/ Failure(p), ~RemoveManifest(p), ~RemoveRest(p)
        PROVE  UNCHANGED incoming
    BY <2>4 DEF env, files, Step, Failure, AcquireRunLock, AcquireTableLock, Register, Stage,
       BeginImport, PickChunk, ImportChunk, CompleteStaged,
       SetVerifying, Verify, OrderStaged, PrepareSwapping, Rename, Finalize, Recover, Reverify,
       Reswap, CheckBackup, DropBackup, RecordBackup, CheckStaging, DropStaging, RecordIncoming,
       Unlock, Crash, ChunkFails, StatementFails, CleanupFails
  <2>5. CASE UNCHANGED vars
    BY <2>5 DEF vars, env, files
  <2> QED
    BY <2>1, <2>2, <2>3, <2>4, <2>5 DEF Next
<1> QED
  BY <1>1, Invariance, PTL DEF Spec, IncomingKeptUntilSettled

-----------------------------------------------------------------------------
(* Refinement                                                                *)

\* The destination implements SnapshotReplica: RENAME TABLE is Serve, the
\* recording transaction is Record and every other step is a stutter.
THEOREM Refinement == Spec => ImplementsReplica
<1> DEFINE served == [t \in Tables |-> ServedRun(live[t])]
<1>1. Init => Replica!ReplicaInit
  BY DEF Init, Replica!ReplicaInit, ServedRun
<1>2. InductiveInvariant /\ [Next]_vars => [Replica!ReplicaNext]_<<served, versions>>
  <2> SUFFICES ASSUME InductiveInvariant, [Next]_vars
               PROVE  [Replica!ReplicaNext]_<<served, versions>>
    OBVIOUS
  <2>1. ASSUME NEW p \in Procs, Rename(p), ~UNCHANGED live PROVE Replica!ReplicaNext
    <3>1. PICK r \in Runs : r = cur[p]
      BY <2>1, BusyHasRun DEF Step, InductiveInvariant
    <3>2. Renamable(r)
      BY <2>1, <3>1 DEF Rename, tables
    <3>3. staging[r] # None /\ MatchesManifest(staging[r], r)
      BY <2>1, <3>1, <3>2 DEF Rename, Renamable, SwapPoint, Ready, InductiveInvariant
    <3>4. live' = [live EXCEPT ![TableOf[r]] = staging[r]] /\ versions' = versions
      BY <2>1, <3>1, <3>2 DEF Rename, history
    <3>5. ServedRun(staging[r]) = r
      BY <3>3 DEF ServedRun, MatchesManifest, ForeignTable, DestinationAssumption
    <3>6. served' = [served EXCEPT ![TableOf[r]] = r]
      BY <3>4, <3>5 DEF InductiveInvariant, TypeOK, TablesType, DestinationAssumption
    <3>7. Replica!Serve(r)
      BY <3>3, <3>4, <3>6 DEF Replica!Serve, MatchesManifest
    <3> QED
      BY <3>7 DEF Replica!ReplicaNext
  <2>2. ASSUME NEW p \in Procs, Finalize(p), ~UNCHANGED history PROVE Replica!ReplicaNext
    <3>1. PICK r \in Runs : r = cur[p]
      BY <2>2, BusyHasRun DEF Step, InductiveInvariant
    <3>2. /\ \A w \in SameTable(r) : CreatedAt[w] < CreatedAt[r]
          /\ versions' = versions \cup {r}
      BY <2>2, <3>1, FinalizeRecords DEF InductiveInvariant
    <3>3. UNCHANGED live
      BY <2>2 DEF Finalize, tables
    <3>4. Live(r)
      BY <2>2, <3>1 DEF InductiveInvariant, SwapPoint, Finalize
    <3>5. ServedRun(live[TableOf[r]]) = r /\ TableOf[r] \in Tables
      BY <3>4 DEF ServedRun, Live, ForeignTable, DestinationAssumption
    <3>6. Replica!Record(r)
      BY <3>2, <3>3, <3>5 DEF Replica!Record, SameTable
    <3> QED
      BY <3>6 DEF Replica!ReplicaNext
  <2>3. ASSUME UNCHANGED live, UNCHANGED history PROVE UNCHANGED <<served, versions>>
    BY <2>3 DEF history
  <2>4. Next => UNCHANGED live \/ \E p \in Procs : Rename(p)
    BY LiveFrame, StartFrame, EnvironmentFrame DEF Next, tables
  <2>5. Next => UNCHANGED history \/ \E p \in Procs : Finalize(p)
    BY HistoryFrame
  <2>6. UNCHANGED vars => UNCHANGED live /\ UNCHANGED history
    BY DEF vars, tables, metadata, history
  <2> QED
    BY <2>1, <2>2, <2>3, <2>4, <2>5, <2>6
<1> QED
  BY <1>1, <1>2, Invariance, PTL DEF Spec, ImplementsReplica, Replica!ReplicaSpec


=============================================================================
