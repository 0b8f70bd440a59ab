---------------------------- MODULE SourceCycle ----------------------------
(***************************************************************************)
(* The source's persisted cycles: a worker that holds the process lock     *)
(* takes the captured tables of a cycle through DeliveryRunner.sync one    *)
(* after the other, while operators run `source sync` and `source          *)
(* snapshot` for single tables without that lock, all on one SQLite        *)
(* database (source/cycle.py, source/state.py, the commands in cli.py).    *)
(*                                                                         *)
(* A sync is modelled by the statements that change the database and by    *)
(* the upload of its manifest; SourceDelivery has its threads and files.   *)
(* SQLite statements are BEGIN IMMEDIATE transactions, so one step each.   *)
(***************************************************************************)
EXTENDS Integers, Sequences, FiniteSets, Functions

CONSTANTS
  Tables,       \* table names
  Captured,     \* enabled tables in configuration order: what create_cycle captures
  Manual,       \* processes of the commands source sync and source snapshot
  Worker,       \* the process of source worker
  MaxRuns,      \* bound on runs begun
  MaxCommands,  \* bound on commands source sync and source snapshot
  MaxCycles,    \* bound on cycles created
  MaxCrashes,   \* bound on processes killed, and on requested shutdowns
  MaxFaults,    \* bound on syncs that fail and return the failure
  MaxRaises,    \* bound on syncs that raise with their run still active
  MaxAbandons   \* bound on `source cycle abandon`

ASSUME CycleAssumption ==
  /\ Tables # {}
  /\ Captured \in Seq(Tables)
  /\ \A i, j \in DOMAIN Captured : Captured[i] = Captured[j] => i = j
  /\ Worker \notin Manual
  /\ {MaxRuns, MaxCommands, MaxCycles, MaxCrashes, MaxFaults, MaxRaises, MaxAbandons} \subseteq Nat

VARIABLES
  runs,     \* sync_runs: a sequence of [table, status]; a run is its index, 0 is NULL
  table,    \* table_state: [Tables -> [status, last_run]]
  cycles,   \* sync_cycles and cycle_tables: a sequence of [status, tables, run]
  outbox,   \* runs that have a directory with files
  visible,  \* runs whose manifest the relay has
  at,       \* where a process is in its sync, "off" if in none
  sub,      \* the table it syncs
  own,      \* the run it began
  worker,   \* control point of the worker
  pos,      \* the worker's place in the captured tables
  result,   \* how the worker's sync ended
  stop,     \* a shutdown of the worker was requested
  commands, crashes, faults, raises, abandons  \* counters of the bounded environment

database == <<runs, table, cycles>>
world == <<outbox, visible>>
sync == <<at, sub, own>>
control == <<worker, pos, result, stop>>
counters == <<commands, crashes, faults, raises, abandons>>
vars == <<database, world, sync, control, counters>>

Syncers == Manual \cup {Worker}
Active == {"GENERATING", "UPLOADING", "FINALIZING"}
RunStatuses == Active \cup {"SNAPSHOT_READY", "DELIVERED", "FAILED"}
SyncPoints == {"begin", "generate", "store", "mkdir", "set_uploading", "scan", "complete", "refinalize",
               "manifest", "deliver", "clean", "failing"}
WorkerPoints == {"down", "maintain", "idle", "recover", "open", "loop", "sync", "settle", "check"}

-----------------------------------------------------------------------------
Init ==
  /\ runs = <<>>
  /\ table = [t \in Tables |-> [status |-> "IDLE", last_run |-> 0]]
  /\ cycles = <<>>
  /\ outbox = {}
  /\ visible = {}
  /\ at = [p \in Syncers |-> "off"]
  /\ sub = [p \in Syncers |-> CHOOSE t \in Tables : TRUE]
  /\ own = [p \in Syncers |-> 0]
  /\ worker = "down"
  /\ pos = 1
  /\ result = "none"
  /\ stop = FALSE
  /\ commands = 0 /\ crashes = 0 /\ faults = 0 /\ raises = 0 /\ abandons = 0

Goto(p, point) == at' = [at EXCEPT ![p] = point]
SetRun(r, s) == runs' = [runs EXCEPT ![r].status = s]
SetTable(t, s, r) == table' = [table EXCEPT ![t] = [status |-> s, last_run |-> r]]

ActiveRuns(t) == {r \in DOMAIN runs : runs[r].table = t /\ runs[r].status \in Active}
OpenCycles == {c \in DOMAIN cycles : cycles[c].status \in {"RUNNING", "RETRY_WAIT"}}
\* The cycle the worker runs: active_cycle(), of which there is at most one.
Current == CHOOSE c \in OpenCycles : TRUE

-----------------------------------------------------------------------------
(* A sync, of the worker or of a command                                     *)

\* What the caller sees when sync() is over.
Return(p, how) ==
  /\ Goto(p, "off")
  /\ IF p = Worker THEN worker' = "settle" /\ result' = how
                   ELSE UNCHANGED <<worker, result>>
  /\ UNCHANGED <<pos, stop>>

\* begin_run refuses a table with an active run, in the transaction that adds one.
MayBegin(t) == ActiveRuns(t) = {}
BeginRun(p, next) ==
  LET t == sub[p]
      r == Len(runs) + 1 IN
  /\ at[p] = "begin"
  /\ MayBegin(t)
  /\ r <= MaxRuns
  /\ runs' = Append(runs, [table |-> t, status |-> "GENERATING"])
  /\ SetTable(t, "RUNNING", r)
  /\ own' = [own EXCEPT ![p] = r]
  /\ Goto(p, next)
  /\ UNCHANGED <<cycles, world, sub, control, counters>>

BeginRefused(p) ==
  /\ at[p] = "begin"
  /\ ~MayBegin(sub[p])
  /\ Return(p, "raised")
  /\ UNCHANGED <<database, world, sub, own, counters>>

MakeDirectory(p) ==
  /\ at[p] = "mkdir"
  /\ outbox' = outbox \cup {own[p]}
  /\ Goto(p, "set_uploading")
  /\ UNCHANGED <<database, visible, sub, own, control, counters>>

\* set_run_status, unconditionally.
SetUploading(p) ==
  /\ at[p] = "set_uploading"
  /\ SetRun(own[p], "UPLOADING")
  /\ Goto(p, "scan")
  /\ UNCHANGED <<table, cycles, world, sub, own, control, counters>>

\* The scan and the uploads of chunks are done.
SetFinalizing(p) ==
  /\ at[p] = "scan"
  /\ SetRun(own[p], "FINALIZING")
  /\ Goto(p, "complete")
  /\ UNCHANGED <<table, cycles, world, sub, own, control, counters>>

\* complete_run: not one of the active statuses.
CompleteRun(p) ==
  /\ at[p] = "complete"
  /\ SetRun(own[p], "SNAPSHOT_READY")
  /\ SetTable(sub[p], "COMPLETED", own[p])
  /\ Goto(p, "refinalize")
  /\ UNCHANGED <<cycles, world, sub, own, control, counters>>

RefinalizeRun(p) ==
  /\ at[p] = "refinalize"
  /\ SetRun(own[p], "FINALIZING")
  /\ Goto(p, "manifest")
  /\ UNCHANGED <<table, cycles, world, sub, own, control, counters>>

UploadManifest(p) ==
  /\ at[p] = "manifest"
  /\ visible' = visible \cup {own[p]}
  /\ Goto(p, "deliver")
  /\ UNCHANGED <<database, outbox, sub, own, control, counters>>

DeliverRun(p) ==
  /\ at[p] = "deliver"
  /\ SetRun(own[p], "DELIVERED")
  /\ SetTable(sub[p], "DELIVERED", own[p])
  /\ Goto(p, "clean")
  /\ UNCHANGED <<cycles, world, sub, own, control, counters>>

\* _cleanup_delivered_run; files that cannot be removed stay.
CleanDelivered(p) ==
  /\ at[p] = "clean"
  /\ outbox' \in {outbox, outbox \ {own[p]}}
  /\ Return(p, "delivered")
  /\ UNCHANGED <<database, visible, sub, own, counters>>

\* SnapshotRunner.snapshot: no upload, and the directory is made inside the try.
Generate(p) ==
  /\ at[p] = "generate"
  /\ outbox' = outbox \cup {own[p]}
  /\ Goto(p, "store")
  /\ UNCHANGED <<database, visible, sub, own, control, counters>>

StoreSnapshot(p) ==
  /\ at[p] = "store"
  /\ SetRun(own[p], "SNAPSHOT_READY")
  /\ SetTable(sub[p], "COMPLETED", own[p])
  /\ Return(p, "snapshot")
  /\ UNCHANGED <<cycles, world, sub, own, counters>>

\* Anything inside the try fails; a manifest's PUT may have been applied.
SyncFails(p) ==
  /\ at[p] \in {"generate", "scan", "complete", "refinalize", "manifest", "deliver", "clean"}
  /\ faults < MaxFaults
  /\ faults' = faults + 1
  /\ visible' \in IF at[p] = "manifest" THEN {visible, visible \cup {own[p]}} ELSE {visible}
  /\ Goto(p, "failing")
  /\ UNCHANGED <<database, outbox, sub, own, control, commands, crashes, raises, abandons>>

FailRun(p) ==
  /\ at[p] = "failing"
  /\ SetRun(own[p], "FAILED")
  /\ SetTable(sub[p], "FAILED", own[p])
  /\ Return(p, "failed")
  /\ UNCHANGED <<cycles, world, sub, own, counters>>

\* sync() raises before it has a run: MySQL is not reachable, the table is gone.
SyncRefused(p) ==
  /\ at[p] = "begin"
  /\ faults < MaxFaults
  /\ faults' = faults + 1
  /\ Return(p, "raised")
  /\ UNCHANGED <<database, world, sub, own, commands, crashes, raises, abandons>>

\* mkdir, set_run_status(UPLOADING) and fail_run are outside the try, and so is
\* complete_run of a snapshot.
SyncRaises(p) ==
  /\ at[p] \in {"mkdir", "set_uploading", "failing", "store"}
  /\ raises < MaxRaises
  /\ raises' = raises + 1
  /\ Return(p, "raised")
  /\ UNCHANGED <<database, world, sub, own, commands, crashes, faults, abandons>>

-----------------------------------------------------------------------------
(* The commands of operators                                                 *)

\* source sync --table t and source snapshot --table t.
StartManual(p, t) ==
  /\ p \in Manual
  /\ at[p] = "off"
  /\ commands < MaxCommands
  /\ commands' = commands + 1
  /\ Goto(p, "begin")
  /\ sub' = [sub EXCEPT ![p] = t]
  /\ UNCHANGED <<database, world, own, control, crashes, faults, raises, abandons>>

KillManual(p) ==
  /\ p \in Manual
  /\ at[p] # "off"
  /\ crashes < MaxCrashes
  /\ crashes' = crashes + 1
  /\ Goto(p, "off")
  /\ UNCHANGED <<database, world, sub, own, control, commands, faults, raises, abandons>>

\* source cycle abandon takes the process lock, so no worker runs.
Abandon ==
  /\ worker = "down"
  /\ OpenCycles # {}
  /\ abandons < MaxAbandons
  /\ abandons' = abandons + 1
  /\ cycles' = [cycles EXCEPT ![Current].status = "ABANDONED"]
  /\ UNCHANGED <<runs, table, world, sync, control, commands, crashes, faults, raises>>

-----------------------------------------------------------------------------
(* The worker                                                                *)

StartWorker ==
  /\ worker = "down"
  /\ worker' = "maintain"
  /\ stop' = FALSE
  /\ UNCHANGED <<database, world, sync, pos, result, counters>>

\* cleanup_failed_runs removes the directories of failed runs that are old
\* enough, except those the open cycle still names; what cannot be removed stays.
Protected == {cycles[c].run[t] : c \in OpenCycles, t \in Tables}
\* (Definitions named X_Y are faulty variants of X for the mutation runs.)
Removable_Unfinished == {r \in outbox : runs[r].status # "DELIVERED"} \ Protected
Removable == {r \in outbox : runs[r].status = "FAILED"} \ Protected
CleanFailedRuns ==
  /\ worker = "maintain"
  /\ \E removed \in SUBSET Removable : outbox' = outbox \ removed
  /\ worker' = IF stop THEN "down" ELSE "idle"
  /\ UNCHANGED <<database, visible, sync, pos, result, stop, counters>>

\* tick: the due time comes, or the stop event ends the wait.
Wake ==
  /\ worker = "idle"
  /\ worker' = IF stop THEN "down" ELSE "recover"
  /\ UNCHANGED <<database, world, sync, pos, result, stop, counters>>

\* recover_interrupted_cycle: tables left RUNNING, and the active runs of those
\* tables, whoever began them, become FAILED.
Interrupted_None == {}
Interrupted == {t \in Tables : \E c \in OpenCycles : cycles[c].tables[t] = "RUNNING"}
LostRuns == UNION {ActiveRuns(t) : t \in Interrupted}
ShowsLost_Never(t) == FALSE
ShowsLost(t) == table[t].last_run \in LostRuns
RecoverCycle ==
  /\ worker = "recover"
  /\ runs' = [r \in DOMAIN runs |-> IF r \in LostRuns THEN [runs[r] EXCEPT !.status = "FAILED"] ELSE runs[r]]
  /\ table' = [t \in Tables |-> IF ShowsLost(t) THEN [table[t] EXCEPT !.status = "FAILED"] ELSE table[t]]
  /\ cycles' = [c \in DOMAIN cycles |->
       [cycles[c] EXCEPT !.tables = [t \in Tables |->
          IF c \in OpenCycles /\ t \in Interrupted THEN "FAILED" ELSE @[t]]]]
  /\ worker' = "open"
  /\ UNCHANGED <<world, sync, pos, result, stop, counters>>

\* The open cycle is resumed, or a new one captures the enabled tables.
NewCycle == [status |-> "RUNNING",
             tables |-> [t \in Tables |-> IF t \in Range(Captured) THEN "PENDING" ELSE "NONE"],
             run |-> [t \in Tables |-> 0]]
OpenCycle ==
  /\ worker = "open"
  /\ \/ OpenCycles # {} /\ UNCHANGED cycles
     \/ OpenCycles = {} /\ Len(cycles) < MaxCycles /\ cycles' = Append(cycles, NewCycle)
  /\ worker' = "loop"
  /\ pos' = 1
  /\ UNCHANGED <<runs, table, world, sync, result, stop, counters>>

\* The rows of the open cycle and of its table t.
SetCycleTable(t, s, x, r) ==
  LET row == cycles[Current] IN
  cycles' = [cycles EXCEPT ![Current] =
               [status |-> s, tables |-> [row.tables EXCEPT ![t] = x], run |-> [row.run EXCEPT ![t] = r]]]

\* The captured tables in order; a delivered one is skipped.
Skipped_Never(t) == FALSE
Skipped(t) == cycles[Current].tables[t] = "DELIVERED"
NextTable ==
  LET t == Captured[pos] IN
  /\ worker = "loop"
  /\ pos \in DOMAIN Captured
  /\ \/ /\ Skipped(t)
        /\ pos' = pos + 1
        /\ UNCHANGED <<cycles, sync, worker>>
     \/ /\ ~Skipped(t)
        /\ stop
        /\ worker' = "check"
        /\ UNCHANGED <<cycles, sync, pos>>
     \/ /\ ~Skipped(t)
        /\ ~stop
        /\ Len(runs) < MaxRuns
        /\ SetCycleTable(t, "RUNNING", "RUNNING", cycles[Current].run[t])
        /\ worker' = "sync"
        /\ Goto(Worker, "begin")
        /\ sub' = [sub EXCEPT ![Worker] = t]
        /\ UNCHANGED <<pos, own>>
  /\ UNCHANGED <<runs, table, world, result, stop, counters>>

LoopEnds ==
  /\ worker = "loop"
  /\ pos \notin DOMAIN Captured
  /\ worker' = "check"
  /\ UNCHANGED <<database, world, sync, pos, result, stop, counters>>

\* deliver_cycle_table, or fail_cycle_table and the end of this attempt.
Succeeded_Returned(how) == how # "raised"
Succeeded(how) == how = "delivered"
FailedRunId_Next == IF result = "raised" THEN Len(runs) + 1 ELSE own[Worker]
FailedRunId == IF result = "raised" THEN 0 ELSE own[Worker]
SettleTable ==
  LET t == Captured[pos] IN
  /\ worker = "settle"
  /\ \/ /\ Succeeded(result)
        /\ SetCycleTable(t, cycles[Current].status, "DELIVERED", own[Worker])
        /\ pos' = pos + 1
        /\ worker' = "loop"
     \/ /\ ~Succeeded(result)
        /\ SetCycleTable(t, "RETRY_WAIT", "FAILED", FailedRunId)
        /\ worker' = "check"
        /\ UNCHANGED pos
  /\ result' = "none"
  /\ UNCHANGED <<runs, table, world, sync, stop, counters>>

AllDelivered == \A t \in Range(Captured) : cycles[Current].tables[t] = "DELIVERED"
CheckCycle ==
  /\ worker = "check"
  /\ IF AllDelivered THEN cycles' = [cycles EXCEPT ![Current].status = "COMPLETED"] ELSE UNCHANGED cycles
  /\ worker' = "maintain"
  /\ UNCHANGED <<runs, table, world, sync, pos, result, stop, counters>>

\* SIGTERM: noticed between two tables and while waiting.
RequestStop ==
  /\ worker # "down"
  /\ ~stop
  /\ crashes < MaxCrashes
  /\ crashes' = crashes + 1
  /\ stop' = TRUE
  /\ UNCHANGED <<database, world, sync, worker, pos, result, commands, faults, raises, abandons>>

\* The worker is killed, or a statement outside a sync raises and ends it.
KillWorker ==
  /\ worker # "down"
  /\ crashes < MaxCrashes
  /\ crashes' = crashes + 1
  /\ worker' = "down"
  /\ result' = "none"
  /\ Goto(Worker, "off")
  /\ UNCHANGED <<database, world, sub, own, pos, stop, commands, faults, raises, abandons>>

-----------------------------------------------------------------------------
SyncStep(p) ==
  \/ BeginRun(p, "mkdir") \/ (p \in Manual /\ BeginRun(p, "generate")) \/ BeginRefused(p)
  \/ MakeDirectory(p) \/ SetUploading(p) \/ SetFinalizing(p) \/ CompleteRun(p)
  \/ RefinalizeRun(p) \/ UploadManifest(p) \/ DeliverRun(p) \/ CleanDelivered(p)
  \/ Generate(p) \/ StoreSnapshot(p) \/ FailRun(p)

WorkerStep ==
  \/ StartWorker \/ CleanFailedRuns \/ Wake \/ RecoverCycle \/ OpenCycle
  \/ NextTable \/ LoopEnds \/ SettleTable \/ CheckCycle

Failure ==
  \/ RequestStop \/ KillWorker
  \/ \E p \in Syncers : SyncFails(p) \/ SyncRefused(p) \/ SyncRaises(p) \/ KillManual(p)

Next ==
  \/ WorkerStep
  \/ \E p \in Syncers : SyncStep(p)
  \/ \E p \in Manual, t \in Tables : StartManual(p, t)
  \/ Abandon
  \/ Failure

Spec == Init /\ [][Next]_vars

\* Running processes keep executing; the service manager starts the worker again.
FairSpec == Spec /\ WF_vars(WorkerStep) /\ \A p \in Syncers : WF_vars(SyncStep(p))

-----------------------------------------------------------------------------
(* Properties                                                                *)

\* Every variable has its type (the tables of state.py and the locals of run()).
RunRow == [table : Tables, status : RunStatuses]
TableRow(n) == [status : {"IDLE", "RUNNING", "COMPLETED", "DELIVERED", "FAILED"}, last_run : 0..n]
CycleRow(n) == [status : {"RUNNING", "RETRY_WAIT", "COMPLETED", "ABANDONED"},
                tables : [Tables -> {"NONE", "PENDING", "RUNNING", "DELIVERED", "FAILED"}],
                run : [Tables -> 0..n]]
DatabaseType ==
  /\ runs \in Seq(RunRow)
  /\ table \in [Tables -> TableRow(Len(runs))]
  /\ cycles \in Seq(CycleRow(Len(runs)))
  /\ outbox \subseteq DOMAIN runs
  /\ visible \subseteq DOMAIN runs
SyncType ==
  /\ at \in [Syncers -> SyncPoints \cup {"off"}]
  /\ sub \in [Syncers -> Tables]
  /\ own \in [Syncers -> 0..Len(runs)]
ControlType ==
  /\ worker \in WorkerPoints
  /\ pos \in 1..Len(Captured) + 1
  /\ result \in {"none", "delivered", "failed", "raised"}
  /\ stop \in BOOLEAN
  /\ commands \in Nat /\ crashes \in Nat /\ faults \in Nat /\ raises \in Nat /\ abandons \in Nat
TypeOK == DatabaseType /\ SyncType /\ ControlType

\* A completed cycle means that the relay has a complete snapshot of every
\* captured table, made for this cycle, whatever failed or was killed on the way.
CompletedIsDelivered ==
  \A c \in DOMAIN cycles : cycles[c].status = "COMPLETED" =>
    \A t \in Range(Captured) :
      LET r == cycles[c].run[t] IN
      /\ cycles[c].tables[t] = "DELIVERED"
      /\ r # 0
      /\ runs[r] = [table |-> t, status |-> "DELIVERED"]
      /\ r \in visible
      /\ \A d \in DOMAIN cycles \ {c} : cycles[d].run[t] # r

\* A process that has begun a run and has not ended it.
Live(p) == at[p] \notin {"off", "begin"}

\* While a table shows a sync in progress, a snapshot or a delivery, its last run
\* is in a status that agrees, though the two rows are written by different
\* statements of several processes and by recovery. (Not so for FAILED: a run that
\* recovery failed and whose process lives goes on.)
TableShowsLastRun ==
  \A t \in Tables : table[t].last_run # 0 =>
    LET status == runs[table[t].last_run].status IN
    /\ table[t].status = "RUNNING" => status \in Active
    /\ table[t].status = "COMPLETED" => status \in {"SNAPSHOT_READY", "FINALIZING"}
    /\ table[t].status = "DELIVERED" => status = "DELIVERED"

\* Maintenance never takes the files from under a run that is being produced, nor
\* those of the last failed run of a table the open cycle has yet to deliver, as
\* long as nobody was killed (a killed process leaves its files to whoever starts).
FilesAreKept ==
  [][CleanFailedRuns /\ crashes = 0 =>
       \A r \in outbox \ outbox' :
         /\ \A p \in Syncers : Live(p) => own[p] # r
         /\ \A c \in OpenCycles : r \notin Range(cycles[c].run)]_vars

\* A cycle, once opened, completes, however often tables fail in between.
CycleCompletes == OpenCycles # {} ~> OpenCycles = {}

\* The worker's cycles implement CycleProgress. Tables delivered out of order map
\* to no number at all.
Latest == cycles[Len(cycles)]
DeliveredCount ==
  LET delivered == {i \in DOMAIN Captured : Latest.tables[Captured[i]] = "DELIVERED"} IN
  IF delivered = 1..Cardinality(delivered) THEN Cardinality(delivered) ELSE -1
Progress == INSTANCE CycleProgress WITH
  NumTables <- Len(Captured),
  open <- OpenCycles # {},
  done <- IF cycles = <<>> THEN 0 ELSE DeliveredCount,
  completed <- Cardinality({c \in DOMAIN cycles : cycles[c].status = "COMPLETED"})
ImplementsCycle == Progress!ProgressSpec

-----------------------------------------------------------------------------
(* The inductive invariant                                                   *)

\* A live sync has a run of its table, and no two processes share a run.
OwnRuns ==
  \A p \in Syncers :
    /\ Live(p) => own[p] # 0 /\ runs[own[p]].table = sub[p]
    /\ \A q \in Syncers \ {p} : own[p] = own[q] => own[p] = 0

\* What a sync has done at its last statements.
SyncPoint ==
  \A p \in Syncers :
    /\ at[p] \in {"deliver", "clean"} => own[p] \in visible
    /\ at[p] = "clean" => runs[own[p]].status = "DELIVERED"

\* The worker syncs a captured table of an open cycle, and what it takes for delivered is.
WorkerPoint ==
  /\ at[Worker] # "off" <=> worker = "sync"
  /\ at[Worker] \notin {"generate", "store"}
  /\ worker \in {"sync", "settle"} => pos \in DOMAIN Captured
  /\ worker = "sync" => sub[Worker] = Captured[pos]
  /\ worker \in {"loop", "sync", "settle", "check"} => OpenCycles # {}
  /\ worker = "settle" /\ result = "delivered" =>
       /\ own[Worker] # 0
       /\ runs[own[Worker]] = [table |-> Captured[pos], status |-> "DELIVERED"]
       /\ own[Worker] \in visible

\* Only the last cycle is open, and its tables are delivered from the first on.
OnlyLastOpen == OpenCycles \subseteq {Len(cycles)}
DeliveredTables(c) == {i \in DOMAIN Captured : cycles[c].tables[Captured[i]] = "DELIVERED"}
InOrder ==
  cycles # <<>> =>
    \E k \in 0..Len(Captured) :
      /\ DeliveredTables(Len(cycles)) = 1..k
      /\ worker = "loop" => pos <= k + 1
      /\ worker \in {"sync", "settle"} => pos = k + 1

\* The run that a cycle names for a delivered table is over, at the relay, and of no
\* other cycle; nor is the run that the worker is about to name.
DeliveredIsReal ==
  \A c \in DOMAIN cycles, t \in Tables : cycles[c].tables[t] = "DELIVERED" =>
    LET r == cycles[c].run[t] IN
    /\ r # 0
    /\ runs[r] = [table |-> t, status |-> "DELIVERED"]
    /\ r \in visible
    /\ \A p \in Syncers : Live(p) => own[p] # r
CompletedIsAll ==
  \A c \in DOMAIN cycles : cycles[c].status = "COMPLETED" =>
    \A t \in Range(Captured) : cycles[c].tables[t] = "DELIVERED"
RunsOfCycles ==
  /\ \A c, d \in DOMAIN cycles, t \in Tables :
       c # d /\ cycles[c].run[t] = cycles[d].run[t] => cycles[c].run[t] = 0
  /\ Live(Worker) \/ (worker = "settle" /\ result # "raised") =>
       \A c \in DOMAIN cycles, t \in Tables : cycles[c].run[t] # own[Worker]

\* What a table may show of the run that a live sync produces.
Shown(point) ==
  IF point \in {"mkdir", "set_uploading", "scan", "complete", "generate", "store"} THEN {"RUNNING", "FAILED"}
  ELSE IF point \in {"refinalize", "manifest", "deliver"} THEN {"COMPLETED", "FAILED"}
  ELSE {"RUNNING", "COMPLETED", "DELIVERED", "FAILED"}
TableRows ==
  /\ \A t \in Tables : table[t].last_run # 0 => runs[table[t].last_run].table = t
  /\ \A p \in Syncers, t \in Tables :
       Live(p) /\ table[t].last_run = own[p] => table[t].status \in Shown(at[p])

\* Until somebody is killed, recovery has nothing to do and no live run is failed.
Undisturbed ==
  crashes = 0 =>
    /\ \A p \in Syncers : Live(p) => runs[own[p]].status # "FAILED"
    /\ \A c \in OpenCycles, t \in Tables : cycles[c].tables[t] = "RUNNING" =>
         worker \in {"sync", "settle"} /\ t = Captured[pos]

InductiveInvariant ==
  /\ TypeOK /\ OwnRuns /\ SyncPoint /\ WorkerPoint
  /\ OnlyLastOpen /\ InOrder /\ DeliveredIsReal /\ CompletedIsAll /\ RunsOfCycles
  /\ TableRows /\ TableShowsLastRun /\ Undisturbed

=============================================================================
