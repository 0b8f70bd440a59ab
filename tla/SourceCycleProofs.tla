------------------------- MODULE SourceCycleProofs -------------------------
(***************************************************************************)
(* SourceCycle keeps its inductive invariant, hence a completed cycle has  *)
(* a delivered run of its own for every table, and the worker's cycles     *)
(* implement CycleProgress, for any number of tables, commands, cycles,    *)
(* kills and failures.                                                     *)
(***************************************************************************)
EXTENDS SourceCycle, FiniteSetTheorems, TLAPS

USE DEF database, world, sync, control, counters

\* While a cycle is open, it is the last one.
LEMMA CurrentIsLast ==
  ASSUME TypeOK, OnlyLastOpen, OpenCycles # {}
  PROVE  /\ OpenCycles = {Current}
         /\ Current = Len(cycles)
         /\ Current \in DOMAIN cycles
         /\ cycles[Current].status \in {"RUNNING", "RETRY_WAIT"}
<1>1. OpenCycles = {Len(cycles)}
  BY DEF OnlyLastOpen
<1>2. Current = Len(cycles)
  BY <1>1 DEF Current
<1>3. Current \in OpenCycles
  BY <1>1, <1>2
<1> QED
  BY <1>1, <1>2, <1>3 DEF OpenCycles

-----------------------------------------------------------------------------
(* Types                                                                     *)

\* A function on the positions of a sequence is a sequence as long.
LEMMA SameLength ==
  ASSUME NEW S, NEW T, NEW s \in Seq(S), NEW f \in [DOMAIN s -> T]
  PROVE  f \in Seq(T) /\ Len(f) = Len(s) /\ DOMAIN f = DOMAIN s
OBVIOUS

\* An element of a sequence is of the type of its elements.
LEMMA ElementType ==
  ASSUME NEW S, NEW s \in Seq(S), NEW i \in DOMAIN s
  PROVE  s[i] \in S
OBVIOUS

\* The captured tables are a sequence of tables.
LEMMA CapturedTables ==
  /\ Len(Captured) \in Nat
  /\ DOMAIN Captured = 1..Len(Captured)
  /\ \A i \in DOMAIN Captured : Captured[i] \in Tables
BY CycleAssumption

\* The initial state has the right types.
LEMMA TypeInit == Init => TypeOK
<1> SUFFICES ASSUME Init PROVE TypeOK
  OBVIOUS
<1>1. (CHOOSE t \in Tables : TRUE) \in Tables
  BY CycleAssumption
<1>2. DatabaseType
  BY DEF Init, DatabaseType, TableRow
<1>3. SyncType
  <2>1. at \in [Syncers -> SyncPoints \cup {"off"}]
    BY DEF Init
  <2>2. sub \in [Syncers -> Tables]
    <3>1. sub = [p \in Syncers |-> CHOOSE t \in Tables : TRUE]
      BY DEF Init
    <3> QED
      BY <1>1, <3>1, Zenon
  <2>3. own \in [Syncers -> 0..Len(runs)]
    BY DEF Init
  <2> QED
    BY <2>1, <2>2, <2>3 DEF SyncType
<1>4. ControlType
  <2>1. pos \in 1..Len(Captured) + 1
    BY CapturedTables DEF Init
  <2>2. worker \in WorkerPoints /\ result \in {"none", "delivered", "failed", "raised"} /\ stop \in BOOLEAN
    BY DEF Init, WorkerPoints
  <2>3. commands = 0 /\ crashes = 0 /\ faults = 0 /\ raises = 0 /\ abandons = 0
    BY DEF Init
  <2> QED
    BY <2>1, <2>2, <2>3 DEF ControlType
<1> QED
  BY <1>2, <1>3, <1>4 DEF TypeOK

\* What a step of a sync writes: its run's status, a table's row, its own point.
LEMMA SetRunType ==
  ASSUME DatabaseType, NEW r \in DOMAIN runs, NEW s \in RunStatuses, SetRun(r, s)
  PROVE  /\ runs' \in Seq(RunRow)
         /\ Len(runs') = Len(runs) /\ DOMAIN runs' = DOMAIN runs
         /\ \A q \in DOMAIN runs : runs'[q].table = runs[q].table
         /\ runs'[r].status = s
         /\ \A q \in DOMAIN runs \ {r} : runs'[q] = runs[q]
<1>1. runs[r] \in RunRow
  BY ElementType DEF DatabaseType
<1>2. [runs[r] EXCEPT !.status = s] = [table |-> runs[r].table, status |-> s]
  BY <1>1 DEF RunRow
<1>3. [runs[r] EXCEPT !.status = s] \in RunRow
  BY <1>1, <1>2 DEF RunRow
<1>4. runs' = [runs EXCEPT ![r] = [runs[r] EXCEPT !.status = s]]
  BY DEF SetRun
<1> HIDE DEF SetRun
<1> QED
  BY <1>1, <1>2, <1>3, <1>4 DEF DatabaseType, RunRow

\* Writing the row of a table changes that row alone and keeps its type.
LEMMA SetTableType ==
  ASSUME DatabaseType, NEW t \in Tables, NEW s \in {"RUNNING", "COMPLETED", "DELIVERED", "FAILED"},
         NEW r \in 0..Len(runs), SetTable(t, s, r)
  PROVE  /\ table' \in [Tables -> TableRow(Len(runs))]
         /\ table'[t] = [status |-> s, last_run |-> r]
         /\ \A u \in Tables \ {t} : table'[u] = table[u]
BY DEF DatabaseType, SetTable, TableRow

\* What every step of a sync, its start and its end leave alone.
SyncEffect(p) ==
  /\ UNCHANGED <<cycles, own, pos>>
  /\ runs' \in Seq(RunRow)
  /\ Len(runs') = Len(runs) /\ DOMAIN runs' = DOMAIN runs
  /\ \A r \in DOMAIN runs : runs'[r].table = runs[r].table
  /\ \A r \in DOMAIN runs : r # own[p] => runs'[r] = runs[r]
  /\ ~Live(p) => UNCHANGED <<runs, table>>
  /\ table' \in [Tables -> TableRow(Len(runs))]
  /\ \A t \in Tables : t # sub[p] => table'[t] = table[t]
  /\ outbox' \subseteq DOMAIN runs
  /\ visible \subseteq visible' /\ visible' \subseteq DOMAIN runs
  /\ at' \in [Syncers -> SyncPoints \cup {"off"}]
  /\ \A q \in Syncers \ {p} : at'[q] = at[q] /\ sub'[q] = sub[q]
  /\ sub' \in [Syncers -> Tables]
  /\ Live(p)' => Live(p)
  /\ Live(p) => sub'[p] = sub[p]
  /\ p # Worker => UNCHANGED <<worker, result>>
  /\ p = Worker => /\ at[p] # "off" /\ sub' = sub
                   /\ \/ at'[p] # "off" /\ UNCHANGED <<worker, result>>
                      \/ at'[p] = "off" /\ worker' = "settle" /\ result' \in {"delivered", "failed", "raised"}

\* The fields of a process have their types.
LEMMA ProcessType ==
  ASSUME TypeOK, NEW p \in Syncers
  PROVE  sub[p] \in Tables /\ own[p] \in 0..Len(runs) /\ at[p] \in SyncPoints \cup {"off"}
BY DEF TypeOK, SyncType

\* A process that is synchronizing has a run of its own, of the table it works on.
LEMMA OwnIsARun ==
  ASSUME TypeOK, OwnRuns, NEW p \in Syncers, Live(p)
  PROVE  own[p] \in DOMAIN runs /\ own[p] # 0 /\ runs[own[p]].table = sub[p]
BY DEF TypeOK, DatabaseType, SyncType, OwnRuns

\* The steps that write no rows.
LEMMA QuietStepEffect ==
  ASSUME TypeOK, OwnRuns, WorkerPoint, NEW p \in Syncers,
         \/ BeginRefused(p) \/ SyncRefused(p) \/ MakeDirectory(p) \/ UploadManifest(p)
         \/ CleanDelivered(p) \/ Generate(p) \/ SyncFails(p) \/ SyncRaises(p)
  PROVE  SyncEffect(p)
<1> USE DEF TypeOK, DatabaseType, SyncType, ControlType
<1>1. Live(p) => own[p] \in DOMAIN runs
  BY OwnIsARun
<1>2. runs' = runs /\ table' = table /\ cycles' = cycles /\ own' = own /\ sub' = sub /\ pos' = pos
  BY DEF BeginRefused, SyncRefused, MakeDirectory, UploadManifest, CleanDelivered, Generate,
         SyncFails, SyncRaises, Return
<1>3. at[p] \in SyncPoints
  BY DEF BeginRefused, SyncRefused, MakeDirectory, UploadManifest, CleanDelivered, Generate,
         SyncFails, SyncRaises, SyncPoints
<1>4. \E point \in SyncPoints \cup {"off"} : Goto(p, point) /\ (point \in {"off", "begin"} \/ Live(p))
  BY DEF BeginRefused, SyncRefused, MakeDirectory, UploadManifest, CleanDelivered, Generate,
         SyncFails, SyncRaises, SyncPoints, Return, Live
<1>5. /\ outbox' \subseteq DOMAIN runs
      /\ visible \subseteq visible' /\ visible' \subseteq DOMAIN runs
  BY <1>1 DEF BeginRefused, SyncRefused, MakeDirectory, UploadManifest, CleanDelivered, Generate,
         SyncFails, SyncRaises, Live
<1>6. /\ p # Worker => UNCHANGED <<worker, result>>
      /\ p = Worker => \/ at'[p] # "off" /\ UNCHANGED <<worker, result>>
                       \/ at'[p] = "off" /\ worker' = "settle" /\ result' \in {"delivered", "failed", "raised"}
  BY DEF BeginRefused, SyncRefused, MakeDirectory, UploadManifest, CleanDelivered, Generate,
         SyncFails, SyncRaises, Return, Goto
<1>7. /\ at' \in [Syncers -> SyncPoints \cup {"off"}]
      /\ \A q \in Syncers \ {p} : at'[q] = at[q]
      /\ Live(p)' => Live(p)
  BY <1>4 DEF Goto, Live
<1> QED
  BY <1>2, <1>3, <1>5, <1>6, <1>7 DEF SyncEffect, SyncPoints

\* The steps that write the run's row, and those that write the table's too.
LEMMA WritingStepEffect ==
  ASSUME TypeOK, OwnRuns, WorkerPoint, NEW p \in Syncers,
         \/ SetUploading(p) \/ SetFinalizing(p) \/ RefinalizeRun(p)
         \/ CompleteRun(p) \/ DeliverRun(p) \/ StoreSnapshot(p) \/ FailRun(p)
  PROVE  /\ SyncEffect(p)
         /\ Live(p)
<1>b. sub[p] \in Tables /\ own[p] \in 0..Len(runs)
  BY ProcessType
<1>a. DatabaseType
  BY DEF TypeOK
<1>1. at[p] \in {"set_uploading", "scan", "refinalize", "complete", "deliver", "store", "failing"}
  BY DEF SetUploading, SetFinalizing, RefinalizeRun, CompleteRun, DeliverRun, StoreSnapshot, FailRun
<1>2. Live(p)
  BY <1>1 DEF Live
<1>3. own[p] \in DOMAIN runs
  BY <1>2, OwnIsARun
<1>4. \E s \in RunStatuses : SetRun(own[p], s)
  BY DEF SetUploading, SetFinalizing, RefinalizeRun, CompleteRun, DeliverRun, StoreSnapshot, FailRun,
         RunStatuses, Active
<1>5. /\ runs' \in Seq(RunRow)
      /\ Len(runs') = Len(runs) /\ DOMAIN runs' = DOMAIN runs
      /\ \A r \in DOMAIN runs : runs'[r].table = runs[r].table
      /\ \A r \in DOMAIN runs \ {own[p]} : runs'[r] = runs[r]
  BY <1>a, <1>3, <1>4, SetRunType
<1>6. /\ table' \in [Tables -> TableRow(Len(runs))]
      /\ \A t \in Tables : t # sub[p] => table'[t] = table[t]
  <2>1. \/ table' = table
        \/ \E s \in {"RUNNING", "COMPLETED", "DELIVERED", "FAILED"} : SetTable(sub[p], s, own[p])
    BY DEF SetUploading, SetFinalizing, RefinalizeRun, CompleteRun, DeliverRun, StoreSnapshot, FailRun
  <2>3. CASE table' = table
    BY <2>3, <1>a DEF DatabaseType
  <2>4. CASE \E s \in {"RUNNING", "COMPLETED", "DELIVERED", "FAILED"} : SetTable(sub[p], s, own[p])
    BY <1>b, <1>a, <2>4, SetTableType, ZenonT(30)
  <2> QED
    BY <2>1, <2>3, <2>4
<1> USE DEF TypeOK, DatabaseType, SyncType, ControlType
<1>7. UNCHANGED <<cycles, own, pos, outbox, visible, sub>>
  BY DEF SetUploading, SetFinalizing, RefinalizeRun, CompleteRun, DeliverRun, StoreSnapshot, FailRun,
         Return
<1>8. \E point \in SyncPoints \cup {"off"} : Goto(p, point)
  BY DEF SetUploading, SetFinalizing, RefinalizeRun, CompleteRun, DeliverRun, StoreSnapshot, FailRun,
         SyncPoints, Return
<1>9. /\ p # Worker => UNCHANGED <<worker, result>>
      /\ p = Worker => \/ at'[p] # "off" /\ UNCHANGED <<worker, result>>
                       \/ at'[p] = "off" /\ worker' = "settle" /\ result' \in {"delivered", "failed", "raised"}
  BY DEF SetUploading, SetFinalizing, RefinalizeRun, CompleteRun, DeliverRun, StoreSnapshot, FailRun,
         Return, Goto, WorkerPoint
<1>10. /\ at' \in [Syncers -> SyncPoints \cup {"off"}]
       /\ \A q \in Syncers \ {p} : at'[q] = at[q]
  BY <1>8 DEF Goto
<1> QED
  BY <1>1, <1>2, <1>3, <1>5, <1>6, <1>7, <1>9, <1>10 DEF SyncEffect

\* A command starts, or is killed.
LEMMA ManualEffect ==
  ASSUME TypeOK, OwnRuns, NEW p \in Syncers, NEW t \in Tables, StartManual(p, t) \/ KillManual(p)
  PROVE  SyncEffect(p)
<1> USE DEF TypeOK, DatabaseType, SyncType, ControlType
<1>1. p # Worker
  BY CycleAssumption DEF StartManual, KillManual
<1>2. UNCHANGED <<runs, table, cycles, outbox, visible, own, worker, pos, result>>
  BY DEF StartManual, KillManual
<1>3. \/ at[p] = "off" /\ Goto(p, "begin") /\ sub' = [sub EXCEPT ![p] = t]
      \/ Goto(p, "off") /\ sub' = sub
  BY DEF StartManual, KillManual
<1>4. /\ at' \in [Syncers -> SyncPoints \cup {"off"}] /\ sub' \in [Syncers -> Tables]
      /\ \A q \in Syncers \ {p} : at'[q] = at[q] /\ sub'[q] = sub[q]
      /\ Live(p)' => Live(p)
      /\ Live(p) => sub'[p] = sub[p]
  BY <1>3 DEF Goto, Live, SyncPoints
<1> QED
  BY <1>1, <1>2, <1>4 DEF SyncEffect

\* The steps of a sync, with what starts and ends it.
SyncMoves(p) ==
  \/ BeginRefused(p) \/ SyncRefused(p) \/ MakeDirectory(p) \/ UploadManifest(p)
  \/ CleanDelivered(p) \/ Generate(p) \/ SyncFails(p) \/ SyncRaises(p)
  \/ SetUploading(p) \/ SetFinalizing(p) \/ RefinalizeRun(p)
  \/ CompleteRun(p) \/ DeliverRun(p) \/ StoreSnapshot(p) \/ FailRun(p)
  \/ KillManual(p) \/ \E t \in Tables : StartManual(p, t)

\* Every step of a sync, with what starts and ends it, changes at most its own run and
\* its own row.
LEMMA MovesEffect ==
  ASSUME TypeOK, OwnRuns, WorkerPoint, NEW p \in Syncers, SyncMoves(p)
  PROVE  SyncEffect(p)
BY QuietStepEffect, WritingStepEffect, ManualEffect, CycleAssumption DEF SyncMoves

\* The steps of the worker that leave the database alone.
WorkerMoves ==
  StartWorker \/ CleanFailedRuns \/ Wake \/ LoopEnds \/ RequestStop \/ KillWorker

\* The steps of the system, by what they write.
LEMMA NextCases ==
  ASSUME Next
  PROVE  \/ \E p \in Syncers : SyncMoves(p)
         \/ \E p \in Syncers : BeginRun(p, "mkdir") \/ (p \in Manual /\ BeginRun(p, "generate"))
         \/ WorkerMoves
         \/ RecoverCycle \/ OpenCycle \/ NextTable \/ SettleTable \/ CheckCycle \/ Abandon
BY DEF Next, WorkerStep, SyncStep, Failure, SyncMoves, WorkerMoves, Syncers

\* The fields of a run have their types.
LEMMA RunStatus ==
  ASSUME TypeOK, NEW r \in DOMAIN runs
  PROVE  runs[r].table \in Tables /\ runs[r].status \in RunStatuses
<1>1. runs[r] \in RunRow
  BY ElementType DEF TypeOK, DatabaseType
<1> QED
  BY <1>1 DEF RunRow

\* The fields of a cycle have their types.
LEMMA CycleFields ==
  ASSUME TypeOK, NEW c \in DOMAIN cycles
  PROVE  /\ cycles[c] \in CycleRow(Len(runs))
         /\ cycles[c].status \in {"RUNNING", "RETRY_WAIT", "COMPLETED", "ABANDONED"}
         /\ cycles[c].tables \in [Tables -> {"NONE", "PENDING", "RUNNING", "DELIVERED", "FAILED"}]
         /\ cycles[c].run \in [Tables -> 0..Len(runs)]
         /\ cycles[c] = [status |-> cycles[c].status, tables |-> cycles[c].tables, run |-> cycles[c].run]
<1>1. cycles[c] \in CycleRow(Len(runs))
  BY ElementType DEF TypeOK, DatabaseType
<1> QED
  BY <1>1 DEF CycleRow

\* Rows of the open cycle are written one cycle at a time.
LEMMA ReplaceCycle ==
  ASSUME TypeOK, NEW c \in DOMAIN cycles, NEW row \in CycleRow(Len(runs)),
         cycles' = [cycles EXCEPT ![c] = row]
  PROVE  /\ cycles' \in Seq(CycleRow(Len(runs)))
         /\ Len(cycles') = Len(cycles) /\ DOMAIN cycles' = DOMAIN cycles
         /\ cycles'[c] = row
         /\ \A d \in DOMAIN cycles : d # c => cycles'[d] = cycles[d]
BY DEF TypeOK, DatabaseType

\* What BeginRun writes.
LEMMA BeginRunWrites ==
  ASSUME TypeOK, NEW p \in Syncers, NEW next \in {"mkdir", "generate"}, BeginRun(p, next)
  PROVE  /\ runs' \in Seq(RunRow)
         /\ Len(runs') = Len(runs) + 1 /\ DOMAIN runs' = DOMAIN runs \cup {Len(runs) + 1}
         /\ \A r \in DOMAIN runs : runs'[r] = runs[r]
         /\ runs'[Len(runs) + 1] = [table |-> sub[p], status |-> "GENERATING"]
         /\ table' \in [Tables -> TableRow(Len(runs'))]
         /\ table'[sub[p]] = [status |-> "RUNNING", last_run |-> Len(runs) + 1]
         /\ \A t \in Tables \ {sub[p]} : table'[t] = table[t]
         /\ own' \in [Syncers -> 0..Len(runs')] /\ own'[p] = Len(runs) + 1
         /\ at' \in [Syncers -> SyncPoints \cup {"off"}] /\ at'[p] = next
         /\ \A q \in Syncers \ {p} : own'[q] = own[q] /\ at'[q] = at[q]
         /\ UNCHANGED <<cycles, world, sub, control, counters>>
<1>a. sub[p] \in Tables
  BY ProcessType
<1>b. runs \in Seq(RunRow) /\ Len(runs) \in Nat
  BY DEF TypeOK, DatabaseType
<1>1. [table |-> sub[p], status |-> "GENERATING"] \in RunRow
  BY <1>a DEF RunRow, RunStatuses, Active
<1>2. runs' = Append(runs, [table |-> sub[p], status |-> "GENERATING"])
  BY DEF BeginRun
<1>3. /\ runs' \in Seq(RunRow)
      /\ Len(runs') = Len(runs) + 1 /\ DOMAIN runs' = DOMAIN runs \cup {Len(runs) + 1}
      /\ \A r \in DOMAIN runs : runs'[r] = runs[r]
      /\ runs'[Len(runs) + 1] = [table |-> sub[p], status |-> "GENERATING"]
  BY <1>b, <1>1, <1>2
<1>4. table' = [table EXCEPT ![sub[p]] = [status |-> "RUNNING", last_run |-> Len(runs) + 1]]
  BY DEF BeginRun, SetTable
<1>5. table \in [Tables -> TableRow(Len(runs))]
  BY DEF TypeOK, DatabaseType
<1>6. TableRow(Len(runs)) \subseteq TableRow(Len(runs'))
  BY <1>b, <1>3 DEF TableRow
<1>7. [status |-> "RUNNING", last_run |-> Len(runs) + 1] \in TableRow(Len(runs'))
  BY <1>b, <1>3 DEF TableRow
<1>8. /\ table' \in [Tables -> TableRow(Len(runs'))]
      /\ table'[sub[p]] = [status |-> "RUNNING", last_run |-> Len(runs) + 1]
      /\ \A t \in Tables \ {sub[p]} : table'[t] = table[t]
  BY <1>a, <1>4, <1>5, <1>6, <1>7
<1>9. /\ own' \in [Syncers -> 0..Len(runs')] /\ own'[p] = Len(runs) + 1
      /\ \A q \in Syncers \ {p} : own'[q] = own[q]
  BY <1>b, <1>3 DEF BeginRun, TypeOK, SyncType
<1>10. /\ at' \in [Syncers -> SyncPoints \cup {"off"}] /\ at'[p] = next
       /\ \A q \in Syncers \ {p} : at'[q] = at[q]
  BY DEF BeginRun, TypeOK, SyncType, Goto, SyncPoints
<1> QED
  BY <1>3, <1>8, <1>9, <1>10 DEF BeginRun

\* Cycles keep their type when a run is added.
LEMMA MoreRuns ==
  ASSUME TypeOK
  PROVE  cycles \in Seq(CycleRow(Len(runs) + 1))
<1>1. cycles \in Seq(CycleRow(Len(runs))) /\ Len(runs) \in Nat
  BY DEF TypeOK, DatabaseType
<1>2. CycleRow(Len(runs)) \subseteq CycleRow(Len(runs) + 1)
  <2>1. SUFFICES ASSUME NEW row \in CycleRow(Len(runs)) PROVE row \in CycleRow(Len(runs) + 1)
    OBVIOUS
  <2>2. row.run \in [Tables -> 0..Len(runs) + 1]
    BY <1>1 DEF CycleRow
  <2> QED
    BY <2>2 DEF CycleRow
<1> QED
  BY <1>1, <1>2

-----------------------------------------------------------------------------
(* What the worker writes of its cycle                                       *)

\* Current is the open cycle c, and a step replaces its row by `row'.
CycleWrite(c, row) ==
  /\ c = Current /\ c = Len(cycles) /\ c \in DOMAIN cycles /\ OpenCycles = {c}
  /\ row \in CycleRow(Len(runs))
  /\ cycles' \in Seq(CycleRow(Len(runs)))
  /\ Len(cycles') = Len(cycles) /\ DOMAIN cycles' = DOMAIN cycles
  /\ cycles'[c] = row
  /\ \A d \in DOMAIN cycles : d # c => cycles'[d] = cycles[d]
  /\ UNCHANGED runs

Row(s, x, r) ==
  [status |-> s,
   tables |-> [cycles[Len(cycles)].tables EXCEPT ![Captured[pos]] = x],
   run |-> [cycles[Len(cycles)].run EXCEPT ![Captured[pos]] = r]]

\* Setting a table of the open cycle replaces that cycle by Row and leaves the others.
LEMMA CycleTableIsSet ==
  ASSUME TypeOK, OnlyLastOpen, OpenCycles # {}, pos \in DOMAIN Captured,
         NEW s \in {"RUNNING", "RETRY_WAIT", cycles[Len(cycles)].status},
         NEW x \in {"RUNNING", "DELIVERED", "FAILED"}, NEW r \in 0..Len(runs),
         SetCycleTable(Captured[pos], s, x, r), UNCHANGED runs
  PROVE  CycleWrite(Len(cycles), Row(s, x, r))
<1> DEFINE c == Len(cycles)
           t == Captured[pos]
<1>1. OpenCycles = {c} /\ Current = c /\ c \in DOMAIN cycles
  BY CurrentIsLast
<1>2. t \in Tables
  BY CapturedTables
<1>3. Row(s, x, r) \in CycleRow(Len(runs))
  <2>1. [cycles[c].run EXCEPT ![t] = r] \in [Tables -> 0..Len(runs)]
    BY <1>1, <1>2, CycleFields
  <2>2. [cycles[c].tables EXCEPT ![t] = x] \in [Tables -> {"NONE", "PENDING", "RUNNING", "DELIVERED", "FAILED"}]
    BY <1>1, <1>2, CycleFields
  <2>3. s \in {"RUNNING", "RETRY_WAIT", "COMPLETED", "ABANDONED"}
    BY <1>1, CycleFields
  <2> QED
    BY <2>1, <2>2, <2>3 DEF CycleRow, Row
<1>4. cycles' = [cycles EXCEPT ![c] = Row(s, x, r)]
  BY <1>1 DEF SetCycleTable, Row
<1> HIDE DEF c
<1>5. /\ cycles' \in Seq(CycleRow(Len(runs)))
      /\ Len(cycles') = Len(cycles) /\ DOMAIN cycles' = DOMAIN cycles
      /\ cycles'[c] = Row(s, x, r)
      /\ \A d \in DOMAIN cycles : d # c => cycles'[d] = cycles[d]
  BY <1>1, <1>3, <1>4, ReplaceCycle
<1> QED
  BY <1>1, <1>3, <1>5 DEF CycleWrite, c

\* The worker skips a table that is delivered, leaves the loop, or begins to sync one
\* that is not.
LEMMA NextTableWrites ==
  ASSUME TypeOK, WorkerPoint, OnlyLastOpen, NextTable
  PROVE  /\ worker = "loop" /\ pos \in DOMAIN Captured /\ OpenCycles # {}
         /\ UNCHANGED <<runs, table, world, result, stop, counters, own>>
         /\ \/ /\ cycles[Len(cycles)].tables[Captured[pos]] = "DELIVERED"
               /\ pos' = pos + 1
               /\ UNCHANGED <<cycles, at, sub, worker>>
            \/ worker' = "check" /\ UNCHANGED <<cycles, at, sub, pos>>
            \/ /\ cycles[Len(cycles)].tables[Captured[pos]] # "DELIVERED"
               /\ CycleWrite(Len(cycles), Row("RUNNING", "RUNNING", cycles[Len(cycles)].run[Captured[pos]]))
               /\ worker' = "sync" /\ pos' = pos
               /\ at' = [at EXCEPT ![Worker] = "begin"]
               /\ sub' = [sub EXCEPT ![Worker] = Captured[pos]]
<1>1. worker = "loop" /\ pos \in DOMAIN Captured /\ OpenCycles # {}
  BY DEF NextTable, WorkerPoint
<1>2. Current = Len(cycles) /\ Len(cycles) \in DOMAIN cycles
  BY <1>1, CurrentIsLast
<1>3. cycles[Len(cycles)].run[Captured[pos]] \in 0..Len(runs)
  BY <1>1, <1>2, CapturedTables, CycleFields
<1>4. SetCycleTable(Captured[pos], "RUNNING", "RUNNING", cycles[Current].run[Captured[pos]]) =>
        CycleWrite(Len(cycles), Row("RUNNING", "RUNNING", cycles[Len(cycles)].run[Captured[pos]]))
  BY <1>1, <1>2, <1>3, CycleTableIsSet DEF NextTable
<1> QED
  BY <1>1, <1>2, <1>4 DEF NextTable, Skipped, Goto

\* The worker enters a table's outcome in its cycle: DELIVERED with the run, or FAILED
\* and RETRY_WAIT.
LEMMA SettleTableWrites ==
  ASSUME TypeOK, WorkerPoint, OnlyLastOpen, SettleTable
  PROVE  /\ worker = "settle" /\ pos \in DOMAIN Captured
         /\ UNCHANGED <<runs, table, world, at, sub, own, stop, counters>>
         /\ \/ /\ result = "delivered"
               /\ CycleWrite(Len(cycles), Row(cycles[Len(cycles)].status, "DELIVERED", own[Worker]))
               /\ pos' = pos + 1 /\ worker' = "loop"
            \/ /\ \E r \in {0} \cup (IF result = "raised" THEN {} ELSE {own[Worker]}) :
                    CycleWrite(Len(cycles), Row("RETRY_WAIT", "FAILED", r))
               /\ pos' = pos /\ worker' = "check"
         /\ result' = "none"
<1>1. worker = "settle" /\ pos \in DOMAIN Captured /\ OpenCycles # {}
  BY DEF SettleTable, WorkerPoint
<1>2. Current = Len(cycles)
  BY <1>1, CurrentIsLast
<1>3. own[Worker] \in 0..Len(runs) /\ 0 \in 0..Len(runs)
  <2>1. Len(runs) \in Nat
    BY DEF TypeOK, DatabaseType
  <2> QED
    BY <2>1, ProcessType DEF Syncers
<1>4. CASE Succeeded(result)
  <2>1. /\ SetCycleTable(Captured[pos], cycles[Len(cycles)].status, "DELIVERED", own[Worker])
        /\ pos' = pos + 1 /\ worker' = "loop" /\ UNCHANGED runs
    BY <1>2, <1>4 DEF SettleTable
  <2>2. CycleWrite(Len(cycles), Row(cycles[Len(cycles)].status, "DELIVERED", own[Worker]))
    BY <1>1, <1>3, <2>1, CycleTableIsSet
  <2> QED
    BY <1>1, <1>4, <2>1, <2>2 DEF SettleTable, Succeeded
<1>5. CASE ~Succeeded(result)
  <2>1. /\ SetCycleTable(Captured[pos], "RETRY_WAIT", "FAILED", FailedRunId)
        /\ pos' = pos /\ worker' = "check" /\ UNCHANGED runs
    BY <1>5 DEF SettleTable
  <2>2. FailedRunId \in {0} \cup (IF result = "raised" THEN {} ELSE {own[Worker]})
    BY DEF FailedRunId
  <2>3. CycleWrite(Len(cycles), Row("RETRY_WAIT", "FAILED", FailedRunId))
    BY <1>1, <1>3, <2>1, <2>2, CycleTableIsSet
  <2> QED
    BY <1>1, <2>1, <2>2, <2>3 DEF SettleTable
<1> QED
  BY <1>4, <1>5

\* The open cycle is completed or abandoned, or left as it is.
LEMMA CycleEndWrites ==
  ASSUME TypeOK, WorkerPoint, OnlyLastOpen, CheckCycle \/ Abandon
  PROVE  /\ UNCHANGED <<runs, table, world, sync, pos, result, stop, crashes>>
         /\ \/ worker = "check" /\ worker' = "maintain"
            \/ worker = "down" /\ UNCHANGED worker
         /\ OpenCycles # {}
         /\ \/ UNCHANGED cycles
            \/ \E s \in {"COMPLETED", "ABANDONED"} :
                 /\ CycleWrite(Len(cycles), [status |-> s, tables |-> cycles[Len(cycles)].tables,
                                             run |-> cycles[Len(cycles)].run])
                 /\ s = "COMPLETED" => worker = "check" /\ AllDelivered
                 /\ s = "ABANDONED" => Abandon
<1> DEFINE c == Len(cycles)
           row(s) == [status |-> s, tables |-> cycles[c].tables, run |-> cycles[c].run]
<1>1. /\ UNCHANGED <<runs, table, world, sync, pos, result, stop, crashes>>
      /\ \/ worker = "check" /\ worker' = "maintain"
         \/ worker = "down" /\ UNCHANGED worker
      /\ OpenCycles # {}
  BY DEF CheckCycle, Abandon, WorkerPoint
<1>2. OpenCycles = {c} /\ Current = c /\ c \in DOMAIN cycles
  BY <1>1, CurrentIsLast
<1>3. ASSUME NEW s \in {"COMPLETED", "ABANDONED"},
             cycles' = [cycles EXCEPT ![Current].status = s]
      PROVE  CycleWrite(c, row(s))
  <2>1. [cycles[c] EXCEPT !.status = s] = row(s)
    BY <1>2, CycleFields
  <2>2. cycles' = [cycles EXCEPT ![c] = [cycles[c] EXCEPT !.status = s]]
    BY <1>2, <1>3
  <2>3. row(s) \in CycleRow(Len(runs))
    BY <1>2, <1>3, CycleFields DEF CycleRow
  <2> HIDE DEF row, c
  <2>4. cycles' = [cycles EXCEPT ![c] = row(s)]
    BY <2>1, <2>2
  <2>5. /\ cycles' \in Seq(CycleRow(Len(runs)))
        /\ Len(cycles') = Len(cycles) /\ DOMAIN cycles' = DOMAIN cycles
        /\ cycles'[c] = row(s)
        /\ \A d \in DOMAIN cycles : d # c => cycles'[d] = cycles[d]
    BY <1>2, <2>3, <2>4, ReplaceCycle
  <2> QED
    BY <1>1, <1>2, <2>3, <2>5 DEF CycleWrite, c
<1>4. \/ UNCHANGED cycles
      \/ worker = "check" /\ AllDelivered /\ cycles' = [cycles EXCEPT ![Current].status = "COMPLETED"]
      \/ worker = "down" /\ Abandon /\ cycles' = [cycles EXCEPT ![Current].status = "ABANDONED"]
  BY DEF CheckCycle, Abandon
<1> HIDE DEF row
<1>5. \/ UNCHANGED cycles
      \/ CycleWrite(c, row("COMPLETED")) /\ worker = "check" /\ AllDelivered
      \/ CycleWrite(c, row("ABANDONED")) /\ Abandon
  BY <1>3, <1>4
<1> QED
  BY <1>1, <1>5 DEF row

\* The worker resumes the open cycle, or appends a new one if none is open.
LEMMA OpenCycleWrites ==
  ASSUME TypeOK, OpenCycle
  PROVE  /\ worker = "open" /\ worker' = "loop" /\ pos' = 1
         /\ UNCHANGED <<runs, table, world, sync, result, stop, counters>>
         /\ \/ OpenCycles # {} /\ UNCHANGED cycles
            \/ /\ OpenCycles = {}
               /\ NewCycle \in CycleRow(Len(runs))
               /\ cycles' \in Seq(CycleRow(Len(runs)))
               /\ Len(cycles') = Len(cycles) + 1 /\ DOMAIN cycles' = DOMAIN cycles \cup {Len(cycles) + 1}
               /\ \A c \in DOMAIN cycles : cycles'[c] = cycles[c]
               /\ cycles'[Len(cycles) + 1] = NewCycle
<1>1. cycles \in Seq(CycleRow(Len(runs))) /\ Len(runs) \in Nat
  BY DEF TypeOK, DatabaseType
<1>2. NewCycle \in CycleRow(Len(runs))
  BY <1>1 DEF NewCycle, CycleRow
<1>3. CASE OpenCycles # {} /\ UNCHANGED cycles
  BY <1>3 DEF OpenCycle
<1>4. CASE OpenCycles = {} /\ cycles' = Append(cycles, NewCycle)
  <2>1. /\ cycles' \in Seq(CycleRow(Len(runs)))
        /\ Len(cycles') = Len(cycles) + 1 /\ DOMAIN cycles' = DOMAIN cycles \cup {Len(cycles) + 1}
        /\ \A c \in DOMAIN cycles : cycles'[c] = cycles[c]
        /\ cycles'[Len(cycles) + 1] = NewCycle
    BY <1>1, <1>2, <1>4
  <2> QED
    BY <1>2, <1>4, <2>1 DEF OpenCycle
<1> QED
  BY <1>3, <1>4 DEF OpenCycle

\* Recovery marks the lost runs FAILED and changes no other run.
LEMMA RecoverWrites ==
  ASSUME TypeOK, RecoverCycle
  PROVE  /\ worker = "recover" /\ worker' = "open"
         /\ UNCHANGED <<world, sync, pos, result, stop, counters>>
         /\ runs' \in Seq(RunRow) /\ Len(runs') = Len(runs) /\ DOMAIN runs' = DOMAIN runs
         /\ \A r \in DOMAIN runs : r \notin LostRuns => runs'[r] = runs[r]
         /\ \A r \in LostRuns : r \in DOMAIN runs /\ runs[r].status \in Active
                                 /\ runs'[r] = [table |-> runs[r].table, status |-> "FAILED"]
         /\ table' \in [Tables -> TableRow(Len(runs))]
         /\ \A t \in Tables :
              table'[t] = IF table[t].last_run \in LostRuns
                          THEN [status |-> "FAILED", last_run |-> table[t].last_run] ELSE table[t]
         /\ cycles' \in Seq(CycleRow(Len(runs)))
         /\ Len(cycles') = Len(cycles) /\ DOMAIN cycles' = DOMAIN cycles
         /\ \A c \in DOMAIN cycles :
              /\ cycles'[c].status = cycles[c].status /\ cycles'[c].run = cycles[c].run
              /\ \A t \in Tables : cycles'[c].tables[t] =
                   IF c \in OpenCycles /\ t \in Interrupted THEN "FAILED" ELSE cycles[c].tables[t]
<1>a. runs \in Seq(RunRow) /\ table \in [Tables -> TableRow(Len(runs))] /\ cycles \in Seq(CycleRow(Len(runs)))
  BY DEF TypeOK, DatabaseType
<1>1. \A r \in LostRuns : r \in DOMAIN runs /\ runs[r].status \in Active
  BY DEF LostRuns, ActiveRuns
<1>2. /\ runs' \in Seq(RunRow) /\ Len(runs') = Len(runs) /\ DOMAIN runs' = DOMAIN runs
      /\ \A r \in DOMAIN runs : r \notin LostRuns => runs'[r] = runs[r]
      /\ \A r \in LostRuns : runs'[r] = [table |-> runs[r].table, status |-> "FAILED"]
  <2> DEFINE new(r) == IF r \in LostRuns THEN [runs[r] EXCEPT !.status = "FAILED"] ELSE runs[r]
  <2>1. runs' = [r \in DOMAIN runs |-> new(r)]
    BY DEF RecoverCycle
  <2>2. ASSUME NEW r \in DOMAIN runs
        PROVE  new(r) \in RunRow /\ (r \in LostRuns => new(r) = [table |-> runs[r].table, status |-> "FAILED"])
    <3>1. runs[r] \in RunRow
      BY <1>a, ElementType
    <3> QED
      BY <3>1 DEF RunRow, RunStatuses
  <2>3. \A r \in DOMAIN runs : r \notin LostRuns => new(r) = runs[r]
    OBVIOUS
  <2> HIDE DEF new
  <2>4. runs' \in [DOMAIN runs -> RunRow]
    BY <2>1, <2>2
  <2>5. runs' \in Seq(RunRow) /\ Len(runs') = Len(runs) /\ DOMAIN runs' = DOMAIN runs
    BY <1>a, <2>4, SameLength
  <2> QED
    BY <1>1, <2>1, <2>2, <2>3, <2>5
<1>3. /\ table' \in [Tables -> TableRow(Len(runs))]
      /\ \A t \in Tables :
           table'[t] = IF table[t].last_run \in LostRuns
                       THEN [status |-> "FAILED", last_run |-> table[t].last_run] ELSE table[t]
  <2>1. ASSUME NEW t \in Tables
        PROVE  /\ table'[t] = IF table[t].last_run \in LostRuns
                              THEN [status |-> "FAILED", last_run |-> table[t].last_run] ELSE table[t]
               /\ table'[t] \in TableRow(Len(runs))
    <3>1. table[t] \in TableRow(Len(runs))
      BY <1>a
    <3>2. [table[t] EXCEPT !.status = "FAILED"] = [status |-> "FAILED", last_run |-> table[t].last_run]
      BY <3>1 DEF TableRow
    <3>3. table'[t] = IF table[t].last_run \in LostRuns THEN [table[t] EXCEPT !.status = "FAILED"] ELSE table[t]
      BY DEF RecoverCycle, ShowsLost
    <3> QED
      BY <3>1, <3>2, <3>3 DEF TableRow
  <2>2. table' = [t \in Tables |-> table'[t]]
    BY DEF RecoverCycle
  <2> QED
    BY <2>1, <2>2
<1>4. /\ cycles' \in Seq(CycleRow(Len(runs)))
      /\ Len(cycles') = Len(cycles) /\ DOMAIN cycles' = DOMAIN cycles
      /\ \A c \in DOMAIN cycles :
           /\ cycles'[c].status = cycles[c].status /\ cycles'[c].run = cycles[c].run
           /\ \A t \in Tables : cycles'[c].tables[t] =
                IF c \in OpenCycles /\ t \in Interrupted THEN "FAILED" ELSE cycles[c].tables[t]
  <2> DEFINE tables(c) == [t \in Tables |-> IF c \in OpenCycles /\ t \in Interrupted
                                             THEN "FAILED" ELSE cycles[c].tables[t]]
             new(c) == [status |-> cycles[c].status, tables |-> tables(c), run |-> cycles[c].run]
  <2>1. ASSUME NEW c \in DOMAIN cycles
        PROVE  new(c) \in CycleRow(Len(runs)) /\ cycles'[c] = new(c)
    <3>1. tables(c) \in [Tables -> {"NONE", "PENDING", "RUNNING", "DELIVERED", "FAILED"}]
      BY CycleFields
    <3>2. cycles'[c] = [cycles[c] EXCEPT !.tables = tables(c)]
      BY DEF RecoverCycle
    <3> HIDE DEF tables
    <3> QED
      BY <3>1, <3>2, CycleFields DEF CycleRow
  <2>2. cycles' = [c \in DOMAIN cycles |-> cycles'[c]]
    <3> DEFINE row(c) == [cycles[c] EXCEPT !.tables = tables(c)]
    <3>1. cycles' = [c \in DOMAIN cycles |-> row(c)]
      BY DEF RecoverCycle
    <3> HIDE DEF row
    <3> QED
      BY <3>1
  <2>3. cycles' \in [DOMAIN cycles -> CycleRow(Len(runs))]
    BY <2>1, <2>2
  <2>4. cycles' \in Seq(CycleRow(Len(runs))) /\ Len(cycles') = Len(cycles) /\ DOMAIN cycles' = DOMAIN cycles
    BY <1>a, <2>3, SameLength
  <2>5. ASSUME NEW c \in DOMAIN cycles
        PROVE  /\ cycles'[c].status = cycles[c].status /\ cycles'[c].run = cycles[c].run
               /\ cycles'[c].tables = tables(c)
    <3>1. cycles'[c] = new(c)
      BY <2>1
    <3> HIDE DEF tables
    <3> QED
      BY <3>1
  <2>6. ASSUME NEW c \in DOMAIN cycles, NEW t \in Tables
        PROVE  tables(c)[t] = IF c \in OpenCycles /\ t \in Interrupted THEN "FAILED" ELSE cycles[c].tables[t]
    OBVIOUS
  <2> HIDE DEF tables, new
  <2> QED
    BY <2>4, <2>5, <2>6
<1> QED
  BY <1>1, <1>2, <1>3, <1>4 DEF RecoverCycle

\* Recovery changes the table of no run.
LEMMA RecoverKeepsTables ==
  ASSUME TypeOK, RecoverCycle, NEW r \in DOMAIN runs
  PROVE  runs'[r].table = runs[r].table
<1>1. CASE r \in LostRuns
  <2>1. runs'[r] = [table |-> runs[r].table, status |-> "FAILED"]
    BY <1>1, RecoverWrites
  <2> QED
    BY <2>1
<1>2. CASE r \notin LostRuns
  BY <1>2, RecoverWrites
<1> QED
  BY <1>1, <1>2

\* The other steps of the worker leave the database alone.
LEMMA WorkerMovesWrite ==
  ASSUME TypeOK, WorkerMoves
  PROVE  /\ UNCHANGED <<runs, table, cycles, visible, own, sub, pos>>
         /\ outbox' \subseteq outbox
         /\ at' \in [Syncers -> SyncPoints \cup {"off"}]
         /\ \A p \in Syncers \ {Worker} : at'[p] = at[p]
         /\ \A p \in Syncers : at'[p] = "off" \/ at'[p] = at[p]
         /\ \/ KillWorker /\ worker' = "down" /\ at'[Worker] = "off" /\ result' = "none"
            \/ RequestStop /\ UNCHANGED <<worker, result, at>>
            \/ LoopEnds /\ worker = "loop" /\ worker' = "check" /\ UNCHANGED <<result, at>>
            \/ /\ worker \in {"down", "maintain", "idle"} /\ worker' \in {"down", "maintain", "idle", "recover"}
               /\ UNCHANGED <<result, at>>
<1>1. UNCHANGED <<runs, table, cycles, visible, own, sub, pos>> /\ outbox' \subseteq outbox
  BY DEF WorkerMoves, StartWorker, CleanFailedRuns, Wake, LoopEnds, RequestStop, KillWorker, Removable
<1>2. CASE KillWorker
  BY <1>1, <1>2 DEF KillWorker, Goto, TypeOK, SyncType, Syncers
<1>3. CASE StartWorker \/ CleanFailedRuns \/ Wake \/ LoopEnds \/ RequestStop
  <2>1. at' = at /\ result' = result
    BY <1>3 DEF StartWorker, CleanFailedRuns, Wake, LoopEnds, RequestStop
  <2>2. at \in [Syncers -> SyncPoints \cup {"off"}]
    BY DEF TypeOK, SyncType
  <2>3. \/ RequestStop /\ UNCHANGED worker
        \/ LoopEnds /\ worker = "loop" /\ worker' = "check"
        \/ worker \in {"down", "maintain", "idle"} /\ worker' \in {"down", "maintain", "idle", "recover"}
    BY <1>3 DEF StartWorker, CleanFailedRuns, Wake, LoopEnds, RequestStop
  <2> QED
    BY <1>1, <2>1, <2>2, <2>3
<1> QED
  BY <1>2, <1>3 DEF WorkerMoves

-----------------------------------------------------------------------------
(* Types                                                                     *)

\* Every step keeps the types of the database.
LEMMA DatabaseTypeNext ==
  ASSUME TypeOK, OwnRuns, WorkerPoint, OnlyLastOpen, Next
  PROVE  DatabaseType'
<1>a. runs \in Seq(RunRow) /\ table \in [Tables -> TableRow(Len(runs))] /\ cycles \in Seq(CycleRow(Len(runs)))
      /\ outbox \subseteq DOMAIN runs /\ visible \subseteq DOMAIN runs
  BY DEF TypeOK, DatabaseType
<1>1. ASSUME NEW p \in Syncers, SyncMoves(p)
      PROVE  DatabaseType'
  <2>1. SyncEffect(p)
    BY <1>1, MovesEffect
  <2> QED
    BY <1>a, <2>1 DEF SyncEffect, DatabaseType
<1>2. ASSUME NEW p \in Syncers, NEW next \in {"mkdir", "generate"}, BeginRun(p, next)
      PROVE  DatabaseType'
  <2>1. /\ runs' \in Seq(RunRow) /\ Len(runs') = Len(runs) + 1 /\ DOMAIN runs \subseteq DOMAIN runs'
        /\ table' \in [Tables -> TableRow(Len(runs'))]
        /\ UNCHANGED <<cycles, outbox, visible>>
    BY <1>2, BeginRunWrites
  <2>2. cycles \in Seq(CycleRow(Len(runs) + 1))
    BY MoreRuns
  <2> QED
    BY <1>a, <2>1, <2>2 DEF DatabaseType
<1>3. CASE WorkerMoves
  <2>1. UNCHANGED <<runs, table, cycles, visible>> /\ outbox' \subseteq outbox
    BY <1>3, WorkerMovesWrite
  <2> QED
    BY <1>a, <2>1 DEF DatabaseType
<1>4. CASE RecoverCycle
  <2>1. /\ runs' \in Seq(RunRow) /\ Len(runs') = Len(runs) /\ DOMAIN runs' = DOMAIN runs
        /\ table' \in [Tables -> TableRow(Len(runs))]
        /\ cycles' \in Seq(CycleRow(Len(runs)))
        /\ UNCHANGED world
    BY <1>4, RecoverWrites
  <2> QED
    BY <1>a, <2>1 DEF DatabaseType
<1>5. CASE OpenCycle
  <2>1. UNCHANGED <<runs, table, world>> /\ cycles' \in Seq(CycleRow(Len(runs)))
    BY <1>5, <1>a, OpenCycleWrites
  <2> QED
    BY <1>a, <2>1 DEF DatabaseType
<1>6. CASE NextTable
  <2>1. UNCHANGED <<runs, table, world>> /\ cycles' \in Seq(CycleRow(Len(runs)))
    BY <1>6, <1>a, NextTableWrites DEF CycleWrite
  <2> QED
    BY <1>a, <2>1 DEF DatabaseType
<1>7. CASE SettleTable
  <2>1. UNCHANGED <<runs, table, world>> /\ cycles' \in Seq(CycleRow(Len(runs)))
    BY <1>7, <1>a, SettleTableWrites DEF CycleWrite
  <2> QED
    BY <1>a, <2>1 DEF DatabaseType
<1>8. CASE CheckCycle \/ Abandon
  <2>1. UNCHANGED <<runs, table, world>> /\ cycles' \in Seq(CycleRow(Len(runs)))
    BY <1>8, <1>a, CycleEndWrites DEF CycleWrite
  <2> QED
    BY <1>a, <2>1 DEF DatabaseType
<1> QED
  BY <1>1, <1>2, <1>3, <1>4, <1>5, <1>6, <1>7, <1>8, NextCases

\* Every step keeps the types of the syncing processes.
LEMMA SyncTypeNext ==
  ASSUME TypeOK, OwnRuns, WorkerPoint, OnlyLastOpen, Next
  PROVE  SyncType'
<1>a. at \in [Syncers -> SyncPoints \cup {"off"}] /\ sub \in [Syncers -> Tables] /\ own \in [Syncers -> 0..Len(runs)]
  BY DEF TypeOK, SyncType
<1>1. ASSUME NEW p \in Syncers, SyncMoves(p)
      PROVE  SyncType'
  <2>1. SyncEffect(p)
    BY <1>1, MovesEffect
  <2> QED
    BY <1>a, <2>1 DEF SyncEffect, SyncType
<1>2. ASSUME NEW p \in Syncers, NEW next \in {"mkdir", "generate"}, BeginRun(p, next)
      PROVE  SyncType'
  <2>1. /\ own' \in [Syncers -> 0..Len(runs')] /\ at' \in [Syncers -> SyncPoints \cup {"off"}]
        /\ UNCHANGED sub
    BY <1>2, BeginRunWrites
  <2> QED
    BY <1>a, <2>1 DEF SyncType
<1>3. CASE WorkerMoves
  <2>1. UNCHANGED <<runs, own, sub>> /\ at' \in [Syncers -> SyncPoints \cup {"off"}]
    BY <1>3, WorkerMovesWrite
  <2> QED
    BY <1>a, <2>1 DEF SyncType
<1>4. CASE RecoverCycle
  <2>1. Len(runs') = Len(runs) /\ UNCHANGED sync
    BY <1>4, RecoverWrites
  <2> QED
    BY <1>a, <2>1 DEF SyncType
<1>5. CASE OpenCycle \/ SettleTable \/ CheckCycle \/ Abandon
  <2>1. UNCHANGED <<runs, sync>>
    BY <1>5 DEF OpenCycle, SettleTable, CheckCycle, Abandon
  <2> QED
    BY <1>a, <2>1 DEF SyncType
<1>6. CASE NextTable
  <2>1. UNCHANGED <<runs, own>>
    BY <1>6 DEF NextTable
  <2>2. /\ at' \in {at, [at EXCEPT ![Worker] = "begin"]}
        /\ sub' \in {sub, [sub EXCEPT ![Worker] = Captured[pos]]}
    BY <1>6, NextTableWrites
  <2>3. Captured[pos] \in Tables
    BY <1>6, NextTableWrites, CapturedTables
  <2> QED
    BY <1>a, <2>1, <2>2, <2>3 DEF SyncType, SyncPoints
<1> QED
  BY <1>1, <1>2, <1>3, <1>4, <1>5, <1>6, NextCases

\* Every step keeps the types of the worker and of the counters.
LEMMA ControlTypeNext ==
  ASSUME TypeOK, OwnRuns, WorkerPoint, OnlyLastOpen, Next
  PROVE  ControlType'
<1>a. ControlType
  BY DEF TypeOK
<1>b. stop' \in BOOLEAN
  BY <1>a, Zenon DEF ControlType, Next, WorkerStep, SyncStep, Failure, StartWorker, CleanFailedRuns, Wake, LoopEnds,
     RequestStop, KillWorker, RecoverCycle, OpenCycle, NextTable, SettleTable, CheckCycle, Abandon,
     BeginRun, BeginRefused, SyncRefused, MakeDirectory, UploadManifest, CleanDelivered, Generate,
     SyncFails, SyncRaises, SetUploading, SetFinalizing, RefinalizeRun, CompleteRun, DeliverRun,
     StoreSnapshot, FailRun, KillManual, StartManual, Return
<1>c. commands' \in Nat /\ crashes' \in Nat /\ faults' \in Nat /\ raises' \in Nat /\ abandons' \in Nat
  <2>1. /\ commands' \in {commands, commands + 1} /\ crashes' \in {crashes, crashes + 1}
        /\ faults' \in {faults, faults + 1} /\ raises' \in {raises, raises + 1}
        /\ abandons' \in {abandons, abandons + 1}
    BY Zenon DEF Next, WorkerStep, SyncStep, Failure, StartWorker, CleanFailedRuns, Wake, LoopEnds,
       RequestStop, KillWorker, RecoverCycle, OpenCycle, NextTable, SettleTable, CheckCycle, Abandon,
       BeginRun, BeginRefused, SyncRefused, MakeDirectory, UploadManifest, CleanDelivered, Generate,
       SyncFails, SyncRaises, SetUploading, SetFinalizing, RefinalizeRun, CompleteRun, DeliverRun,
       StoreSnapshot, FailRun, KillManual, StartManual
  <2> QED
    BY <1>a, <2>1 DEF ControlType
<1>1. ASSUME NEW p \in Syncers, SyncMoves(p)
      PROVE  worker' \in WorkerPoints /\ pos' = pos
             /\ result' \in {"none", "delivered", "failed", "raised"}
  <2>1. SyncEffect(p)
    BY <1>1, MovesEffect
  <2> QED
    BY <1>a, <2>1 DEF SyncEffect, ControlType, WorkerPoints
<1>2. ASSUME NEW p \in Syncers, NEW next \in {"mkdir", "generate"}, BeginRun(p, next)
      PROVE  UNCHANGED <<worker, pos, result>>
  BY <1>2 DEF BeginRun
<1>3. CASE WorkerMoves
  <2>1. /\ pos' = pos /\ worker' \in WorkerPoints \cup {worker} /\ result' \in {result, "none"}
    BY <1>3, WorkerMovesWrite DEF WorkerPoints
  <2> QED
    BY <1>a, <1>b, <1>c, <2>1 DEF ControlType
<1>4. CASE RecoverCycle \/ CheckCycle \/ Abandon
  <2>1. pos' = pos /\ result' = result /\ worker' \in {worker, "open", "maintain"}
    BY <1>4 DEF RecoverCycle, CheckCycle, Abandon
  <2> QED
    BY <1>a, <1>b, <1>c, <2>1 DEF ControlType, WorkerPoints
<1>5. CASE OpenCycle
  <2>1. pos' = 1 /\ result' = result /\ worker' = "loop"
    BY <1>5 DEF OpenCycle
  <2> QED
    BY <1>a, <1>b, <1>c, <2>1, CapturedTables DEF ControlType, WorkerPoints
<1>6. CASE NextTable \/ SettleTable
  <2>1. /\ pos \in DOMAIN Captured /\ pos' \in {pos, pos + 1}
        /\ worker' \in {worker, "loop", "check", "sync"} /\ result' \in {result, "none"}
    BY <1>6, NextTableWrites, SettleTableWrites
  <2> QED
    BY <1>a, <1>b, <1>c, <2>1, CapturedTables DEF ControlType, WorkerPoints
<1> QED
  BY <1>a, <1>b, <1>c, <1>1, <1>2, <1>3, <1>4, <1>5, <1>6, NextCases DEF ControlType

-----------------------------------------------------------------------------
(* Runs and the processes that produce them                                  *)

\* Processes keep working on runs of their own.
LEMMA OwnRunsNext ==
  ASSUME TypeOK, OwnRuns, WorkerPoint, OnlyLastOpen, Next
  PROVE  OwnRuns'
<1>a. \A q \in Syncers : Live(q) => own[q] \in DOMAIN runs /\ own[q] # 0 /\ runs[own[q]].table = sub[q]
  BY OwnIsARun
<1>b. \A q \in Syncers : own[q] \in 0..Len(runs)
  BY ProcessType
<1>c. DOMAIN runs = 1..Len(runs) /\ Len(runs) \in Nat
  BY DEF TypeOK, DatabaseType
<1>1. ASSUME NEW p \in Syncers, SyncMoves(p)
      PROVE  OwnRuns'
  <2>1. SyncEffect(p)
    BY <1>1, MovesEffect
  <2>2. ASSUME NEW q \in Syncers
        PROVE  Live(q)' => Live(q) /\ sub'[q] = sub[q]
    BY <2>1 DEF SyncEffect, Live
  <2>3. /\ own' = own
        /\ \A r \in DOMAIN runs : runs'[r].table = runs[r].table
    BY <2>1 DEF SyncEffect
  <2>4. ASSUME NEW q \in Syncers, Live(q)'
        PROVE  own'[q] # 0 /\ runs'[own'[q]].table = sub'[q]
    BY <1>a, <2>2, <2>3, <2>4
  <2>5. \A q \in Syncers : \A s \in Syncers \ {q} : own'[q] = own'[s] => own'[q] = 0
    BY <2>3 DEF OwnRuns
  <2> QED
    BY <2>4, <2>5 DEF OwnRuns
<1>2. ASSUME NEW p \in Syncers, NEW next \in {"mkdir", "generate"}, BeginRun(p, next)
      PROVE  OwnRuns'
  <2>1. /\ \A r \in DOMAIN runs : runs'[r] = runs[r]
        /\ runs'[Len(runs) + 1] = [table |-> sub[p], status |-> "GENERATING"]
        /\ own'[p] = Len(runs) + 1
        /\ \A q \in Syncers \ {p} : own'[q] = own[q] /\ at'[q] = at[q]
        /\ sub' = sub
    BY <1>2, BeginRunWrites
  <2>2. ASSUME NEW q \in Syncers, Live(q)'
        PROVE  own'[q] # 0 /\ runs'[own'[q]].table = sub'[q]
    <3>1. CASE q = p
      BY <1>c, <2>1, <3>1
    <3>2. CASE q # p
      BY <1>a, <2>1, <2>2, <3>2 DEF Live
    <3> QED
      BY <3>1, <3>2
  <2>3. ASSUME NEW q \in Syncers, NEW s \in Syncers \ {q}, own'[q] = own'[s]
        PROVE  own'[q] = 0
    BY <1>b, <1>c, <2>1, <2>3 DEF OwnRuns
  <2> QED
    BY <2>2, <2>3 DEF OwnRuns
<1>3. CASE WorkerMoves
  <2>1. UNCHANGED <<runs, own, sub>> /\ \A q \in Syncers : Live(q)' => Live(q)
    BY <1>3, WorkerMovesWrite DEF Live
  <2> QED
    BY <2>1 DEF OwnRuns
<1>4. CASE RecoverCycle
  <2>1. /\ UNCHANGED sync
        /\ \A r \in DOMAIN runs : runs'[r].table = runs[r].table
    BY <1>4, RecoverWrites, RecoverKeepsTables
  <2>2. ASSUME NEW q \in Syncers, Live(q)'
        PROVE  own'[q] # 0 /\ runs'[own'[q]].table = sub'[q]
    BY <1>a, <2>1, <2>2 DEF Live
  <2>3. \A q \in Syncers : \A s \in Syncers \ {q} : own'[q] = own'[s] => own'[q] = 0
    BY <2>1 DEF OwnRuns
  <2> QED
    BY <2>2, <2>3 DEF OwnRuns
<1>5. CASE OpenCycle \/ SettleTable \/ CheckCycle \/ Abandon
  <2>1. UNCHANGED <<runs, sync>>
    BY <1>5 DEF OpenCycle, SettleTable, CheckCycle, Abandon
  <2> QED
    BY <2>1 DEF OwnRuns, Live
<1>6. CASE NextTable
  <2>1. /\ UNCHANGED <<runs, own>>
        /\ \/ UNCHANGED <<at, sub>>
           \/ at' = [at EXCEPT ![Worker] = "begin"] /\ sub' = [sub EXCEPT ![Worker] = Captured[pos]]
    BY <1>6, NextTableWrites
  <2>2. ASSUME NEW q \in Syncers
        PROVE  Live(q)' => Live(q) /\ sub'[q] = sub[q]
    BY <2>1 DEF Live, TypeOK, SyncType
  <2> QED
    BY <2>1, <2>2 DEF OwnRuns
<1> QED
  BY <1>1, <1>2, <1>3, <1>4, <1>5, <1>6, NextCases

\* The status of a run stays what the point of its process says.
LEMMA SyncPointNext ==
  ASSUME TypeOK, OwnRuns, SyncPoint, WorkerPoint, OnlyLastOpen, Next
  PROVE  SyncPoint'
<1>a. \A q \in Syncers : Live(q) => own[q] \in DOMAIN runs /\ own[q] # 0
  BY OwnIsARun
<1>b. \A q \in Syncers : at[q] \in {"deliver", "clean"} => Live(q)
  BY DEF Live
<1>1. ASSUME NEW p \in Syncers, SyncMoves(p)
      PROVE  SyncPoint'
  <2>1. SyncEffect(p)
    BY <1>1, MovesEffect
  <2>2. ASSUME NEW q \in Syncers \ {p}
        PROVE  /\ at'[q] \in {"deliver", "clean"} => own'[q] \in visible'
               /\ at'[q] = "clean" => runs'[own'[q]].status = "DELIVERED"
    <3>1. at'[q] = at[q] /\ own' = own /\ visible \subseteq visible'
      BY <2>1 DEF SyncEffect
    <3>2. Live(q) => runs'[own[q]] = runs[own[q]]
      BY <1>a, <2>1 DEF SyncEffect, OwnRuns
    <3> QED
      BY <1>b, <3>1, <3>2 DEF SyncPoint
  <2>3. /\ at'[p] \in {"deliver", "clean"} => own'[p] \in visible'
        /\ at'[p] = "clean" => runs'[own'[p]].status = "DELIVERED"
    <3>0. at \in [Syncers -> SyncPoints \cup {"off"}] /\ own' = own /\ visible \subseteq visible'
      BY <2>1 DEF SyncEffect, TypeOK, SyncType
    <3>1. CASE UploadManifest(p)
      BY <3>0, <3>1 DEF UploadManifest, Goto
    <3>2. CASE DeliverRun(p)
      <4>1. at[p] = "deliver" /\ SetRun(own[p], "DELIVERED")
        BY <3>2 DEF DeliverRun
      <4>2. own[p] \in DOMAIN runs
        BY <1>a, <1>b, <4>1
      <4>3. runs'[own[p]].status = "DELIVERED"
        BY <4>1, <4>2, SetRunType DEF TypeOK, RunStatuses
      <4> QED
        BY <3>0, <4>1, <4>3 DEF SyncPoint
    <3>3. CASE ~UploadManifest(p) /\ ~DeliverRun(p)
      <4>1. at'[p] \notin {"deliver", "clean"}
        BY <1>1, <3>0, <3>3 DEF SyncMoves, BeginRefused, SyncRefused, MakeDirectory, CleanDelivered, Generate,
           SyncFails, SyncRaises, SetUploading, SetFinalizing, RefinalizeRun, CompleteRun,
           StoreSnapshot, FailRun, KillManual, StartManual, Return, Goto
      <4> QED
        BY <4>1
    <3> QED
      BY <3>1, <3>2, <3>3
  <2> QED
    BY <2>2, <2>3 DEF SyncPoint
<1>2. ASSUME NEW p \in Syncers, NEW next \in {"mkdir", "generate"}, BeginRun(p, next)
      PROVE  SyncPoint'
  <2>1. /\ \A r \in DOMAIN runs : runs'[r] = runs[r]
        /\ at'[p] = next /\ visible' = visible
        /\ \A q \in Syncers \ {p} : own'[q] = own[q] /\ at'[q] = at[q]
    BY <1>2, BeginRunWrites
  <2> QED
    BY <1>a, <1>b, <2>1 DEF SyncPoint
<1>3. CASE WorkerMoves
  <2>1. UNCHANGED <<runs, own, visible>> /\ \A q \in Syncers : at'[q] = "off" \/ at'[q] = at[q]
    BY <1>3, WorkerMovesWrite
  <2> QED
    BY <2>1 DEF SyncPoint
<1>4. CASE RecoverCycle
  <2>1. UNCHANGED <<world, sync>>
    BY <1>4, RecoverWrites
  <2>2. \A q \in Syncers : at[q] = "clean" => runs'[own[q]] = runs[own[q]]
    BY <1>4, <1>a, <1>b, RecoverWrites DEF SyncPoint, Active
  <2> QED
    BY <2>1, <2>2 DEF SyncPoint
<1>5. CASE OpenCycle \/ SettleTable \/ CheckCycle \/ Abandon
  <2>1. UNCHANGED <<runs, sync, world>>
    BY <1>5 DEF OpenCycle, SettleTable, CheckCycle, Abandon
  <2> QED
    BY <2>1 DEF SyncPoint
<1>6. CASE NextTable
  <2>1. UNCHANGED <<runs, own, world>> /\ at' \in {at, [at EXCEPT ![Worker] = "begin"]}
    BY <1>6, NextTableWrites
  <2>2. \A q \in Syncers : at'[q] = "begin" \/ at'[q] = at[q]
    BY <2>1 DEF TypeOK, SyncType
  <2> QED
    BY <2>1, <2>2 DEF SyncPoint
<1> QED
  BY <1>1, <1>2, <1>3, <1>4, <1>5, <1>6, NextCases

-----------------------------------------------------------------------------
(* The worker and its cycle                                                  *)

\* The points of the worker stay in step with those of its sync.
LEMMA WorkerPointNext ==
  ASSUME TypeOK, OwnRuns, SyncPoint, WorkerPoint, OnlyLastOpen, Next
  PROVE  WorkerPoint'
<1>a. Worker \in Syncers /\ Worker \notin Manual
  BY CycleAssumption DEF Syncers
<1>b. at \in [Syncers -> SyncPoints \cup {"off"}] /\ sub \in [Syncers -> Tables]
  BY DEF TypeOK, SyncType
<1>1. ASSUME NEW p \in Syncers, SyncMoves(p)
      PROVE  WorkerPoint'
  <2>1. SyncEffect(p)
    BY <1>1, MovesEffect
  <2>2. pos' = pos /\ cycles' = cycles /\ own' = own /\ visible \subseteq visible' /\ OpenCycles' = OpenCycles
    BY <2>1 DEF SyncEffect, OpenCycles
  <2>3. CASE p # Worker
    <3>1. at'[Worker] = at[Worker] /\ sub'[Worker] = sub[Worker] /\ UNCHANGED <<worker, result>>
      BY <1>a, <2>1, <2>3 DEF SyncEffect
    <3>2. worker = "settle" /\ result = "delivered" => runs'[own[Worker]] = runs[own[Worker]]
      <4>1. SUFFICES ASSUME worker = "settle", result = "delivered"
                     PROVE  own[Worker] \in DOMAIN runs /\ own[Worker] # own[p]
        BY <2>1 DEF SyncEffect
      <4>2. own[Worker] # 0 /\ own[Worker] \in visible
        BY <4>1 DEF WorkerPoint
      <4> QED
        BY <1>a, <2>3, <4>2 DEF OwnRuns, TypeOK, DatabaseType
    <3> QED
      BY <2>2, <3>1, <3>2 DEF WorkerPoint
  <2>4. CASE p = Worker
    <3>1. at[Worker] # "off" /\ sub' = sub
      BY <2>1, <2>4 DEF SyncEffect
    <3>2. worker = "sync" /\ pos \in DOMAIN Captured /\ sub[Worker] = Captured[pos] /\ OpenCycles # {}
      BY <3>1 DEF WorkerPoint
    <3>3. at'[Worker] \notin {"generate", "store"}
      BY <1>1, <1>a, <1>b, <2>4 DEF SyncMoves, BeginRefused, SyncRefused, MakeDirectory, UploadManifest, CleanDelivered,
         Generate, SyncFails, SyncRaises, SetUploading, SetFinalizing, RefinalizeRun, CompleteRun, DeliverRun,
         StoreSnapshot, FailRun, KillManual, StartManual, Return, Goto, WorkerPoint
    <3>4. CASE at'[Worker] # "off"
      <4>1. worker' = worker
        BY <2>1, <2>4, <3>4 DEF SyncEffect
      <4> QED
        BY <2>2, <3>1, <3>2, <3>3, <3>4, <4>1 DEF WorkerPoint
    <3>5. CASE at'[Worker] = "off"
      <4>1. worker' = "settle"
        BY <2>1, <2>4, <3>5 DEF SyncEffect
      <4>2. result' = "delivered" => CleanDelivered(Worker)
        BY <1>1, <1>a, <1>b, <2>4, <3>2, <3>5 DEF SyncMoves, BeginRefused, SyncRefused, MakeDirectory, UploadManifest,
           Generate, SyncFails, SyncRaises, SetUploading, SetFinalizing, RefinalizeRun, CompleteRun, DeliverRun,
           StoreSnapshot, FailRun, KillManual, StartManual, Return, Goto, SyncPoints
      <4>3. ASSUME CleanDelivered(Worker)
            PROVE  /\ own[Worker] # 0 /\ own[Worker] \in visible
                   /\ runs[own[Worker]] = [table |-> Captured[pos], status |-> "DELIVERED"]
                   /\ runs' = runs
        <5>1. at[Worker] = "clean" /\ runs' = runs
          BY <4>3 DEF CleanDelivered
        <5>2. own[Worker] \in DOMAIN runs /\ own[Worker] # 0 /\ runs[own[Worker]].table = sub[Worker]
          BY <1>a, <5>1, OwnIsARun DEF Live
        <5>3. own[Worker] \in visible /\ runs[own[Worker]].status = "DELIVERED"
          BY <1>a, <5>1 DEF SyncPoint
        <5>4. runs[own[Worker]] \in RunRow
          BY <5>2, ElementType DEF TypeOK, DatabaseType
        <5> QED
          BY <3>2, <5>1, <5>2, <5>3, <5>4 DEF RunRow
      <4> QED
        BY <2>2, <3>2, <3>3, <3>5, <4>1, <4>2, <4>3 DEF WorkerPoint
    <3> QED
      BY <3>4, <3>5
  <2> QED
    BY <2>3, <2>4
<1>2. ASSUME NEW p \in Syncers, NEW next \in {"mkdir", "generate"}, BeginRun(p, next),
             next = "generate" => p \in Manual
      PROVE  WorkerPoint'
  <2>1. /\ \A r \in DOMAIN runs : runs'[r] = runs[r]
        /\ at'[p] = next
        /\ \A q \in Syncers \ {p} : own'[q] = own[q] /\ at'[q] = at[q]
        /\ UNCHANGED <<cycles, visible, sub, worker, pos, result>>
    BY <1>2, BeginRunWrites
  <2>2. OpenCycles' = OpenCycles
    BY <2>1 DEF OpenCycles
  <2>3. at[p] = "begin"
    BY <1>2 DEF BeginRun
  <2>4. CASE p # Worker
    <3>1. own[Worker] \in visible => own[Worker] \in DOMAIN runs
      BY DEF TypeOK, DatabaseType
    <3> QED
      BY <1>a, <2>1, <2>2, <2>4, <3>1 DEF WorkerPoint
  <2>5. CASE p = Worker
    <3>1. worker = "sync" /\ next = "mkdir"
      BY <1>2, <1>a, <2>3, <2>5 DEF WorkerPoint
    <3> QED
      BY <2>1, <2>2, <2>3, <2>5, <3>1 DEF WorkerPoint
  <2> QED
    BY <2>4, <2>5
<1>3. CASE WorkerMoves
  <2>1. /\ UNCHANGED <<runs, cycles, visible, own, sub, pos>>
        /\ \/ worker' = "down" /\ at'[Worker] = "off"
           \/ UNCHANGED <<worker, result, at>>
           \/ worker = "loop" /\ worker' = "check" /\ UNCHANGED <<result, at>>
           \/ /\ worker \in {"down", "maintain", "idle"} /\ worker' \in {"down", "maintain", "idle", "recover"}
              /\ UNCHANGED <<result, at>>
    BY <1>3, WorkerMovesWrite
  <2>2. OpenCycles' = OpenCycles
    BY <2>1 DEF OpenCycles
  <2> QED
    BY <2>1, <2>2 DEF WorkerPoint
<1>4. CASE RecoverCycle
  <2>1. worker = "recover" /\ worker' = "open" /\ UNCHANGED at
    BY <1>4, RecoverWrites
  <2> QED
    BY <2>1 DEF WorkerPoint
<1>5. CASE OpenCycle
  <2>1. worker = "open" /\ worker' = "loop" /\ UNCHANGED at
    BY <1>5, OpenCycleWrites
  <2>2. OpenCycles' # {}
    <3>1. CASE OpenCycles # {} /\ UNCHANGED cycles
      BY <3>1 DEF OpenCycles
    <3>2. CASE /\ DOMAIN cycles' = DOMAIN cycles \cup {Len(cycles) + 1}
               /\ cycles'[Len(cycles) + 1] = NewCycle
      BY <3>2 DEF OpenCycles, NewCycle
    <3> QED
      BY <1>5, <3>1, <3>2, OpenCycleWrites
  <2> QED
    BY <2>1, <2>2 DEF WorkerPoint
<1>6. CASE NextTable
  <2>1. worker = "loop" /\ pos \in DOMAIN Captured /\ OpenCycles # {} /\ at[Worker] = "off"
    BY <1>6, NextTableWrites DEF WorkerPoint
  <2>2. CASE UNCHANGED <<cycles, at, sub>> /\ worker' \in {worker, "check"}
    <3>1. OpenCycles' = OpenCycles
      BY <2>2 DEF OpenCycles
    <3> QED
      BY <2>1, <2>2, <3>1 DEF WorkerPoint
  <2>3. CASE /\ CycleWrite(Len(cycles), Row("RUNNING", "RUNNING", cycles[Len(cycles)].run[Captured[pos]]))
             /\ worker' = "sync" /\ pos' = pos
             /\ at' = [at EXCEPT ![Worker] = "begin"]
             /\ sub' = [sub EXCEPT ![Worker] = Captured[pos]]
    <3>1. OpenCycles' # {}
      BY <2>3 DEF CycleWrite, Row, OpenCycles
    <3>2. at'[Worker] = "begin" /\ sub'[Worker] = Captured[pos]
      BY <1>a, <1>b, <2>3
    <3> QED
      BY <2>1, <2>3, <3>1, <3>2 DEF WorkerPoint
  <2> QED
    BY <1>6, <2>2, <2>3, NextTableWrites
<1>7. CASE SettleTable
  <2>1. worker = "settle" /\ worker' \in {"loop", "check"} /\ UNCHANGED at
    BY <1>7, SettleTableWrites
  <2>2. CASE CycleWrite(Len(cycles), Row(cycles[Len(cycles)].status, "DELIVERED", own[Worker]))
    <3>1. cycles[Len(cycles)].status \in {"RUNNING", "RETRY_WAIT"}
      BY <2>2 DEF CycleWrite, OpenCycles
    <3>2. cycles'[Len(cycles)].status = cycles[Len(cycles)].status /\ Len(cycles) \in DOMAIN cycles'
      BY <2>2 DEF CycleWrite, Row
    <3>3. OpenCycles' # {}
      BY <3>1, <3>2 DEF OpenCycles
    <3> QED
      BY <2>1, <3>3 DEF WorkerPoint
  <2>3. CASE \E r \in {0, own[Worker]} : CycleWrite(Len(cycles), Row("RETRY_WAIT", "FAILED", r))
    BY <2>1, <2>3 DEF CycleWrite, Row, OpenCycles, WorkerPoint
  <2> QED
    BY <1>7, <2>2, <2>3, SettleTableWrites
<1>8. CASE CheckCycle \/ Abandon
  <2>1. /\ \/ worker = "check" /\ worker' = "maintain"
           \/ worker = "down" /\ worker' = "down"
        /\ UNCHANGED at
    <3>1. UNCHANGED sync
      BY <1>8, CycleEndWrites
    <3> QED
      BY <1>8, <3>1, CycleEndWrites
  <2> QED
    BY <2>1 DEF WorkerPoint
<1> QED
  BY <1>1, <1>2, <1>3, <1>4, <1>5, <1>6, <1>7, <1>8, NextCases

\* The steps that leave the cycles alone.
LEMMA CyclesFrame ==
  ASSUME TypeOK, OwnRuns, WorkerPoint,
         \/ \E p \in Syncers : SyncMoves(p)
         \/ \E p \in Syncers, next \in {"mkdir", "generate"} : BeginRun(p, next)
         \/ WorkerMoves
  PROVE  UNCHANGED <<cycles, pos>>
<1>1. ASSUME NEW p \in Syncers, SyncMoves(p)
      PROVE  UNCHANGED <<cycles, pos>>
  BY <1>1, MovesEffect DEF SyncEffect
<1>2. ASSUME NEW p \in Syncers, NEW next \in {"mkdir", "generate"}, BeginRun(p, next)
      PROVE  UNCHANGED <<cycles, pos>>
  BY <1>2, BeginRunWrites
<1>3. CASE WorkerMoves
  BY <1>3, WorkerMovesWrite
<1> QED
  BY <1>1, <1>2, <1>3

\* The rows of a cycle that a step may write: of the last one, while it is open.
LEMMA CycleSteps ==
  ASSUME TypeOK, OwnRuns, WorkerPoint, OnlyLastOpen, Next
  PROVE  \/ UNCHANGED cycles
         \/ RecoverCycle
         \/ OpenCycle
         \/ \E row \in CycleRow(Len(runs)) : CycleWrite(Len(cycles), row)
<1>1. CASE NextTable
  BY <1>1, NextTableWrites DEF CycleWrite
<1>2. CASE SettleTable
  BY <1>2, SettleTableWrites DEF CycleWrite
<1>3. CASE CheckCycle \/ Abandon
  BY <1>3, CycleEndWrites DEF CycleWrite
<1> QED
  BY <1>1, <1>2, <1>3, NextCases, CyclesFrame

\* No second cycle is opened while one is open.
LEMMA OnlyLastOpenNext ==
  ASSUME TypeOK, OwnRuns, WorkerPoint, OnlyLastOpen, Next
  PROVE  OnlyLastOpen'
<1>a. Len(cycles) \in Nat /\ DOMAIN cycles = 1..Len(cycles)
  BY DEF TypeOK, DatabaseType
<1>1. CASE UNCHANGED cycles
  BY <1>1 DEF OnlyLastOpen, OpenCycles
<1>2. CASE RecoverCycle
  BY <1>2, RecoverWrites DEF OnlyLastOpen, OpenCycles
<1>3. CASE OpenCycle
  <2>1. CASE UNCHANGED cycles
    BY <2>1 DEF OnlyLastOpen, OpenCycles
  <2>2. CASE /\ OpenCycles = {}
             /\ Len(cycles') = Len(cycles) + 1 /\ DOMAIN cycles' = DOMAIN cycles \cup {Len(cycles) + 1}
             /\ \A c \in DOMAIN cycles : cycles'[c] = cycles[c]
    BY <2>2 DEF OnlyLastOpen, OpenCycles
  <2> QED
    BY <1>3, <2>1, <2>2, OpenCycleWrites
<1>4. ASSUME NEW row \in CycleRow(Len(runs)), CycleWrite(Len(cycles), row)
      PROVE  OnlyLastOpen'
  <2>1. /\ Len(cycles') = Len(cycles) /\ DOMAIN cycles' = DOMAIN cycles
        /\ \A d \in DOMAIN cycles : d # Len(cycles) => cycles'[d] = cycles[d]
    BY <1>4 DEF CycleWrite
  <2> QED
    BY <2>1 DEF OnlyLastOpen, OpenCycles
<1> QED
  BY <1>1, <1>2, <1>3, <1>4, CycleSteps

\* A cycle is completed only with every captured table delivered.
LEMMA CompletedIsAllNext ==
  ASSUME TypeOK, OwnRuns, WorkerPoint, OnlyLastOpen, CompletedIsAll, Next
  PROVE  CompletedIsAll'
<1>a. Range(Captured) \subseteq Tables
  BY CapturedTables DEF Range
<1>b. \A c \in DOMAIN cycles : cycles[c].status = "COMPLETED" => c \notin OpenCycles
  BY DEF OpenCycles
<1>1. CASE UNCHANGED cycles
  BY <1>1 DEF CompletedIsAll
<1>2. CASE RecoverCycle
  <2>1. ASSUME NEW c \in DOMAIN cycles', cycles'[c].status = "COMPLETED", NEW t \in Range(Captured)
        PROVE  cycles'[c].tables[t] = "DELIVERED"
    <3>1. c \in DOMAIN cycles /\ cycles[c].status = "COMPLETED"
      BY <1>2, <2>1, RecoverWrites
    <3>2. cycles'[c].tables[t] = cycles[c].tables[t]
      BY <1>2, <1>a, <1>b, <2>1, <3>1, RecoverWrites
    <3> QED
      BY <2>1, <3>1, <3>2 DEF CompletedIsAll
  <2> QED
    BY <2>1 DEF CompletedIsAll
<1>3. CASE OpenCycle
  <2>1. CASE UNCHANGED cycles
    BY <2>1 DEF CompletedIsAll
  <2>2. CASE /\ DOMAIN cycles' = DOMAIN cycles \cup {Len(cycles) + 1}
             /\ \A c \in DOMAIN cycles : cycles'[c] = cycles[c]
             /\ cycles'[Len(cycles) + 1] = NewCycle
    <3>1. NewCycle.status = "RUNNING"
      BY DEF NewCycle
    <3> QED
      BY <2>2, <3>1 DEF CompletedIsAll
  <2> QED
    BY <1>3, <2>1, <2>2, OpenCycleWrites
<1>4. ASSUME NEW row, CycleWrite(Len(cycles), row),
             row.status = "COMPLETED" => \A t \in Range(Captured) : row.tables[t] = "DELIVERED"
      PROVE  CompletedIsAll'
  <2>1. /\ DOMAIN cycles' = DOMAIN cycles /\ cycles'[Len(cycles)] = row
        /\ \A d \in DOMAIN cycles : d # Len(cycles) => cycles'[d] = cycles[d]
    BY <1>4 DEF CycleWrite
  <2> QED
    BY <1>4, <2>1 DEF CompletedIsAll
<1>5. CASE NextTable
  <2>1. CASE CycleWrite(Len(cycles), Row("RUNNING", "RUNNING", cycles[Len(cycles)].run[Captured[pos]]))
    BY <1>4, <2>1 DEF Row
  <2> QED
    BY <1>1, <1>5, <2>1, NextTableWrites
<1>6. CASE SettleTable
  <2>1. CASE CycleWrite(Len(cycles), Row(cycles[Len(cycles)].status, "DELIVERED", own[Worker]))
    <3>1. cycles[Len(cycles)].status # "COMPLETED"
      BY <2>1 DEF CycleWrite, OpenCycles
    <3> QED
      BY <1>4, <2>1, <3>1 DEF Row
  <2>2. CASE \E r \in {0, own[Worker]} : CycleWrite(Len(cycles), Row("RETRY_WAIT", "FAILED", r))
    BY <1>4, <2>2 DEF Row
  <2> QED
    BY <1>6, <2>1, <2>2, SettleTableWrites
<1>7. CASE CheckCycle \/ Abandon
  <2>1. ASSUME NEW s \in {"COMPLETED", "ABANDONED"},
               CycleWrite(Len(cycles), [status |-> s, tables |-> cycles[Len(cycles)].tables,
                                        run |-> cycles[Len(cycles)].run]),
               s = "COMPLETED" => AllDelivered
        PROVE  CompletedIsAll'
    <3>1. Current = Len(cycles)
      BY <2>1 DEF CycleWrite
    <3> QED
      BY <1>4, <2>1, <3>1 DEF AllDelivered
  <2> QED
    BY <1>1, <1>7, <2>1, CycleEndWrites
<1> QED
  BY <1>1, <1>2, <1>3, <1>5, <1>6, <1>7, NextCases, CyclesFrame

\* What becomes of the delivered tables when the row of the current one is written.
LEMMA DeliveredTablesChange ==
  ASSUME TypeOK, pos \in DOMAIN Captured, NEW s, NEW x, NEW r, CycleWrite(Len(cycles), Row(s, x, r))
  PROVE  /\ cycles # <<>> /\ cycles' # <<>>
         /\ DeliveredTables(Len(cycles))' =
              IF x = "DELIVERED" THEN DeliveredTables(Len(cycles)) \cup {pos}
              ELSE DeliveredTables(Len(cycles)) \ {pos}
<1> DEFINE c == Len(cycles)
<1>1. /\ c \in DOMAIN cycles /\ Len(cycles') = c /\ DOMAIN cycles' = DOMAIN cycles
      /\ cycles'[c].tables = [cycles[c].tables EXCEPT ![Captured[pos]] = x]
  BY DEF CycleWrite, Row
<1>2. cycles[c].tables \in [Tables -> {"NONE", "PENDING", "RUNNING", "DELIVERED", "FAILED"}]
  BY <1>1, CycleFields
<1> HIDE DEF c
<1>3. ASSUME NEW i \in DOMAIN Captured
      PROVE  cycles'[c].tables[Captured[i]] = IF i = pos THEN x ELSE cycles[c].tables[Captured[i]]
  <2>1. Captured[i] \in Tables /\ (Captured[i] = Captured[pos] => i = pos)
    BY CapturedTables, CycleAssumption
  <2> QED
    BY <1>1, <1>2, <2>1
<1>4. DeliveredTables(Len(cycles))' = {i \in DOMAIN Captured : cycles'[c].tables[Captured[i]] = "DELIVERED"}
  BY <1>1 DEF DeliveredTables
<1>5. DeliveredTables(Len(cycles)) = {i \in DOMAIN Captured : cycles[c].tables[Captured[i]] = "DELIVERED"}
  BY DEF DeliveredTables, c
<1>6. cycles # <<>> /\ cycles' # <<>>
  BY <1>1
<1> QED
  BY <1>3, <1>4, <1>5, <1>6

\* Recovery does not touch delivered tables.
LEMMA RecoverKeepsDelivered ==
  ASSUME TypeOK, OnlyLastOpen, RecoverCycle, NEW c \in DOMAIN cycles, NEW t \in Tables
  PROVE  (cycles'[c].tables[t] = "DELIVERED") <=> (cycles[c].tables[t] = "DELIVERED")
<1>1. cycles'[c].tables[t] = IF c \in OpenCycles /\ t \in Interrupted THEN "FAILED" ELSE cycles[c].tables[t]
  BY RecoverWrites
<1>2. c \in OpenCycles /\ t \in Interrupted => cycles[c].tables[t] = "RUNNING"
  BY DEF Interrupted, OnlyLastOpen
<1> QED
  BY <1>1, <1>2

\* Tables are delivered from the first on, up to the one the worker is at.
LEMMA InOrderNext ==
  ASSUME TypeOK, OwnRuns, WorkerPoint, OnlyLastOpen, InOrder, Next
  PROVE  InOrder'
<1>a. /\ Len(Captured) \in Nat /\ DOMAIN Captured = 1..Len(Captured) /\ pos \in 1..Len(Captured) + 1
      /\ \A i \in DOMAIN Captured : Captured[i] \in Tables
  BY CapturedTables DEF TypeOK, ControlType
<1>b. Len(cycles) \in Nat /\ DOMAIN cycles = 1..Len(cycles) /\ (cycles # <<>> => Len(cycles) \in DOMAIN cycles)
  BY DEF TypeOK, DatabaseType
<1>1. ASSUME UNCHANGED <<cycles, pos>>,
             worker' \notin {"loop", "sync", "settle"} \/ worker' = worker \/ (worker = "sync" /\ worker' = "settle")
      PROVE  InOrder'
  BY <1>1 DEF InOrder, DeliveredTables
<1>2. ASSUME NEW p \in Syncers, SyncMoves(p)
      PROVE  InOrder'
  <2>1. \/ worker' = worker
        \/ p = Worker /\ at[p] # "off" /\ worker' = "settle"
    BY <1>2, MovesEffect DEF SyncEffect
  <2>2. UNCHANGED <<cycles, pos>>
    BY <1>2, CyclesFrame
  <2> QED
    BY <1>1, <2>1, <2>2 DEF WorkerPoint
<1>3. ASSUME NEW p \in Syncers, NEW next \in {"mkdir", "generate"}, BeginRun(p, next)
      PROVE  InOrder'
  BY <1>1, <1>3 DEF BeginRun
<1>4. CASE WorkerMoves
  <2>1. worker' \notin {"loop", "sync", "settle"} \/ worker' = worker
    BY <1>4, WorkerMovesWrite
  <2>2. UNCHANGED <<cycles, pos>>
    BY <1>4, WorkerMovesWrite
  <2> QED
    BY <1>1, <2>1, <2>2
<1>5. CASE RecoverCycle
  <2>1. worker' = "open" /\ Len(cycles') = Len(cycles) /\ DOMAIN cycles' = DOMAIN cycles
    BY <1>5, RecoverWrites
  <2>2. CASE cycles # <<>>
    <3>1. DeliveredTables(Len(cycles))' = DeliveredTables(Len(cycles))
      BY <1>5, <1>a, <1>b, <2>1, <2>2, RecoverKeepsDelivered DEF DeliveredTables
    <3> QED
      BY <2>1, <2>2, <3>1 DEF InOrder
  <2>3. CASE cycles = <<>>
    <3>1. cycles' = <<>>
      BY <2>1, <2>3, <1>5, RecoverWrites
    <3> QED
      BY <3>1 DEF InOrder
  <2> QED
    BY <2>2, <2>3
<1>6. CASE OpenCycle
  <2>1. worker' = "loop" /\ pos' = 1
    BY <1>6, OpenCycleWrites
  <2>2. CASE OpenCycles # {} /\ UNCHANGED cycles
    <3>1. cycles # <<>>
      BY <2>2 DEF OpenCycles
    <3>2. PICK k \in 0..Len(Captured) : DeliveredTables(Len(cycles)) = 1..k
      BY <3>1 DEF InOrder
    <3>3. DeliveredTables(Len(cycles))' = 1..k
      BY <2>2, <3>2 DEF DeliveredTables
    <3>4. pos' <= k + 1
      BY <2>1, <1>a
    <3> QED
      BY <2>1, <3>3, <3>4 DEF InOrder
  <2>3. CASE /\ Len(cycles') = Len(cycles) + 1
             /\ cycles'[Len(cycles) + 1] = NewCycle
    <3>1. \A i \in DOMAIN Captured : NewCycle.tables[Captured[i]] # "DELIVERED"
      BY <1>a DEF NewCycle
    <3>2. DeliveredTables(Len(cycles))' = {}
      BY <2>3, <3>1 DEF DeliveredTables
    <3>3. 0 \in 0..Len(Captured) /\ 1..0 = {} /\ pos' <= 0 + 1
      BY <1>a, <2>1
    <3> QED
      BY <2>1, <3>2, <3>3 DEF InOrder
  <2> QED
    BY <1>6, <2>2, <2>3, OpenCycleWrites
<1>7. CASE NextTable
  <2>1. worker = "loop" /\ pos \in DOMAIN Captured /\ OpenCycles # {}
    BY <1>7, NextTableWrites
  <2>2. cycles # <<>>
    BY <2>1 DEF OpenCycles
  <2>3. PICK k \in 0..Len(Captured) : DeliveredTables(Len(cycles)) = 1..k /\ pos <= k + 1
    BY <2>1, <2>2 DEF InOrder
  <2>4. pos \in 1..k <=> cycles[Len(cycles)].tables[Captured[pos]] = "DELIVERED"
    BY <2>1, <2>3 DEF DeliveredTables
  <2>5. CASE /\ cycles[Len(cycles)].tables[Captured[pos]] = "DELIVERED"
             /\ pos' = pos + 1 /\ UNCHANGED <<cycles, worker>>
    <3>1. pos' <= k + 1
      BY <1>a, <2>3, <2>4, <2>5
    <3>2. DeliveredTables(Len(cycles))' = 1..k
      BY <2>3, <2>5 DEF DeliveredTables
    <3> QED
      BY <2>1, <2>5, <3>1, <3>2 DEF InOrder
  <2>6. CASE worker' = "check" /\ UNCHANGED <<cycles, pos>>
    BY <1>1, <2>6
  <2>7. CASE /\ cycles[Len(cycles)].tables[Captured[pos]] # "DELIVERED"
             /\ CycleWrite(Len(cycles), Row("RUNNING", "RUNNING", cycles[Len(cycles)].run[Captured[pos]]))
             /\ worker' = "sync" /\ pos' = pos
    <3>1. pos \notin 1..k /\ pos = k + 1
      BY <1>a, <2>1, <2>3, <2>4, <2>7
    <3>2. DeliveredTables(Len(cycles))' = DeliveredTables(Len(cycles)) \ {pos}
      BY <2>1, <2>7, DeliveredTablesChange
    <3>3. DeliveredTables(Len(cycles))' = 1..k
      BY <2>3, <3>1, <3>2
    <3> QED
      BY <2>7, <3>1, <3>3 DEF InOrder
  <2> QED
    BY <1>7, <2>5, <2>6, <2>7, NextTableWrites
<1>8. CASE SettleTable
  <2>1. worker = "settle" /\ pos \in DOMAIN Captured /\ OpenCycles # {}
    BY <1>8, SettleTableWrites DEF WorkerPoint
  <2>2. cycles # <<>>
    BY <2>1 DEF OpenCycles
  <2>3. PICK k \in 0..Len(Captured) : DeliveredTables(Len(cycles)) = 1..k /\ pos = k + 1
    BY <2>1, <2>2 DEF InOrder
  <2>4. CASE /\ CycleWrite(Len(cycles), Row(cycles[Len(cycles)].status, "DELIVERED", own[Worker]))
             /\ pos' = pos + 1 /\ worker' = "loop"
    <3>1. DeliveredTables(Len(cycles))' = 1..k \cup {pos}
      BY <2>1, <2>3, <2>4, DeliveredTablesChange
    <3>2. 1..k \cup {pos} = 1..k + 1 /\ k + 1 \in 0..Len(Captured)
      BY <1>a, <2>1, <2>3
    <3> QED
      BY <2>3, <2>4, <3>1, <3>2 DEF InOrder
  <2>5. CASE /\ \E r \in {0, own[Worker]} : CycleWrite(Len(cycles), Row("RETRY_WAIT", "FAILED", r))
             /\ worker' = "check"
    <3>1. DeliveredTables(Len(cycles))' = 1..k \ {pos}
      BY <2>1, <2>3, <2>5, DeliveredTablesChange
    <3>2. 1..k \ {pos} = 1..k
      BY <2>3
    <3> QED
      BY <2>5, <3>1, <3>2 DEF InOrder
  <2> QED
    BY <1>8, <2>4, <2>5, SettleTableWrites
<1>9. CASE CheckCycle \/ Abandon
  <2>1. worker' \in {"maintain", "down"} /\ pos' = pos
    BY <1>9, CycleEndWrites
  <2>2. CASE UNCHANGED cycles
    BY <1>1, <2>1, <2>2
  <2>3. CASE \E s \in {"COMPLETED", "ABANDONED"} :
               CycleWrite(Len(cycles), [status |-> s, tables |-> cycles[Len(cycles)].tables,
                                        run |-> cycles[Len(cycles)].run])
    <3>1. /\ Len(cycles) \in DOMAIN cycles /\ Len(cycles') = Len(cycles)
          /\ cycles'[Len(cycles)].tables = cycles[Len(cycles)].tables
      BY <2>3 DEF CycleWrite
    <3>2. cycles # <<>> /\ DeliveredTables(Len(cycles))' = DeliveredTables(Len(cycles))
      BY <3>1 DEF DeliveredTables
    <3> QED
      BY <2>1, <3>2 DEF InOrder
  <2> QED
    BY <1>9, <2>2, <2>3, CycleEndWrites
<1> QED
  BY <1>2, <1>3, <1>4, <1>5, <1>6, <1>7, <1>8, <1>9, NextCases

\* Entry t of the current cycle after its row for the table at pos is written.
LEMMA RowEntry ==
  ASSUME TypeOK, pos \in DOMAIN Captured, NEW s, NEW x, NEW r, CycleWrite(Len(cycles), Row(s, x, r)),
         NEW t \in Tables
  PROVE  /\ cycles'[Len(cycles)].tables[t] = IF t = Captured[pos] THEN x ELSE cycles[Len(cycles)].tables[t]
         /\ cycles'[Len(cycles)].run[t] = IF t = Captured[pos] THEN r ELSE cycles[Len(cycles)].run[t]
<1> DEFINE c == Len(cycles)
<1>1. /\ c \in DOMAIN cycles
      /\ cycles'[c].tables = [cycles[c].tables EXCEPT ![Captured[pos]] = x]
      /\ cycles'[c].run = [cycles[c].run EXCEPT ![Captured[pos]] = r]
  BY DEF CycleWrite, Row
<1>2. /\ cycles[c].tables \in [Tables -> {"NONE", "PENDING", "RUNNING", "DELIVERED", "FAILED"}]
      /\ cycles[c].run \in [Tables -> 0..Len(runs)]
  BY <1>1, CycleFields
<1> HIDE DEF c
<1> QED
  BY <1>1, <1>2 DEF c

\* Run r is a delivery of t that nobody will touch again.
Settled(t, r) ==
  /\ r # 0
  /\ runs[r] = [table |-> t, status |-> "DELIVERED"]
  /\ r \in visible
  /\ \A p \in Syncers : Live(p) => own[p] # r

\* A settled delivery stays one.
LEMMA SettledStays ==
  ASSUME TypeOK, OwnRuns, WorkerPoint, OnlyLastOpen, Next, NEW t \in Tables, NEW r, Settled(t, r)
  PROVE  Settled(t, r)'
<1>a. r \in DOMAIN runs /\ DOMAIN runs = 1..Len(runs) /\ Len(runs) \in Nat
  BY DEF Settled, TypeOK, DatabaseType
<1>1. ASSUME NEW p \in Syncers, SyncMoves(p)
      PROVE  Settled(t, r)'
  <2>1. SyncEffect(p)
    BY <1>1, MovesEffect
  <2>2. runs'[r] = runs[r] /\ own' = own /\ r \in visible'
    BY <1>a, <2>1 DEF SyncEffect, Settled
  <2>3. \A q \in Syncers : Live(q)' => Live(q)
    BY <2>1 DEF SyncEffect, Live
  <2> QED
    BY <2>2, <2>3 DEF Settled
<1>2. ASSUME NEW p \in Syncers, NEW next \in {"mkdir", "generate"}, BeginRun(p, next)
      PROVE  Settled(t, r)'
  <2>1. /\ runs'[r] = runs[r] /\ own'[p] = Len(runs) + 1 /\ visible' = visible
        /\ \A q \in Syncers \ {p} : own'[q] = own[q] /\ at'[q] = at[q]
    BY <1>2, <1>a, BeginRunWrites
  <2> QED
    BY <1>a, <2>1 DEF Settled, Live
<1>3. CASE WorkerMoves
  <2>1. UNCHANGED <<runs, own, visible>> /\ \A q \in Syncers : Live(q)' => Live(q)
    BY <1>3, WorkerMovesWrite DEF Live
  <2> QED
    BY <2>1 DEF Settled
<1>4. CASE RecoverCycle
  <2>1. r \notin LostRuns
    BY DEF LostRuns, ActiveRuns, Active, Settled
  <2>2. UNCHANGED <<sync, world>> /\ runs'[r] = runs[r]
    BY <1>4, <1>a, <2>1, RecoverWrites
  <2> QED
    BY <2>2 DEF Settled, Live
<1>5. CASE OpenCycle \/ SettleTable \/ CheckCycle \/ Abandon
  <2>1. UNCHANGED <<runs, sync, world>>
    BY <1>5 DEF OpenCycle, SettleTable, CheckCycle, Abandon
  <2> QED
    BY <2>1 DEF Settled, Live
<1>6. CASE NextTable
  <2>1. UNCHANGED <<runs, own, world>> /\ at' \in {at, [at EXCEPT ![Worker] = "begin"]}
    BY <1>6, NextTableWrites
  <2>2. \A q \in Syncers : Live(q)' => Live(q)
    BY <2>1 DEF Live, TypeOK, SyncType
  <2> QED
    BY <2>1, <2>2 DEF Settled
<1> QED
  BY <1>1, <1>2, <1>3, <1>4, <1>5, <1>6, NextCases

\* A table is DELIVERED in a cycle only with a run that is settled.
LEMMA DeliveredIsRealNext ==
  ASSUME TypeOK, OwnRuns, WorkerPoint, OnlyLastOpen, DeliveredIsReal, Next
  PROVE  DeliveredIsReal'
<1>a. \A c \in DOMAIN cycles, t \in Tables : cycles[c].tables[t] = "DELIVERED" => Settled(t, cycles[c].run[t])
  BY DEF DeliveredIsReal, Settled
<1> SUFFICES ASSUME NEW c \in DOMAIN cycles', NEW t \in Tables, cycles'[c].tables[t] = "DELIVERED"
             PROVE  Settled(t, cycles[c].run[t])'
  BY DEF DeliveredIsReal, Settled
<1>1. ASSUME c \in DOMAIN cycles, cycles[c].tables[t] = "DELIVERED", cycles'[c].run[t] = cycles[c].run[t]
      PROVE  Settled(t, cycles[c].run[t])'
  <2> DEFINE r == cycles[c].run[t]
  <2>1. Settled(t, r)
    BY <1>a, <1>1
  <2> HIDE DEF r
  <2>2. Settled(t, r)'
    <3>1. ASSUME NEW q, q = r
          PROVE  Settled(t, q)'
      BY <2>1, <3>1, SettledStays
    <3>2. PICK q : q = r
      OBVIOUS
    <3>3. r' = q
      BY <1>1, <3>2 DEF r
    <3> QED
      BY <3>1, <3>2, <3>3 DEF Settled
  <2> QED
    BY <2>2 DEF r
<1>2. CASE UNCHANGED cycles
  BY <1>1, <1>2
<1>3. CASE RecoverCycle
  BY <1>1, <1>3, RecoverWrites, RecoverKeepsDelivered
<1>4. CASE OpenCycle
  <2>1. CASE UNCHANGED cycles
    BY <1>2, <2>1
  <2>2. CASE /\ DOMAIN cycles' = DOMAIN cycles \cup {Len(cycles) + 1}
             /\ \A d \in DOMAIN cycles : cycles'[d] = cycles[d]
             /\ cycles'[Len(cycles) + 1] = NewCycle
    <3>1. NewCycle.tables[t] # "DELIVERED"
      BY DEF NewCycle
    <3> QED
      BY <1>1, <2>2, <3>1
  <2> QED
    BY <1>4, <2>1, <2>2, OpenCycleWrites
<1>5. ASSUME NEW s, NEW x \in {"RUNNING", "FAILED"}, NEW r, CycleWrite(Len(cycles), Row(s, x, r)),
             pos \in DOMAIN Captured
      PROVE  Settled(t, cycles[c].run[t])'
  <2>1. DOMAIN cycles' = DOMAIN cycles /\ \A d \in DOMAIN cycles : d # Len(cycles) => cycles'[d] = cycles[d]
    BY <1>5 DEF CycleWrite
  <2>2. CASE c # Len(cycles)
    BY <1>1, <2>1, <2>2
  <2>3. CASE c = Len(cycles)
    BY <1>1, <1>5, <2>1, <2>3, RowEntry
  <2> QED
    BY <2>2, <2>3
<1>6. CASE NextTable
  <2>1. pos \in DOMAIN Captured
    BY <1>6, NextTableWrites
  <2> QED
    BY <1>2, <1>5, <1>6, <2>1, NextTableWrites
<1>7. CASE SettleTable
  <2>1. worker = "settle" /\ pos \in DOMAIN Captured /\ UNCHANGED <<runs, visible, own, at>>
    BY <1>7, SettleTableWrites
  <2>2. CASE /\ result = "delivered"
             /\ CycleWrite(Len(cycles), Row(cycles[Len(cycles)].status, "DELIVERED", own[Worker]))
    <3>1. DOMAIN cycles' = DOMAIN cycles /\ \A d \in DOMAIN cycles : d # Len(cycles) => cycles'[d] = cycles[d]
      BY <2>2 DEF CycleWrite
    <3>2. CASE c # Len(cycles)
      BY <1>1, <3>1, <3>2
    <3>3. CASE c = Len(cycles) /\ t # Captured[pos]
      BY <1>1, <2>1, <2>2, <3>1, <3>3, RowEntry
    <3>4. CASE c = Len(cycles) /\ t = Captured[pos]
      <4>1. cycles'[c].run[t] = own[Worker]
        BY <2>1, <2>2, <3>4, RowEntry
      <4>2. /\ own[Worker] # 0 /\ own[Worker] \in visible
            /\ runs[own[Worker]] = [table |-> Captured[pos], status |-> "DELIVERED"]
            /\ at[Worker] = "off"
        BY <2>1, <2>2 DEF WorkerPoint
      <4>3. ASSUME NEW p \in Syncers, Live(p)
            PROVE  own[p] # own[Worker]
        BY <4>2, <4>3 DEF OwnRuns, Live, Syncers
      <4> QED
        BY <2>1, <3>4, <4>1, <4>2, <4>3 DEF Settled, Live
    <3> QED
      BY <3>2, <3>3, <3>4
  <2> QED
    BY <1>5, <1>7, <2>1, <2>2, SettleTableWrites
<1>8. CASE CheckCycle \/ Abandon
  <2>1. ASSUME NEW s, CycleWrite(Len(cycles), [status |-> s, tables |-> cycles[Len(cycles)].tables,
                                              run |-> cycles[Len(cycles)].run])
        PROVE  Settled(t, cycles[c].run[t])'
    <3>1. /\ DOMAIN cycles' = DOMAIN cycles
          /\ \A d \in DOMAIN cycles : d # Len(cycles) => cycles'[d] = cycles[d]
          /\ cycles'[Len(cycles)].tables = cycles[Len(cycles)].tables
          /\ cycles'[Len(cycles)].run = cycles[Len(cycles)].run
      BY <2>1 DEF CycleWrite
    <3> QED
      BY <1>1, <3>1
  <2> QED
    BY <1>2, <1>8, <2>1, CycleEndWrites
<1> QED
  BY <1>2, <1>3, <1>4, <1>6, <1>7, <1>8, NextCases, CyclesFrame

\* The worker has a run that it may come to name in its cycle.
Naming == Live(Worker) \/ (worker = "settle" /\ result # "raised")

\* Only the beginning of a run gives the worker one that it may name.
LEMMA NamingStays ==
  ASSUME TypeOK, OwnRuns, WorkerPoint, OnlyLastOpen, Naming',
         \/ \E p \in Syncers : SyncMoves(p)
         \/ WorkerMoves \/ RecoverCycle \/ OpenCycle \/ NextTable \/ SettleTable \/ CheckCycle \/ Abandon
  PROVE  Naming /\ own' = own
<1>1. ASSUME NEW p \in Syncers, SyncMoves(p)
      PROVE  Naming /\ own' = own
  <2>1. SyncEffect(p)
    BY <1>1, MovesEffect
  <2>2. CASE p # Worker
    <3>1. worker' = worker /\ result' = result /\ at'[Worker] = at[Worker] /\ own' = own
      BY <2>1, <2>2 DEF SyncEffect, Syncers
    <3> QED
      BY <3>1 DEF Naming, Live
  <2>3. CASE p = Worker /\ Live(Worker)
    BY <2>1, <2>3 DEF SyncEffect, Naming
  <2>4. CASE p = Worker /\ ~Live(Worker)
    <3>1. at[Worker] = "begin"
      BY <2>1, <2>4 DEF SyncEffect, Live
    <3>2. BeginRefused(Worker) \/ SyncRefused(Worker)
      BY <1>1, <2>4, <3>1, CycleAssumption
         DEF SyncMoves, MakeDirectory, UploadManifest, CleanDelivered, Generate, SyncFails, SyncRaises,
             SetUploading, SetFinalizing, RefinalizeRun, CompleteRun, DeliverRun, StoreSnapshot, FailRun,
             KillManual, StartManual
    <3>3. at'[Worker] = "off" /\ result' = "raised"
      BY <3>2 DEF BeginRefused, SyncRefused, Return, Goto, TypeOK, SyncType, Syncers
    <3> QED
      BY <3>3 DEF Naming, Live
  <2> QED
    BY <2>2, <2>3, <2>4
<1>2. CASE WorkerMoves
  <2>1. own' = own /\ (at'[Worker] = "off" \/ at'[Worker] = at[Worker])
    BY <1>2, WorkerMovesWrite DEF Syncers
  <2>2. worker' \in {"down", "check", "maintain", "idle", "recover"} \/ UNCHANGED <<worker, result>>
    BY <1>2, WorkerMovesWrite
  <2> QED
    BY <2>1, <2>2 DEF Naming, Live
<1>3. CASE RecoverCycle
  BY <1>3, RecoverWrites DEF Naming, Live
<1>4. CASE OpenCycle
  BY <1>4, OpenCycleWrites DEF Naming, Live
<1>5. CASE NextTable
  <2>1. own' = own /\ result' = result /\ at[Worker] = "off"
    BY <1>5, NextTableWrites DEF WorkerPoint
  <2>2. \/ worker' \in {"loop", "check"} /\ at' = at
        \/ worker' = "sync" /\ at' = [at EXCEPT ![Worker] = "begin"]
    BY <1>5, NextTableWrites
  <2> QED
    BY <2>1, <2>2 DEF Naming, Live, TypeOK, SyncType, Syncers
<1>6. CASE SettleTable
  <2>1. own' = own /\ at' = at /\ worker' \in {"loop", "check"}
    BY <1>6, SettleTableWrites
  <2> QED
    BY <2>1 DEF Naming, Live
<1>7. CASE CheckCycle \/ Abandon
  <2>1. own' = own /\ at' = at /\ worker' \in {"maintain", "down"}
    BY <1>7, CycleEndWrites
  <2> QED
    BY <2>1 DEF Naming, Live
<1> QED
  BY <1>1, <1>2, <1>3, <1>4, <1>5, <1>6, <1>7

\* What a step writes as the runs of the cycles: nothing new but the worker's own
\* run, in the current cycle, or 0.
LEMMA RunEntries ==
  ASSUME TypeOK, OwnRuns, WorkerPoint, OnlyLastOpen, Next, NEW c \in DOMAIN cycles', NEW t \in Tables
  PROVE  \/ cycles'[c].run[t] = 0 /\ (OpenCycle \/ SettleTable)
         \/ c \in DOMAIN cycles /\ cycles'[c].run[t] = cycles[c].run[t]
         \/ /\ SettleTable /\ result # "raised" /\ c = Len(cycles) /\ t = Captured[pos]
            /\ cycles'[c].run[t] = own[Worker]
<1>1. CASE UNCHANGED cycles
  BY <1>1
<1>2. CASE RecoverCycle
  BY <1>2, RecoverWrites
<1>3. CASE OpenCycle
  <2>1. NewCycle.run[t] = 0
    BY DEF NewCycle
  <2> QED
    BY <1>1, <1>3, <2>1, OpenCycleWrites
<1>4. CASE NextTable
  <2>1. pos \in DOMAIN Captured
    BY <1>4, NextTableWrites
  <2>2. CASE CycleWrite(Len(cycles), Row("RUNNING", "RUNNING", cycles[Len(cycles)].run[Captured[pos]]))
    <3>1. DOMAIN cycles' = DOMAIN cycles /\ \A d \in DOMAIN cycles : d # Len(cycles) => cycles'[d] = cycles[d]
      BY <2>2 DEF CycleWrite
    <3>2. CASE c = Len(cycles)
      BY <2>1, <2>2, <3>1, <3>2, RowEntry
    <3> QED
      BY <3>1, <3>2
  <2> QED
    BY <1>1, <1>4, <2>2, NextTableWrites
<1>5. CASE SettleTable
  <2>1. pos \in DOMAIN Captured
    BY <1>5, SettleTableWrites
  <2>2. ASSUME NEW s, NEW x, NEW r, CycleWrite(Len(cycles), Row(s, x, r)),
               r = 0 \/ (r = own[Worker] /\ result # "raised")
        PROVE  \/ cycles'[c].run[t] = 0
               \/ c \in DOMAIN cycles /\ cycles'[c].run[t] = cycles[c].run[t]
               \/ /\ result # "raised" /\ c = Len(cycles) /\ t = Captured[pos]
                  /\ cycles'[c].run[t] = own[Worker]
    <3>1. DOMAIN cycles' = DOMAIN cycles /\ \A d \in DOMAIN cycles : d # Len(cycles) => cycles'[d] = cycles[d]
      BY <2>2 DEF CycleWrite
    <3>2. CASE c = Len(cycles)
      BY <2>1, <2>2, <3>1, <3>2, RowEntry
    <3> QED
      BY <3>1, <3>2
  <2>3. CASE /\ result = "delivered"
             /\ CycleWrite(Len(cycles), Row(cycles[Len(cycles)].status, "DELIVERED", own[Worker]))
    BY <1>5, <2>2, <2>3
  <2>4. CASE \E r \in {0} \cup (IF result = "raised" THEN {} ELSE {own[Worker]}) :
                CycleWrite(Len(cycles), Row("RETRY_WAIT", "FAILED", r))
    BY <1>5, <2>2, <2>4
  <2> QED
    BY <1>5, <2>3, <2>4, SettleTableWrites
<1>6. CASE CheckCycle \/ Abandon
  <2>1. ASSUME NEW s, CycleWrite(Len(cycles), [status |-> s, tables |-> cycles[Len(cycles)].tables,
                                              run |-> cycles[Len(cycles)].run])
        PROVE  c \in DOMAIN cycles /\ cycles'[c].run[t] = cycles[c].run[t]
    <3>1. /\ DOMAIN cycles' = DOMAIN cycles
          /\ \A d \in DOMAIN cycles : d # Len(cycles) => cycles'[d] = cycles[d]
          /\ cycles'[Len(cycles)].run = cycles[Len(cycles)].run
      BY <2>1 DEF CycleWrite
    <3> QED
      BY <3>1
  <2> QED
    BY <1>1, <1>6, <2>1, CycleEndWrites
<1> QED
  BY <1>1, <1>2, <1>3, <1>4, <1>5, <1>6, NextCases, CyclesFrame

\* No two cycles come to count the same run.
LEMMA RunsOfCyclesNext ==
  ASSUME TypeOK, OwnRuns, WorkerPoint, OnlyLastOpen, RunsOfCycles, Next
  PROVE  RunsOfCycles'
<1>a. Len(runs) \in Nat /\ \A c \in DOMAIN cycles, t \in Tables : cycles[c].run[t] \in 0..Len(runs)
  BY CycleFields DEF TypeOK, DatabaseType
<1>1. ASSUME NEW c \in DOMAIN cycles', NEW d \in DOMAIN cycles', NEW t \in Tables,
             c # d, cycles'[c].run[t] = cycles'[d].run[t], cycles'[c].run[t] # 0
      PROVE  FALSE
  <2>1. CASE SettleTable /\ result # "raised"
    <3>1. worker = "settle" /\ DOMAIN cycles' \subseteq DOMAIN cycles
      BY <2>1, SettleTableWrites DEF CycleWrite
    <3>2. \A b \in DOMAIN cycles : cycles[b].run[t] # own[Worker]
      BY <2>1, <3>1 DEF RunsOfCycles
    <3>3. CASE cycles'[c].run[t] = cycles[c].run[t] /\ cycles'[d].run[t] = cycles[d].run[t]
      BY <1>1, <3>1, <3>3 DEF RunsOfCycles
    <3>4. CASE c = Len(cycles) /\ cycles'[c].run[t] = own[Worker]
      BY <1>1, <3>1, <3>2, <3>4, RunEntries
    <3>5. CASE d = Len(cycles) /\ cycles'[d].run[t] = own[Worker]
      BY <1>1, <3>1, <3>2, <3>5, RunEntries
    <3> QED
      BY <1>1, <3>3, <3>4, <3>5, RunEntries
  <2>2. CASE ~(SettleTable /\ result # "raised")
    <3>1. /\ c \in DOMAIN cycles /\ cycles'[c].run[t] = cycles[c].run[t]
          /\ d \in DOMAIN cycles /\ cycles'[d].run[t] = cycles[d].run[t]
      BY <1>1, <2>2, RunEntries
    <3> QED
      BY <1>1, <3>1 DEF RunsOfCycles
  <2> QED
    BY <2>1, <2>2
<1>2. ASSUME Naming', NEW c \in DOMAIN cycles', NEW t \in Tables
      PROVE  cycles'[c].run[t] # own'[Worker]
  <2>1. CASE \E next \in {"mkdir", "generate"} : BeginRun(Worker, next)
    <3>1. own'[Worker] = Len(runs) + 1 /\ cycles' = cycles
      BY <2>1, BeginRunWrites DEF Syncers
    <3> QED
      BY <1>a, <3>1
  <2>2. CASE \E p \in Syncers \ {Worker}, next \in {"mkdir", "generate"} : BeginRun(p, next)
    <3>1. UNCHANGED <<cycles, worker, result>> /\ own'[Worker] = own[Worker] /\ at'[Worker] = at[Worker]
      BY <2>2, BeginRunWrites, ZenonT(30) DEF Syncers
    <3>2. Naming
      BY <1>2, <3>1 DEF Naming, Live
    <3> QED
      BY <3>1, <3>2 DEF RunsOfCycles, Naming
  <2>3. CASE \/ \E p \in Syncers : SyncMoves(p)
             \/ WorkerMoves \/ RecoverCycle \/ OpenCycle \/ NextTable \/ SettleTable \/ CheckCycle \/ Abandon
    <3>1. Naming /\ own' = own
      BY <1>2, <2>3, NamingStays
    <3>2. \A d \in DOMAIN cycles : cycles[d].run[t] # own[Worker]
      BY <3>1 DEF RunsOfCycles, Naming
    <3>3. CASE SettleTable
      <4>1. worker' \in {"loop", "check"} /\ at'[Worker] = "off"
        BY <3>3, SettleTableWrites DEF WorkerPoint
      <4> QED
        BY <1>2, <4>1 DEF Naming, Live
    <3>4. CASE OpenCycle
      <4>1. at'[Worker] = "off" /\ worker' = "loop"
        BY <3>4, OpenCycleWrites DEF WorkerPoint
      <4> QED
        BY <1>2, <4>1 DEF Naming, Live
    <3> QED
      BY <3>1, <3>2, <3>3, <3>4, RunEntries
  <2> QED
    BY <2>1, <2>2, <2>3, NextCases
<1>3. \A c, d \in DOMAIN cycles', t \in Tables :
        c # d /\ cycles'[c].run[t] = cycles'[d].run[t] => cycles'[c].run[t] = 0
  BY <1>1
<1>4. Naming' => \A c \in DOMAIN cycles', t \in Tables : cycles'[c].run[t] # own'[Worker]
  BY <1>2
<1> QED
  BY <1>3, <1>4 DEF RunsOfCycles, Naming

-----------------------------------------------------------------------------
(* The rows of tables and those of their runs                                *)

RowsAgree == TableRows /\ TableShowsLastRun

\* The fields of the row of a table have their types.
LEMMA RowType ==
  ASSUME TypeOK, NEW t \in Tables
  PROVE  /\ table[t] = [status |-> table[t].status, last_run |-> table[t].last_run]
         /\ table[t].status \in {"IDLE", "RUNNING", "COMPLETED", "DELIVERED", "FAILED"}
         /\ table[t].last_run \in 0..Len(runs)
         /\ table[t].last_run # 0 => table[t].last_run \in DOMAIN runs
<1>1. table[t] \in TableRow(Len(runs)) /\ DOMAIN runs = 1..Len(runs) /\ Len(runs) \in Nat
  BY DEF TypeOK, DatabaseType
<1> QED
  BY <1>1 DEF TableRow

\* The steps that write neither row: what a table may show never shrinks.
LEMMA RowsFrame ==
  ASSUME RowsAgree, UNCHANGED <<runs, table, own>>,
         \A q \in Syncers : Live(q)' => Live(q) /\ Shown(at[q]) \subseteq Shown(at'[q])
  PROVE  RowsAgree'
<1>1. TableShowsLastRun'
  BY DEF RowsAgree, TableShowsLastRun
<1>2. TableRows'
  BY DEF RowsAgree, TableRows
<1> QED
  BY <1>1, <1>2 DEF RowsAgree

\* Steps of a sync that change neither the status of a run nor the row of a table keep
\* these in agreement.
LEMMA RowsQuiet ==
  ASSUME TypeOK, OwnRuns, WorkerPoint, RowsAgree, NEW p \in Syncers,
         \/ BeginRefused(p) \/ SyncRefused(p) \/ MakeDirectory(p) \/ UploadManifest(p)
         \/ CleanDelivered(p) \/ Generate(p) \/ SyncFails(p) \/ SyncRaises(p)
         \/ KillManual(p) \/ \E t \in Tables : StartManual(p, t)
  PROVE  RowsAgree'
<1>1. SyncEffect(p)
  BY MovesEffect DEF SyncMoves
<1>2. UNCHANGED <<runs, table, own>>
  BY DEF BeginRefused, SyncRefused, MakeDirectory, UploadManifest, CleanDelivered, Generate,
         SyncFails, SyncRaises, KillManual, StartManual
<1>3. at'[p] \in {"off", "begin", "failing"} \/ Shown(at[p]) \subseteq Shown(at'[p])
  <2>1. p \in DOMAIN at
    BY DEF TypeOK, SyncType
  <2>2. CASE MakeDirectory(p) \/ UploadManifest(p) \/ Generate(p)
    BY <2>1, <2>2 DEF MakeDirectory, UploadManifest, Generate, Goto, Shown
  <2>3. CASE ~(MakeDirectory(p) \/ UploadManifest(p) \/ Generate(p))
    <3>1. Goto(p, "off") \/ Goto(p, "begin") \/ Goto(p, "failing")
      BY <2>3 DEF BeginRefused, SyncRefused, CleanDelivered, SyncFails, SyncRaises, KillManual, StartManual, Return
    <3> QED
      BY <2>1, <3>1 DEF Goto
  <2> QED
    BY <2>2, <2>3
<1>4. Shown(at[p]) \subseteq Shown("failing")
  BY DEF Shown
<1>5. \A q \in Syncers : Live(q)' => Live(q) /\ Shown(at[q]) \subseteq Shown(at'[q])
  BY <1>1, <1>3, <1>4 DEF SyncEffect, Live
<1> QED
  BY <1>2, <1>5, RowsFrame

\* A sync writes the status of its run, and perhaps the row of its table.
LEMMA RowsWritten ==
  ASSUME TypeOK, OwnRuns, RowsAgree, NEW p \in Syncers, SyncEffect(p), Live(p),
         NEW s, runs'[own[p]].status = s,
         \/ /\ table' = table
            /\ "RUNNING" \in Shown(at[p]) => s \in Active
            /\ "COMPLETED" \in Shown(at[p]) => s \in {"SNAPSHOT_READY", "FINALIZING"}
            /\ "DELIVERED" \in Shown(at[p]) => s = "DELIVERED"
            /\ Shown(at[p]) \subseteq Shown(at'[p])
         \/ \E x \in {"COMPLETED", "DELIVERED", "FAILED"} :
              /\ table'[sub[p]] = [status |-> x, last_run |-> own[p]]
              /\ x = "COMPLETED" => s \in {"SNAPSHOT_READY", "FINALIZING"}
              /\ x = "DELIVERED" => s = "DELIVERED"
              /\ at'[p] = "off" \/ x \in Shown(at'[p])
  PROVE  RowsAgree'
<1>1. /\ own[p] \in DOMAIN runs /\ own[p] # 0 /\ runs[own[p]].table = sub[p]
      /\ sub[p] \in Tables
  BY OwnIsARun, ProcessType
<1>2. /\ own' = own /\ \A t \in Tables : t # sub[p] => table'[t] = table[t]
      /\ \A r \in DOMAIN runs : r # own[p] => runs'[r] = runs[r]
      /\ \A r \in DOMAIN runs : runs'[r].table = runs[r].table
      /\ \A q \in Syncers \ {p} : at'[q] = at[q]
  BY DEF SyncEffect
<1>3. ASSUME NEW t \in Tables
      PROVE  \/ table'[t] = table[t]
             \/ t = sub[p] /\ table'[t].last_run = own[p]
  BY <1>2
<1>4. ASSUME NEW t \in Tables, table'[t].last_run # 0
      PROVE  runs'[table'[t].last_run].table = t
  <2>1. CASE table'[t] = table[t]
    <3>1. table[t].last_run \in DOMAIN runs /\ runs[table[t].last_run].table = t
      BY <1>4, <2>1, RowType DEF RowsAgree, TableRows
    <3> QED
      BY <1>2, <2>1, <3>1
  <2>2. CASE t = sub[p] /\ table'[t].last_run = own[p]
    BY <1>1, <1>2, <2>2
  <2> QED
    BY <1>3, <2>1, <2>2
<1>5. ASSUME NEW q \in Syncers, NEW t \in Tables, Live(q)', table'[t].last_run = own[q]
      PROVE  table'[t].status \in Shown(at'[q])
  <2>1. CASE q # p
    <3>1. Live(q) /\ own[q] # 0 /\ own[q] # own[p] /\ at'[q] = at[q]
      BY <1>1, <1>2, <1>5, <2>1 DEF OwnRuns, Live
    <3>2. table'[t] = table[t]
      BY <1>3, <1>5, <3>1
    <3> QED
      BY <1>5, <3>1, <3>2 DEF RowsAgree, TableRows
  <2>2. CASE q = p
    <3>1. CASE table' = table
      <4>1. table[t].status \in Shown(at[p])
        BY <1>5, <2>2, <3>1 DEF RowsAgree, TableRows
      <4>2. at'[p] # "off"
        BY <1>5, <2>2 DEF Live
      <4>3. CASE Shown(at[p]) \subseteq Shown(at'[p])
        BY <2>2, <3>1, <4>1, <4>3
      <4>4. CASE \E x \in {"COMPLETED", "DELIVERED", "FAILED"} :
                   /\ table'[sub[p]] = [status |-> x, last_run |-> own[p]]
                   /\ at'[p] = "off" \/ x \in Shown(at'[p])
        <5>1. t = sub[p]
          BY <1>1, <1>5, <2>2, <3>1 DEF RowsAgree, TableRows
        <5> QED
          BY <2>2, <4>2, <4>4, <5>1
      <4> QED
        BY <4>3, <4>4
    <3>2. CASE \E x \in {"COMPLETED", "DELIVERED", "FAILED"} :
                 /\ table'[sub[p]] = [status |-> x, last_run |-> own[p]]
                 /\ at'[p] = "off" \/ x \in Shown(at'[p])
      <4>1. at'[p] # "off"
        BY <1>5, <2>2 DEF Live
      <4>2. t = sub[p]
        BY <1>1, <1>2, <1>5, <2>2 DEF RowsAgree, TableRows
      <4> QED
        BY <2>2, <3>2, <4>1, <4>2
    <3> QED
      BY <3>1, <3>2
  <2> QED
    BY <2>1, <2>2
<1>6. ASSUME NEW t \in Tables, table'[t].last_run # 0
      PROVE  /\ table'[t].status = "RUNNING" => runs'[table'[t].last_run].status \in Active
             /\ table'[t].status = "COMPLETED" =>
                  runs'[table'[t].last_run].status \in {"SNAPSHOT_READY", "FINALIZING"}
             /\ table'[t].status = "DELIVERED" => runs'[table'[t].last_run].status = "DELIVERED"
  <2>1. CASE table'[t].last_run # own[p]
    <3>1. table'[t] = table[t]
      BY <1>3, <2>1
    <3>2. runs'[table[t].last_run] = runs[table[t].last_run]
      BY <1>2, <1>6, <2>1, <3>1, RowType, ZenonT(30)
    <3> QED
      BY <1>6, <3>1, <3>2 DEF RowsAgree, TableShowsLastRun
  <2>2. CASE table'[t].last_run = own[p]
    <3>1. t = sub[p]
      BY <1>1, <1>2, <2>2 DEF RowsAgree, TableRows
    <3>2. CASE \E x \in {"COMPLETED", "DELIVERED", "FAILED"} :
                 /\ table'[sub[p]] = [status |-> x, last_run |-> own[p]]
                 /\ x = "COMPLETED" => s \in {"SNAPSHOT_READY", "FINALIZING"}
                 /\ x = "DELIVERED" => s = "DELIVERED"
      BY <2>2, <3>1, <3>2
    <3>3. CASE /\ table' = table
               /\ "RUNNING" \in Shown(at[p]) => s \in Active
               /\ "COMPLETED" \in Shown(at[p]) => s \in {"SNAPSHOT_READY", "FINALIZING"}
               /\ "DELIVERED" \in Shown(at[p]) => s = "DELIVERED"
      <4>1. table[t].status \in Shown(at[p])
        BY <2>2, <3>3 DEF RowsAgree, TableRows
      <4> QED
        BY <2>2, <3>3, <4>1
    <3> QED
      BY <3>2, <3>3
  <2> QED
    BY <2>1, <2>2
<1> QED
  BY <1>2, <1>4, <1>5, <1>6 DEF RowsAgree, TableRows, TableShowsLastRun

\* Steps of a sync that write its run's status keep the row of its table in agreement.
LEMMA RowsWriting ==
  ASSUME TypeOK, OwnRuns, WorkerPoint, RowsAgree, NEW p \in Syncers,
         \/ SetUploading(p) \/ SetFinalizing(p) \/ RefinalizeRun(p)
         \/ CompleteRun(p) \/ DeliverRun(p) \/ StoreSnapshot(p) \/ FailRun(p)
  PROVE  RowsAgree'
<1>1. SyncEffect(p) /\ Live(p)
  BY WritingStepEffect
<1>2. own[p] \in DOMAIN runs /\ sub[p] \in Tables /\ own[p] \in 0..Len(runs) /\ DatabaseType /\ p \in DOMAIN at
  BY <1>1, OwnIsARun, ProcessType DEF TypeOK, SyncType
<1>3. ASSUME NEW s \in RunStatuses, SetRun(own[p], s)
      PROVE  runs'[own[p]].status = s
  BY <1>2, <1>3, SetRunType
<1>4. ASSUME NEW x \in {"COMPLETED", "DELIVERED", "FAILED"}, SetTable(sub[p], x, own[p])
      PROVE  table'[sub[p]] = [status |-> x, last_run |-> own[p]]
  BY <1>2, <1>4, SetTableType
<1>5. CASE SetUploading(p)
  <2>1. runs'[own[p]].status = "UPLOADING" /\ table' = table
    BY <1>3, <1>5 DEF SetUploading, RunStatuses, Active
  <2>2. at[p] = "set_uploading" /\ at'[p] = "scan"
    BY <1>2, <1>5 DEF SetUploading, Goto
  <2> QED
    BY <1>1, <2>1, <2>2, RowsWritten DEF Shown, Active
<1>6. CASE SetFinalizing(p)
  <2>1. runs'[own[p]].status = "FINALIZING" /\ table' = table
    BY <1>3, <1>6 DEF SetFinalizing, RunStatuses, Active
  <2>2. at[p] = "scan" /\ at'[p] = "complete"
    BY <1>2, <1>6 DEF SetFinalizing, Goto
  <2> QED
    BY <1>1, <2>1, <2>2, RowsWritten DEF Shown, Active
<1>7. CASE RefinalizeRun(p)
  <2>1. runs'[own[p]].status = "FINALIZING" /\ table' = table
    BY <1>3, <1>7 DEF RefinalizeRun, RunStatuses, Active
  <2>2. at[p] = "refinalize" /\ at'[p] = "manifest"
    BY <1>2, <1>7 DEF RefinalizeRun, Goto
  <2> QED
    BY <1>1, <2>1, <2>2, RowsWritten DEF Shown, Active
<1>8. CASE CompleteRun(p)
  <2>1. runs'[own[p]].status = "SNAPSHOT_READY" /\ table'[sub[p]] = [status |-> "COMPLETED", last_run |-> own[p]]
    BY <1>3, <1>4, <1>8 DEF CompleteRun, RunStatuses, Active
  <2>2. "COMPLETED" \in Shown(at'[p])
    BY <1>2, <1>8 DEF CompleteRun, Goto, Shown
  <2> QED
    BY <1>1, <2>1, <2>2, RowsWritten
<1>9. CASE DeliverRun(p)
  <2>1. runs'[own[p]].status = "DELIVERED" /\ table'[sub[p]] = [status |-> "DELIVERED", last_run |-> own[p]]
    BY <1>3, <1>4, <1>9 DEF DeliverRun, RunStatuses
  <2>2. "DELIVERED" \in Shown(at'[p])
    BY <1>2, <1>9 DEF DeliverRun, Goto, Shown
  <2> QED
    BY <1>1, <2>1, <2>2, RowsWritten
<1>10. CASE StoreSnapshot(p)
  <2>1. runs'[own[p]].status = "SNAPSHOT_READY" /\ table'[sub[p]] = [status |-> "COMPLETED", last_run |-> own[p]]
    BY <1>3, <1>4, <1>10 DEF StoreSnapshot, RunStatuses, Active
  <2>2. at'[p] = "off"
    BY <1>2, <1>10 DEF StoreSnapshot, Return, Goto
  <2> QED
    BY <1>1, <2>1, <2>2, RowsWritten
<1>11. CASE FailRun(p)
  <2>1. runs'[own[p]].status = "FAILED" /\ table'[sub[p]] = [status |-> "FAILED", last_run |-> own[p]]
    BY <1>3, <1>4, <1>11 DEF FailRun, RunStatuses
  <2>2. at'[p] = "off"
    BY <1>2, <1>11 DEF FailRun, Return, Goto
  <2> QED
    BY <1>1, <2>1, <2>2, RowsWritten
<1> QED
  BY <1>5, <1>6, <1>7, <1>8, <1>9, <1>10, <1>11

\* The beginning of a run makes it the last run of its table.
LEMMA RowsBegin ==
  ASSUME TypeOK, OwnRuns, RowsAgree, NEW p \in Syncers, NEW next \in {"mkdir", "generate"}, BeginRun(p, next)
  PROVE  RowsAgree'
<1> DEFINE n == Len(runs) + 1
<1>1. /\ \A r \in DOMAIN runs : runs'[r] = runs[r]
      /\ runs'[n] = [table |-> sub[p], status |-> "GENERATING"]
      /\ table'[sub[p]] = [status |-> "RUNNING", last_run |-> n]
      /\ \A t \in Tables \ {sub[p]} : table'[t] = table[t]
      /\ own'[p] = n /\ at'[p] = next
      /\ \A q \in Syncers \ {p} : own'[q] = own[q] /\ at'[q] = at[q]
  BY BeginRunWrites
<1>2. \A q \in Syncers : own[q] # n
  BY ProcessType DEF TypeOK, DatabaseType
<1>3. \A t \in Tables : table[t].last_run # n /\ (table[t].last_run # 0 => table[t].last_run \in DOMAIN runs)
  BY RowType DEF TypeOK, DatabaseType
<1> HIDE DEF n
<1>4. ASSUME NEW t \in Tables, table'[t].last_run # 0
      PROVE  /\ runs'[table'[t].last_run].table = t
             /\ table'[t].status = "RUNNING" => runs'[table'[t].last_run].status \in Active
             /\ table'[t].status = "COMPLETED" =>
                  runs'[table'[t].last_run].status \in {"SNAPSHOT_READY", "FINALIZING"}
             /\ table'[t].status = "DELIVERED" => runs'[table'[t].last_run].status = "DELIVERED"
  <2>1. CASE t = sub[p]
    BY <1>1, <2>1 DEF Active
  <2>2. CASE t # sub[p]
    <3>1. table'[t] = table[t] /\ runs'[table[t].last_run] = runs[table[t].last_run]
      BY <1>1, <1>3, <1>4, <2>2
    <3> QED
      BY <1>4, <3>1 DEF RowsAgree, TableRows, TableShowsLastRun
  <2> QED
    BY <2>1, <2>2
<1>5. ASSUME NEW q \in Syncers, NEW t \in Tables, Live(q)', table'[t].last_run = own'[q]
      PROVE  table'[t].status \in Shown(at'[q])
  <2>1. CASE q = p
    <3>1. t = sub[p]
      BY <1>1, <1>3, <1>5, <2>1
    <3> QED
      BY <1>1, <2>1, <3>1 DEF Shown
  <2>2. CASE q # p
    <3>1. own'[q] = own[q] /\ at'[q] = at[q] /\ Live(q)
      BY <1>1, <1>5, <2>2 DEF Live
    <3>2. table'[t] = table[t]
      BY <1>1, <1>2, <1>5, <3>1
    <3> QED
      BY <1>5, <3>1, <3>2 DEF RowsAgree, TableRows
  <2> QED
    BY <2>1, <2>2
<1> QED
  BY <1>4, <1>5 DEF RowsAgree, TableRows, TableShowsLastRun

\* Recovery fails a run and, if it is the last one, its table.
LEMMA RowsRecover ==
  ASSUME TypeOK, RowsAgree, RecoverCycle
  PROVE  RowsAgree'
<1>1. /\ own' = own /\ at' = at
      /\ \A r \in DOMAIN runs : r \notin LostRuns => runs'[r] = runs[r]
      /\ \A t \in Tables :
           table'[t] = IF table[t].last_run \in LostRuns
                       THEN [status |-> "FAILED", last_run |-> table[t].last_run] ELSE table[t]
  BY RecoverWrites
<1>a. ASSUME NEW t \in Tables
      PROVE  /\ table'[t].last_run = table[t].last_run
             /\ \/ table[t].last_run \in LostRuns /\ table'[t].status = "FAILED"
                \/ table[t].last_run \notin LostRuns /\ table'[t] = table[t]
  <2>1. CASE table[t].last_run \in LostRuns
    <3>1. table'[t] = [status |-> "FAILED", last_run |-> table[t].last_run]
      BY <1>1, <2>1
    <3> QED
      BY <2>1, <3>1
  <2>2. CASE table[t].last_run \notin LostRuns
    <3>1. table'[t] = table[t]
      BY <1>1, <2>2
    <3> QED
      BY <2>2, <3>1
  <2> QED
    BY <2>1, <2>2
<1>2. \A r \in DOMAIN runs : runs'[r].table = runs[r].table
  BY RecoverKeepsTables
<1>3. \A point : "FAILED" \in Shown(point)
  BY DEF Shown
<1>4. ASSUME NEW t \in Tables, table'[t].last_run # 0
      PROVE  /\ runs'[table'[t].last_run].table = t
             /\ table'[t].status = "RUNNING" => runs'[table'[t].last_run].status \in Active
             /\ table'[t].status = "COMPLETED" =>
                  runs'[table'[t].last_run].status \in {"SNAPSHOT_READY", "FINALIZING"}
             /\ table'[t].status = "DELIVERED" => runs'[table'[t].last_run].status = "DELIVERED"
  <2>1. table'[t].last_run = table[t].last_run
    BY <1>a
  <2>2. table[t].last_run \in DOMAIN runs /\ runs[table[t].last_run].table = t
    BY <1>4, <2>1, RowType DEF RowsAgree, TableRows
  <2>3. CASE table[t].last_run \in LostRuns
    BY <1>a, <1>2, <2>1, <2>2, <2>3
  <2>4. CASE table[t].last_run \notin LostRuns
    <3>1. table'[t] = table[t] /\ runs'[table[t].last_run] = runs[table[t].last_run]
      BY <1>1, <1>a, <2>2, <2>4
    <3> QED
      BY <1>4, <2>2, <3>1 DEF RowsAgree, TableShowsLastRun
  <2> QED
    BY <2>3, <2>4
<1>5. ASSUME NEW q \in Syncers, NEW t \in Tables, Live(q)', table'[t].last_run = own'[q]
      PROVE  table'[t].status \in Shown(at'[q])
  <2>1. Live(q) /\ table[t].last_run = own[q]
    BY <1>1, <1>a, <1>5 DEF Live
  <2>2. table[t].status \in Shown(at[q])
    BY <2>1 DEF RowsAgree, TableRows
  <2>3. table'[t].status \in {"FAILED", table[t].status}
    BY <1>a
  <2> QED
    BY <1>1, <1>3, <2>2, <2>3
<1> QED
  BY <1>4, <1>5 DEF RowsAgree, TableRows, TableShowsLastRun

\* Every step keeps the rows of tables and runs in agreement.
LEMMA RowsAgreeNext ==
  ASSUME TypeOK, OwnRuns, WorkerPoint, OnlyLastOpen, RowsAgree, Next
  PROVE  RowsAgree'
<1>1. ASSUME NEW p \in Syncers, SyncMoves(p)
      PROVE  RowsAgree'
  BY <1>1, RowsQuiet, RowsWriting DEF SyncMoves
<1>2. ASSUME NEW p \in Syncers, NEW next \in {"mkdir", "generate"}, BeginRun(p, next)
      PROVE  RowsAgree'
  BY <1>2, RowsBegin
<1>3. CASE WorkerMoves
  <2>1. UNCHANGED <<runs, table, own>> /\ \A q \in Syncers : at'[q] = "off" \/ at'[q] = at[q]
    BY <1>3, WorkerMovesWrite
  <2>2. \A q \in Syncers : Live(q)' => Live(q) /\ Shown(at[q]) \subseteq Shown(at'[q])
    BY <2>1 DEF Live
  <2> QED
    BY <2>1, <2>2, RowsFrame
<1>4. CASE OpenCycle \/ SettleTable \/ CheckCycle \/ Abandon
  <2>1. UNCHANGED <<runs, table, sync>>
    BY <1>4 DEF OpenCycle, SettleTable, CheckCycle, Abandon
  <2>2. \A q \in Syncers : Live(q)' => Live(q) /\ Shown(at[q]) \subseteq Shown(at'[q])
    BY <2>1 DEF Live
  <2> QED
    BY <2>1, <2>2, RowsFrame
<1>5. CASE NextTable
  <2>1. UNCHANGED <<runs, table, own>> /\ at' \in {at, [at EXCEPT ![Worker] = "begin"]}
    BY <1>5, NextTableWrites
  <2>2. \A q \in Syncers : at'[q] = at[q] \/ at'[q] = "begin"
    BY <2>1 DEF TypeOK, SyncType
  <2>3. \A q \in Syncers : Live(q)' => Live(q) /\ Shown(at[q]) \subseteq Shown(at'[q])
    BY <2>2 DEF Live
  <2> QED
    BY <2>1, <2>3, RowsFrame
<1>6. CASE RecoverCycle
  BY <1>6, RowsRecover
<1> QED
  BY <1>1, <1>2, <1>3, <1>4, <1>5, <1>6, NextCases

-----------------------------------------------------------------------------
(* Without kills, recovery finds nothing to do                               *)

LiveRunsGoOn == \A p \in Syncers : Live(p) => runs[own[p]].status # "FAILED"
RunningIsSynced ==
  \A c \in OpenCycles, t \in Tables : cycles[c].tables[t] = "RUNNING" =>
    worker \in {"sync", "settle"} /\ t = Captured[pos]

\* Kills and stops are counted: with none after a step, there was none before.
LEMMA CrashesGrow ==
  ASSUME TypeOK, Next, crashes' = 0
  PROVE  crashes = 0 /\ ~RequestStop /\ ~KillWorker
<1>1. crashes \in Nat
  BY DEF TypeOK, ControlType
<1>2. RequestStop \/ KillWorker => crashes' = crashes + 1
  BY DEF RequestStop, KillWorker
<1>3. crashes' \in {crashes, crashes + 1}
  <2>1. ASSUME NEW p \in Syncers, SyncMoves(p)
        PROVE  crashes' \in {crashes, crashes + 1}
    BY <2>1 DEF SyncMoves, BeginRefused, SyncRefused, MakeDirectory, UploadManifest, CleanDelivered, Generate,
         SyncFails, SyncRaises, SetUploading, SetFinalizing, RefinalizeRun, CompleteRun, DeliverRun,
         StoreSnapshot, FailRun, KillManual, StartManual
  <2>2. ASSUME NEW p \in Syncers, NEW next \in {"mkdir", "generate"}, BeginRun(p, next)
        PROVE  crashes' = crashes
    BY <2>2 DEF BeginRun
  <2>3. CASE WorkerMoves
    BY <2>3 DEF WorkerMoves, StartWorker, CleanFailedRuns, Wake, LoopEnds, RequestStop, KillWorker
  <2>4. CASE RecoverCycle \/ OpenCycle \/ NextTable \/ SettleTable \/ CheckCycle \/ Abandon
    BY <2>4 DEF RecoverCycle, OpenCycle, NextTable, SettleTable, CheckCycle, Abandon
  <2> QED
    BY <2>1, <2>2, <2>3, <2>4, NextCases
<1> QED
  BY <1>1, <1>2, <1>3

\* If only the table being synced is RUNNING, there is nothing to recover.
LEMMA NothingLost ==
  ASSUME RunningIsSynced, worker \notin {"sync", "settle"}
  PROVE  Interrupted = {} /\ LostRuns = {}
<1>1. Interrupted = {}
  BY DEF RunningIsSynced, Interrupted
<1> QED
  BY <1>1 DEF LostRuns

\* No step fails the run of a process at work, as recovery finds nothing lost.
LEMMA LiveRunsGoOnNext ==
  ASSUME TypeOK, OwnRuns, WorkerPoint, OnlyLastOpen, LiveRunsGoOn, RunningIsSynced, Next
  PROVE  LiveRunsGoOn'
<1>a. \A p \in Syncers : Live(p) => own[p] \in DOMAIN runs /\ own[p] # 0
  BY OwnIsARun
<1>1. ASSUME NEW p \in Syncers, SyncMoves(p)
      PROVE  LiveRunsGoOn'
  <2>1. SyncEffect(p)
    BY <1>1, MovesEffect
  <2>2. ASSUME NEW q \in Syncers, q # p, Live(q)'
        PROVE  runs'[own'[q]].status # "FAILED"
    <3>1. Live(q) /\ own'[q] = own[q]
      BY <2>1, <2>2 DEF SyncEffect, Live
    <3>2. own[q] # own[p] /\ own[q] \in DOMAIN runs
      BY <1>a, <2>2, <3>1 DEF OwnRuns
    <3>3. runs'[own[q]] = runs[own[q]]
      BY <2>1, <3>2 DEF SyncEffect
    <3> QED
      BY <3>1, <3>3 DEF LiveRunsGoOn
  <2>3. ASSUME Live(p)'
        PROVE  runs'[own'[p]].status # "FAILED"
    <3>1. Live(p) /\ own' = own
      BY <2>1, <2>3 DEF SyncEffect
    <3>2. CASE runs' = runs
      BY <3>1, <3>2 DEF LiveRunsGoOn
    <3>3. CASE \/ SetUploading(p) \/ SetFinalizing(p) \/ RefinalizeRun(p)
               \/ CompleteRun(p) \/ DeliverRun(p) \/ StoreSnapshot(p)
      <4>1. \E s \in RunStatuses \ {"FAILED"} : SetRun(own[p], s)
        BY <3>3 DEF SetUploading, SetFinalizing, RefinalizeRun, CompleteRun, DeliverRun, StoreSnapshot,
               RunStatuses, Active
      <4> QED
        BY <1>a, <3>1, <4>1, SetRunType DEF TypeOK
    <3>4. CASE FailRun(p)
      <4>1. at'[p] = "off"
        BY <3>4 DEF FailRun, Return, Goto, TypeOK, SyncType
      <4> QED
        BY <2>3, <4>1 DEF Live
    <3> QED
      BY <1>1, <3>2, <3>3, <3>4
         DEF SyncMoves, BeginRefused, SyncRefused, MakeDirectory, UploadManifest, CleanDelivered, Generate,
             SyncFails, SyncRaises, KillManual, StartManual
  <2> QED
    BY <2>2, <2>3 DEF LiveRunsGoOn
<1>2. ASSUME NEW p \in Syncers, NEW next \in {"mkdir", "generate"}, BeginRun(p, next)
      PROVE  LiveRunsGoOn'
  <2>1. /\ \A r \in DOMAIN runs : runs'[r] = runs[r]
        /\ runs'[own'[p]] = [table |-> sub[p], status |-> "GENERATING"]
        /\ \A q \in Syncers \ {p} : own'[q] = own[q] /\ at'[q] = at[q]
    BY <1>2, BeginRunWrites
  <2> QED
    BY <1>a, <2>1 DEF LiveRunsGoOn, Live
<1>3. ASSUME UNCHANGED <<runs, own>>, \A q \in Syncers : Live(q)' => Live(q)
      PROVE  LiveRunsGoOn'
  BY <1>3 DEF LiveRunsGoOn
<1>4. CASE WorkerMoves
  <2>1. UNCHANGED <<runs, own>> /\ \A q \in Syncers : at'[q] = "off" \/ at'[q] = at[q]
    BY <1>4, WorkerMovesWrite
  <2> QED
    BY <1>3, <2>1 DEF Live
<1>5. CASE RecoverCycle
  <2>1. LostRuns = {}
    BY <1>5, NothingLost DEF RecoverCycle
  <2>2. UNCHANGED sync /\ \A r \in DOMAIN runs : runs'[r] = runs[r]
    BY <1>5, <2>1, RecoverWrites
  <2> QED
    BY <1>a, <2>2 DEF LiveRunsGoOn, Live
<1>6. CASE OpenCycle \/ SettleTable \/ CheckCycle \/ Abandon
  <2>1. UNCHANGED <<runs, sync>>
    BY <1>6 DEF OpenCycle, SettleTable, CheckCycle, Abandon
  <2> QED
    BY <1>3, <2>1 DEF Live
<1>7. CASE NextTable
  <2>1. UNCHANGED <<runs, own>> /\ at' \in {at, [at EXCEPT ![Worker] = "begin"]}
    BY <1>7, NextTableWrites
  <2>2. \A q \in Syncers : Live(q)' => Live(q)
    BY <2>1 DEF Live, TypeOK, SyncType
  <2> QED
    BY <1>3, <2>1, <2>2
<1> QED
  BY <1>1, <1>2, <1>4, <1>5, <1>6, <1>7, NextCases

\* A table is RUNNING only while it is synced, if nobody is stopped or killed.
LEMMA RunningIsSyncedNext ==
  ASSUME TypeOK, OwnRuns, WorkerPoint, OnlyLastOpen, RunningIsSynced, Next, ~RequestStop, ~KillWorker
  PROVE  RunningIsSynced'
<1> DEFINE NoneRunning == \A c \in OpenCycles, t \in Tables : cycles[c].tables[t] # "RUNNING"
<1>1. ASSUME worker \notin {"sync", "settle"}
      PROVE  NoneRunning
  BY <1>1 DEF RunningIsSynced
<1>2. ASSUME UNCHANGED <<cycles, pos>>, NoneRunning \/ worker' \in {"sync", "settle"}
      PROVE  RunningIsSynced'
  BY <1>2 DEF RunningIsSynced, OpenCycles
<1>3. ASSUME NEW p \in Syncers, SyncMoves(p)
      PROVE  RunningIsSynced'
  <2>1. UNCHANGED <<cycles, pos>>
    BY <1>3, CyclesFrame
  <2>2. worker' = worker \/ worker' = "settle"
    BY <1>3, MovesEffect DEF SyncEffect
  <2> QED
    BY <1>1, <1>2, <2>1, <2>2
<1>4. ASSUME NEW p \in Syncers, NEW next \in {"mkdir", "generate"}, BeginRun(p, next)
      PROVE  RunningIsSynced'
  <2>1. UNCHANGED <<cycles, pos, worker>>
    BY <1>4 DEF BeginRun
  <2> QED
    BY <1>1, <1>2, <2>1
<1>5. CASE WorkerMoves
  <2>1. UNCHANGED <<cycles, pos>> /\ worker \in {"loop", "down", "maintain", "idle"}
    BY <1>5, WorkerMovesWrite
  <2> QED
    BY <1>1, <1>2, <2>1
<1>6. CASE RecoverCycle
  <2>1. worker = "recover" /\ DOMAIN cycles' = DOMAIN cycles
        /\ \A c \in DOMAIN cycles : cycles'[c].status = cycles[c].status
    BY <1>6, RecoverWrites
  <2>2. NoneRunning /\ Interrupted = {}
    BY <1>1, <2>1, NothingLost
  <2>3. \A c \in DOMAIN cycles, t \in Tables : cycles'[c].tables[t] = cycles[c].tables[t]
    BY <1>6, <2>2, RecoverWrites
  <2> QED
    BY <2>1, <2>2, <2>3 DEF RunningIsSynced, OpenCycles
<1>7. CASE OpenCycle
  <2>1. worker = "open"
    BY <1>7, OpenCycleWrites
  <2>2. NoneRunning
    BY <1>1, <2>1
  <2>3. CASE UNCHANGED cycles
    BY <2>2, <2>3 DEF RunningIsSynced, OpenCycles
  <2>4. CASE /\ DOMAIN cycles' = DOMAIN cycles \cup {Len(cycles) + 1}
             /\ \A c \in DOMAIN cycles : cycles'[c] = cycles[c]
             /\ cycles'[Len(cycles) + 1] = NewCycle
    <3>1. \A t \in Tables : NewCycle.tables[t] # "RUNNING"
      BY DEF NewCycle
    <3> QED
      BY <2>2, <2>4, <3>1 DEF RunningIsSynced, OpenCycles
  <2> QED
    BY <1>7, <2>3, <2>4, OpenCycleWrites
<1>8. ASSUME NEW s, NEW x, NEW r, CycleWrite(Len(cycles), Row(s, x, r)), pos \in DOMAIN Captured,
             \A t \in Tables : cycles[Len(cycles)].tables[t] = "RUNNING" => t = Captured[pos],
             NEW c \in OpenCycles', NEW t \in Tables, cycles'[c].tables[t] = "RUNNING"
      PROVE  c = Len(cycles) /\ t = Captured[pos] /\ x = "RUNNING"
  <2>1. /\ DOMAIN cycles' = DOMAIN cycles
        /\ \A d \in DOMAIN cycles : d # Len(cycles) => cycles'[d] = cycles[d]
        /\ OpenCycles = {Len(cycles)}
    BY <1>8 DEF CycleWrite
  <2>2. c = Len(cycles)
    BY <2>1 DEF OpenCycles
  <2>3. cycles'[c].tables[t] = IF t = Captured[pos] THEN x ELSE cycles[Len(cycles)].tables[t]
    BY <1>8, <2>2, RowEntry
  <2> QED
    BY <1>8, <2>2, <2>3
<1>9. CASE NextTable
  <2>1. worker = "loop" /\ pos \in DOMAIN Captured
    BY <1>9, NextTableWrites
  <2>2. NoneRunning
    BY <1>1, <2>1
  <2>3. CASE UNCHANGED cycles
    BY <2>2, <2>3 DEF RunningIsSynced, OpenCycles
  <2>4. CASE /\ CycleWrite(Len(cycles), Row("RUNNING", "RUNNING", cycles[Len(cycles)].run[Captured[pos]]))
             /\ worker' = "sync" /\ pos' = pos
    <3>1. \A t \in Tables : cycles[Len(cycles)].tables[t] = "RUNNING" => t = Captured[pos]
      BY <2>2, <2>4 DEF CycleWrite
    <3> QED
      BY <1>8, <2>1, <2>4, <3>1 DEF RunningIsSynced
  <2> QED
    BY <1>9, <2>3, <2>4, NextTableWrites
<1>10. CASE SettleTable
  <2>1. worker = "settle" /\ pos \in DOMAIN Captured
    BY <1>10, SettleTableWrites
  <2>2. ASSUME NEW s, NEW x \in {"DELIVERED", "FAILED"}, NEW r, CycleWrite(Len(cycles), Row(s, x, r))
        PROVE  RunningIsSynced'
    <3>1. \A t \in Tables : cycles[Len(cycles)].tables[t] = "RUNNING" => t = Captured[pos]
      BY <2>2 DEF RunningIsSynced, CycleWrite
    <3> QED
      BY <1>8, <2>1, <2>2, <3>1 DEF RunningIsSynced
  <2> QED
    BY <1>10, <2>2, SettleTableWrites
<1>11. CASE CheckCycle \/ Abandon
  <2>1. worker \in {"check", "down"}
    BY <1>11, CycleEndWrites
  <2>2. NoneRunning
    BY <1>1, <2>1
  <2>3. CASE UNCHANGED cycles
    BY <2>2, <2>3 DEF RunningIsSynced, OpenCycles
  <2>4. ASSUME NEW s \in {"COMPLETED", "ABANDONED"},
               CycleWrite(Len(cycles), [status |-> s, tables |-> cycles[Len(cycles)].tables,
                                        run |-> cycles[Len(cycles)].run])
        PROVE  RunningIsSynced'
    <3>1. /\ DOMAIN cycles' = DOMAIN cycles /\ OpenCycles = {Len(cycles)}
          /\ \A d \in DOMAIN cycles : d # Len(cycles) => cycles'[d] = cycles[d]
          /\ cycles'[Len(cycles)].status = s
      BY <2>4 DEF CycleWrite
    <3>2. OpenCycles' = {}
      BY <2>4, <3>1 DEF OpenCycles
    <3> QED
      BY <3>2 DEF RunningIsSynced
  <2> QED
    BY <1>11, <2>3, <2>4, CycleEndWrites
<1> QED
  BY <1>3, <1>4, <1>5, <1>6, <1>7, <1>9, <1>10, <1>11, NextCases

\* Every step keeps what holds until somebody is killed.
LEMMA UndisturbedNext ==
  ASSUME TypeOK, OwnRuns, WorkerPoint, OnlyLastOpen, Undisturbed, Next
  PROVE  Undisturbed'
<1>1. Undisturbed <=> (crashes = 0 => LiveRunsGoOn /\ RunningIsSynced)
  BY DEF Undisturbed, LiveRunsGoOn, RunningIsSynced
<1>2. ASSUME crashes' = 0
      PROVE  LiveRunsGoOn' /\ RunningIsSynced'
  BY <1>1, <1>2, CrashesGrow, LiveRunsGoOnNext, RunningIsSyncedNext
<1> QED
  BY <1>2 DEF Undisturbed, LiveRunsGoOn, RunningIsSynced

-----------------------------------------------------------------------------
(* The invariant                                                             *)

\* The inductive invariant holds initially.
LEMMA InductiveInit == Init => InductiveInvariant
<1> SUFFICES ASSUME Init PROVE InductiveInvariant
  OBVIOUS
<1>1. TypeOK
  BY TypeInit
<1>2. /\ runs = <<>> /\ cycles = <<>> /\ own = [p \in Syncers |-> 0] /\ at = [p \in Syncers |-> "off"]
      /\ table = [t \in Tables |-> [status |-> "IDLE", last_run |-> 0]] /\ worker = "down"
  BY DEF Init
<1>3. \A p \in Syncers : at[p] = "off" /\ own[p] = 0
  BY <1>2
<1>4. DOMAIN cycles = {} /\ OpenCycles = {}
  BY <1>2 DEF OpenCycles
<1>5. Worker \in Syncers
  BY DEF Syncers
<1>6. OwnRuns /\ SyncPoint
  BY <1>3 DEF OwnRuns, SyncPoint, Live
<1>7. WorkerPoint
  BY <1>2, <1>3, <1>5 DEF WorkerPoint
<1>8. OnlyLastOpen /\ InOrder /\ DeliveredIsReal /\ CompletedIsAll
  BY <1>2, <1>4 DEF OnlyLastOpen, InOrder, DeliveredIsReal, CompletedIsAll
<1>9. RunsOfCycles
  BY <1>2, <1>3, <1>4, <1>5 DEF RunsOfCycles, Live
<1>10. TableRows /\ TableShowsLastRun
  BY <1>2, <1>3 DEF TableRows, TableShowsLastRun, Live
<1>11. Undisturbed
  BY <1>3, <1>4 DEF Undisturbed, Live
<1> QED
  BY <1>1, <1>6, <1>7, <1>8, <1>9, <1>10, <1>11 DEF InductiveInvariant

\* Stuttering keeps the inductive invariant.
LEMMA InductiveStutter ==
  ASSUME InductiveInvariant, UNCHANGED vars
  PROVE  InductiveInvariant'
<1> USE DEF InductiveInvariant, vars
<1>1. TypeOK'
  BY DEF TypeOK, DatabaseType, SyncType, ControlType
<1>2. OwnRuns' /\ SyncPoint'
  BY DEF OwnRuns, SyncPoint, Live
<1>3. WorkerPoint'
  BY DEF WorkerPoint, OpenCycles
<1>4. OnlyLastOpen'
  BY DEF OnlyLastOpen, OpenCycles
<1>5. InOrder'
  BY DEF InOrder, DeliveredTables
<1>6. DeliveredIsReal' /\ CompletedIsAll'
  BY DEF DeliveredIsReal, CompletedIsAll, Live
<1>7. RunsOfCycles'
  BY DEF RunsOfCycles, Live
<1>8. TableRows' /\ TableShowsLastRun'
  BY DEF TableRows, TableShowsLastRun, Live
<1>9. Undisturbed'
  BY DEF Undisturbed, Live, OpenCycles
<1> QED
  BY <1>1, <1>2, <1>3, <1>4, <1>5, <1>6, <1>7, <1>8, <1>9

\* Every step keeps the inductive invariant.
LEMMA InductiveNext ==
  ASSUME InductiveInvariant, Next
  PROVE  InductiveInvariant'
<1>1. /\ TypeOK /\ OwnRuns /\ SyncPoint /\ WorkerPoint
      /\ OnlyLastOpen /\ InOrder /\ DeliveredIsReal /\ CompletedIsAll /\ RunsOfCycles
      /\ RowsAgree /\ Undisturbed
  BY DEF InductiveInvariant, RowsAgree
<1>2. TypeOK'
  BY <1>1, DatabaseTypeNext, SyncTypeNext, ControlTypeNext DEF TypeOK
<1>3. OwnRuns' /\ SyncPoint' /\ WorkerPoint'
  BY <1>1, OwnRunsNext, SyncPointNext, WorkerPointNext
<1>4. OnlyLastOpen' /\ InOrder' /\ DeliveredIsReal' /\ CompletedIsAll'
  BY <1>1, OnlyLastOpenNext, InOrderNext, DeliveredIsRealNext, CompletedIsAllNext
<1>5. RunsOfCycles' /\ RowsAgree' /\ Undisturbed'
  BY <1>1, RunsOfCyclesNext, RowsAgreeNext, UndisturbedNext
<1> QED
  BY <1>2, <1>3, <1>4, <1>5 DEF InductiveInvariant, RowsAgree

\* The inductive invariant holds for every number of tables, commands and cycles,
\* whatever fails or is killed: syncs own their runs, the open cycle is the last one
\* and delivers its tables in order, and what it names as delivered is.
THEOREM Invariance == Spec => []InductiveInvariant
<1>1. InductiveInvariant /\ [Next]_vars => InductiveInvariant'
  BY InductiveNext, InductiveStutter
<1> QED
  BY InductiveInit, <1>1, PTL DEF Spec

\* The rows of state.db and the locals of the processes keep their types.
THEOREM TypeCorrect == Spec => []TypeOK
<1>1. InductiveInvariant => TypeOK
  BY DEF InductiveInvariant
<1> QED
  BY Invariance, <1>1, PTL

\* A cycle is marked COMPLETED (CycleRunner.run) only when the relay has, for every
\* captured table, the complete snapshot of a run that no other cycle counts.
THEOREM CompletedWasDelivered == Spec => []CompletedIsDelivered
<1>1. ASSUME InductiveInvariant
      PROVE  CompletedIsDelivered
  <2>a. TypeOK /\ CompletedIsAll /\ DeliveredIsReal /\ RunsOfCycles
    BY <1>1 DEF InductiveInvariant
  <2>b. Range(Captured) \subseteq Tables
    BY CapturedTables DEF Range
  <2>1. ASSUME NEW c \in DOMAIN cycles, cycles[c].status = "COMPLETED", NEW t \in Range(Captured)
        PROVE  LET r == cycles[c].run[t] IN
               /\ cycles[c].tables[t] = "DELIVERED"
               /\ r # 0
               /\ runs[r] = [table |-> t, status |-> "DELIVERED"]
               /\ r \in visible
               /\ \A d \in DOMAIN cycles \ {c} : cycles[d].run[t] # r
    <3>1. cycles[c].tables[t] = "DELIVERED" /\ t \in Tables
      BY <2>a, <2>b, <2>1 DEF CompletedIsAll
    <3>2. /\ cycles[c].run[t] # 0 /\ cycles[c].run[t] \in visible
          /\ runs[cycles[c].run[t]] = [table |-> t, status |-> "DELIVERED"]
      BY <2>a, <3>1 DEF DeliveredIsReal
    <3>3. \A d \in DOMAIN cycles \ {c} : cycles[d].run[t] # cycles[c].run[t]
      BY <2>a, <3>1, <3>2 DEF RunsOfCycles
    <3> QED
      BY <3>1, <3>2, <3>3
  <2> QED
    BY <2>1 DEF CompletedIsDelivered
<1> QED
  BY Invariance, <1>1, PTL

\* table_state and sync_runs, written by separate statements, never contradict each
\* other while a table shows a sync in progress, a snapshot or a delivery.
THEOREM TableRowsAgree == Spec => []TableShowsLastRun
<1>1. InductiveInvariant => TableShowsLastRun
  BY DEF InductiveInvariant
<1> QED
  BY Invariance, <1>1, PTL

\* cleanup_failed_runs leaves the files of runs in progress and of the open cycle
\* alone, for as long as no process was killed.
THEOREM FilesStay == Spec => FilesAreKept
<1>1. ASSUME InductiveInvariant, CleanFailedRuns, crashes = 0, NEW r \in outbox \ outbox'
      PROVE  /\ \A p \in Syncers : Live(p) => own[p] # r
             /\ \A c \in OpenCycles : r \notin Range(cycles[c].run)
  <2>1. TypeOK /\ Undisturbed
    BY <1>1 DEF InductiveInvariant
  <2>2. runs[r].status = "FAILED" /\ r \notin Protected
    BY <1>1 DEF CleanFailedRuns, Removable
  <2>3. \A p \in Syncers : Live(p) => own[p] # r
    BY <1>1, <2>1, <2>2 DEF Undisturbed
  <2>4. ASSUME NEW c \in OpenCycles
        PROVE  r \notin Range(cycles[c].run)
    <3>1. DOMAIN cycles[c].run = Tables
      BY <2>1, CycleFields DEF OpenCycles
    <3> QED
      BY <2>2, <3>1 DEF Protected, Range
  <2> QED
    BY <2>3, <2>4
<1>2. InductiveInvariant /\ [Next]_vars =>
        [CleanFailedRuns /\ crashes = 0 =>
           \A r \in outbox \ outbox' :
             /\ \A p \in Syncers : Live(p) => own[p] # r
             /\ \A c \in OpenCycles : r \notin Range(cycles[c].run)]_vars
  BY <1>1
<1> QED
  BY Invariance, <1>2, PTL DEF Spec, FilesAreKept

-----------------------------------------------------------------------------
(* Refinement                                                                *)

InitialCount(S) == IF S = 1..Cardinality(S) THEN Cardinality(S) ELSE -1
CompletedCycles == {c \in DOMAIN cycles : cycles[c].status = "COMPLETED"}
Done == IF cycles = <<>> THEN 0 ELSE DeliveredCount
Progressing == <<OpenCycles # {}, Done, Cardinality(CompletedCycles)>>

\* An initial interval counts as its length.
LEMMA CountOfInterval ==
  ASSUME NEW k \in Nat
  PROVE  InitialCount(1..k) = k
<1>1. Cardinality(1..k) = k
  BY FS_Interval
<1> QED
  BY <1>1 DEF InitialCount

\* The delivered tables of the last cycle are counted as an initial interval.
LEMMA CountDelivered ==
  /\ DeliveredCount = InitialCount(DeliveredTables(Len(cycles)))
  /\ DeliveredCount' = InitialCount(DeliveredTables(Len(cycles))')
BY DEF DeliveredCount, InitialCount, DeliveredTables, Latest

\* A step that delivers no table and completes no cycle stutters in CycleProgress.
LEMMA SameProgress ==
  ASSUME DeliveredTables(Len(cycles))' = DeliveredTables(Len(cycles)), cycles # <<>>, cycles' # <<>>,
         OpenCycles' # {} <=> OpenCycles # {}, CompletedCycles' = CompletedCycles
  PROVE  UNCHANGED Progressing
<1>1. DeliveredCount' = DeliveredCount
  BY CountDelivered
<1> QED
  BY <1>1 DEF Progressing, Done

\* The current cycle's row is replaced by one that is still open.
LEMMA StillOpen ==
  ASSUME NEW row, CycleWrite(Len(cycles), row), row.status \in {"RUNNING", "RETRY_WAIT"}
  PROVE  /\ cycles # <<>> /\ cycles' # <<>>
         /\ OpenCycles # {} /\ OpenCycles' # {}
         /\ CompletedCycles' = CompletedCycles
<1>1. /\ Len(cycles) \in DOMAIN cycles /\ OpenCycles = {Len(cycles)} /\ DOMAIN cycles' = DOMAIN cycles
      /\ cycles'[Len(cycles)] = row /\ \A d \in DOMAIN cycles : d # Len(cycles) => cycles'[d] = cycles[d]
  BY DEF CycleWrite
<1>2. Len(cycles) \in OpenCycles' /\ cycles # <<>> /\ cycles' # <<>>
  BY <1>1 DEF OpenCycles
<1>3. Len(cycles) \notin CompletedCycles /\ Len(cycles) \notin CompletedCycles'
  BY <1>1 DEF OpenCycles, CompletedCycles
<1>4. CompletedCycles' = CompletedCycles
  BY <1>1, <1>3 DEF CompletedCycles
<1> QED
  BY <1>1, <1>2, <1>4

\* Every step maps to a step of CycleProgress, or to a stutter.
LEMMA ProgressStep ==
  ASSUME InductiveInvariant, [Next]_vars
  PROVE  [Progress!ProgressNext]_Progressing
<1>a. TypeOK /\ OwnRuns /\ WorkerPoint /\ OnlyLastOpen /\ InOrder
  BY DEF InductiveInvariant
<1>b. /\ Len(Captured) \in Nat /\ DOMAIN Captured = 1..Len(Captured)
      /\ Len(cycles) \in Nat /\ DOMAIN cycles = 1..Len(cycles)
  BY <1>a, CapturedTables DEF TypeOK, DatabaseType
<1>1. CASE UNCHANGED cycles
  BY <1>1 DEF Progressing, OpenCycles, Done, DeliveredCount, Latest, CompletedCycles
<1>2. CASE RecoverCycle
  <2>1. Len(cycles') = Len(cycles) /\ \A c \in DOMAIN cycles : cycles'[c].status = cycles[c].status
        /\ DOMAIN cycles' = DOMAIN cycles
    BY <1>2, <1>a, RecoverWrites
  <2>2. OpenCycles' = OpenCycles /\ CompletedCycles' = CompletedCycles
    BY <2>1 DEF OpenCycles, CompletedCycles
  <2>3. CASE cycles = <<>>
    <3>1. cycles' = cycles
      BY <2>1, <2>3, <1>2, <1>a, RecoverWrites
    <3> QED
      BY <3>1, <1>1
  <2>4. CASE cycles # <<>>
    <3>1. Len(cycles) \in DOMAIN cycles /\ cycles' # <<>>
      BY <1>a, <1>b, <2>1, <2>4 DEF TypeOK, DatabaseType
    <3>2. \A i \in DOMAIN Captured : Captured[i] \in Tables
      BY CapturedTables
    <3>3. DeliveredTables(Len(cycles))' = DeliveredTables(Len(cycles))
      BY <1>2, <1>a, <2>1, <3>1, <3>2, RecoverKeepsDelivered DEF DeliveredTables
    <3> QED
      BY <2>2, <2>4, <3>1, <3>3, SameProgress
  <2> QED
    BY <2>3, <2>4
<1>3. CASE OpenCycle
  <2>1. CASE /\ OpenCycles = {}
             /\ Len(cycles') = Len(cycles) + 1 /\ DOMAIN cycles' = DOMAIN cycles \cup {Len(cycles) + 1}
             /\ \A c \in DOMAIN cycles : cycles'[c] = cycles[c]
             /\ cycles'[Len(cycles) + 1] = NewCycle
    <3>1. \A i \in DOMAIN Captured : NewCycle.tables[Captured[i]] # "DELIVERED"
      BY CapturedTables DEF NewCycle
    <3>2. DeliveredTables(Len(cycles))' = 1..0 /\ cycles' # <<>>
      BY <1>b, <2>1, <3>1 DEF DeliveredTables
    <3>3. Done' = 0
      BY <3>2, CountDelivered, CountOfInterval DEF Done
    <3>4. NewCycle.status = "RUNNING"
      BY DEF NewCycle
    <3>5. OpenCycles' # {} /\ CompletedCycles' = CompletedCycles
      BY <1>b, <2>1, <3>4 DEF OpenCycles, CompletedCycles
    <3> QED
      BY <2>1, <3>3, <3>5 DEF Progress!ProgressNext, Progress!Open, CompletedCycles, Done
  <2> QED
    BY <1>1, <1>3, <1>a, <2>1, OpenCycleWrites
<1>4. CASE NextTable
  <2>1. pos \in DOMAIN Captured
    BY <1>4, <1>a, NextTableWrites
  <2>2. CASE /\ cycles[Len(cycles)].tables[Captured[pos]] # "DELIVERED"
             /\ CycleWrite(Len(cycles), Row("RUNNING", "RUNNING", cycles[Len(cycles)].run[Captured[pos]]))
    <3>1. DeliveredTables(Len(cycles))' = DeliveredTables(Len(cycles)) \ {pos}
      BY <1>a, <2>1, <2>2, DeliveredTablesChange
    <3>2. pos \notin DeliveredTables(Len(cycles))
      BY <2>2 DEF DeliveredTables
    <3>3. Row("RUNNING", "RUNNING", cycles[Len(cycles)].run[Captured[pos]]).status = "RUNNING"
      BY DEF Row
    <3> QED
      BY <2>2, <3>1, <3>2, <3>3, StillOpen, SameProgress
  <2> QED
    BY <1>1, <1>4, <1>a, <2>2, NextTableWrites
<1>5. CASE SettleTable
  <2>1. worker = "settle" /\ pos \in DOMAIN Captured /\ OpenCycles # {}
    BY <1>5, <1>a, SettleTableWrites DEF WorkerPoint
  <2>2. cycles # <<>>
    BY <2>1 DEF OpenCycles
  <2>3. PICK k \in 0..Len(Captured) : DeliveredTables(Len(cycles)) = 1..k /\ pos = k + 1
    BY <1>a, <2>1, <2>2 DEF InOrder
  <2>4. CASE CycleWrite(Len(cycles), Row(cycles[Len(cycles)].status, "DELIVERED", own[Worker]))
    <3>1. DeliveredTables(Len(cycles))' = 1..k \cup {pos}
      BY <1>a, <2>1, <2>3, <2>4, DeliveredTablesChange
    <3>2. 1..k \cup {pos} = 1..k + 1 /\ k \in Nat /\ k + 1 \in Nat /\ k < Len(Captured)
      BY <1>b, <2>1, <2>3
    <3>3. Row(cycles[Len(cycles)].status, "DELIVERED", own[Worker]).status \in {"RUNNING", "RETRY_WAIT"}
      BY <2>4 DEF Row, CycleWrite, OpenCycles
    <3>4. /\ cycles' # <<>> /\ OpenCycles' # {} /\ CompletedCycles' = CompletedCycles
      BY <2>4, <3>3, StillOpen
    <3>5. Done = k /\ Done' = k + 1
      BY <2>2, <2>3, <3>1, <3>2, <3>4, CountDelivered, CountOfInterval DEF Done
    <3> QED
      BY <2>1, <3>2, <3>4, <3>5 DEF Progress!ProgressNext, Progress!DeliverNext, CompletedCycles, Done
  <2>5. CASE \E r \in {0, own[Worker]} : CycleWrite(Len(cycles), Row("RETRY_WAIT", "FAILED", r))
    <3>1. DeliveredTables(Len(cycles))' = DeliveredTables(Len(cycles)) \ {pos}
      BY <1>a, <2>1, <2>5, DeliveredTablesChange
    <3>2. pos \notin DeliveredTables(Len(cycles))
      BY <2>3
    <3>3. \A r : Row("RETRY_WAIT", "FAILED", r).status = "RETRY_WAIT"
      BY DEF Row
    <3> QED
      BY <2>5, <3>1, <3>2, <3>3, StillOpen, SameProgress
  <2> QED
    BY <1>5, <1>a, <2>4, <2>5, SettleTableWrites
<1>6. CASE CheckCycle \/ Abandon
  <2>1. OpenCycles # {}
    BY <1>6, <1>a, CycleEndWrites
  <2>2. cycles # <<>>
    BY <2>1 DEF OpenCycles
  <2>3. ASSUME NEW s \in {"COMPLETED", "ABANDONED"},
               CycleWrite(Len(cycles), [status |-> s, tables |-> cycles[Len(cycles)].tables,
                                        run |-> cycles[Len(cycles)].run]),
               s = "COMPLETED" => AllDelivered
        PROVE  Progress!ProgressNext
    <3> DEFINE c == Len(cycles)
    <3>1. /\ c \in DOMAIN cycles /\ c = Current /\ OpenCycles = {c} /\ DOMAIN cycles' = DOMAIN cycles
          /\ Len(cycles') = Len(cycles)
          /\ \A d \in DOMAIN cycles : d # c => cycles'[d] = cycles[d]
          /\ cycles'[c].status = s /\ cycles'[c].tables = cycles[c].tables
      BY <2>3 DEF CycleWrite
    <3>2. OpenCycles' = {} /\ cycles' # <<>> /\ c \notin CompletedCycles
      BY <2>3, <3>1 DEF OpenCycles, CompletedCycles
    <3>3. DeliveredTables(Len(cycles))' = DeliveredTables(Len(cycles))
      BY <3>1 DEF DeliveredTables
    <3>4. Done' = Done
      BY <2>2, <3>2, <3>3, CountDelivered DEF Done
    <3> HIDE DEF c
    <3>5. CASE s = "ABANDONED"
      <4>1. CompletedCycles' = CompletedCycles
        BY <3>1, <3>2, <3>5 DEF CompletedCycles
      <4> QED
        BY <2>1, <3>2, <3>4, <4>1 DEF Progress!ProgressNext, Progress!Abandon, CompletedCycles, Done
    <3>6. CASE s = "COMPLETED"
      <4>1. CompletedCycles' = CompletedCycles \cup {c}
        BY <3>1, <3>6 DEF CompletedCycles
      <4>2. IsFiniteSet(CompletedCycles)
        <5>1. IsFiniteSet(1..Len(cycles))
          BY <1>b, FS_Interval
        <5>2. CompletedCycles \subseteq 1..Len(cycles)
          BY <1>b DEF CompletedCycles
        <5> QED
          BY <5>1, <5>2, FS_Subset
      <4>3. Cardinality(CompletedCycles)' = Cardinality(CompletedCycles) + 1
        <5> DEFINE S == CompletedCycles
        <5>1. c \notin S /\ IsFiniteSet(S)
          BY <3>2, <4>2
        <5> HIDE DEF S
        <5>2. Cardinality(S \cup {c}) = Cardinality(S) + 1
          BY <5>1, FS_AddElement
        <5> QED
          BY <4>1, <5>2 DEF S
      <4>4. DeliveredTables(Len(cycles)) = 1..Len(Captured)
        BY <1>b, <2>3, <3>1, <3>6 DEF AllDelivered, DeliveredTables, Range, c
      <4>5. Done = Len(Captured)
        BY <1>b, <2>2, <4>4, CountDelivered, CountOfInterval DEF Done
      <4> QED
        BY <2>1, <3>2, <3>4, <4>3, <4>5 DEF Progress!ProgressNext, Progress!Complete, CompletedCycles, Done
    <3> QED
      BY <3>5, <3>6
  <2> QED
    BY <1>1, <1>6, <1>a, <2>3, CycleEndWrites
<1>7. CASE UNCHANGED vars
  BY <1>1, <1>7 DEF vars
<1> QED
  BY <1>1, <1>2, <1>3, <1>4, <1>5, <1>6, <1>7, <1>a, NextCases, CyclesFrame

\* The worker's cycles, with every failure, kill and concurrent command, promise
\* what CycleProgress says: one at a time, tables in order, complete when all are
\* delivered, and nothing delivered is ever taken back.
THEOREM Refinement == Spec => ImplementsCycle
<1>1. Init => Progress!ProgressInit
  <2>1. ASSUME Init
        PROVE  OpenCycles = {} /\ CompletedCycles = {} /\ cycles = <<>>
    BY <2>1 DEF Init, OpenCycles, CompletedCycles
  <2>2. Cardinality({}) = 0
    BY FS_EmptySet
  <2> QED
    BY <2>1, <2>2 DEF Progress!ProgressInit, CompletedCycles
<1>2. InductiveInvariant /\ [Next]_vars =>
        [Progress!ProgressNext]_<<OpenCycles # {}, IF cycles = <<>> THEN 0 ELSE DeliveredCount,
           Cardinality({c \in DOMAIN cycles : cycles[c].status = "COMPLETED"})>>
  BY ProgressStep DEF Progressing, Done, CompletedCycles
<1> QED
  BY <1>1, <1>2, Invariance, PTL DEF Spec, ImplementsCycle, Progress!ProgressSpec
=============================================================================
