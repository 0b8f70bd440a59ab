---------------------------- MODULE MonitorReports ----------------------------
(***************************************************************************)
(* Run reports from the source to the destination's monitor: the reporter  *)
(* (source/monitor_report.py) pages through sync_runs with two durable     *)
(* cursors and uploads a report; the transfer loses, delays, repeats and   *)
(* reorders the files; monitor.db receives them in any order               *)
(* (monitor/store.py), and the stage progress they carry is merged after   *)
(* the transaction (monitor/progress.py). How the files are taken from the *)
(* incoming directory is module MonitorIngest.                             *)
(*                                                                         *)
(* A report is its index in reports. Source and destination have clocks of *)
(* their own, neither of which goes back, that count time in a unit in     *)
(* which two reports may have the same captured_at. A run has one Recorder *)
(* on the source, so its progress always is of generation 1 and of one     *)
(* attempt, and only its sequence is kept here.                            *)
(***************************************************************************)
EXTENDS Integers, Sequences, FiniteSets

CONSTANTS
  NumRuns,       \* runs, in the order of their run_id
  OldRuns,       \* runs created before the window of facts that are reported
  PageSize,      \* facts per report
  ProgressSize,  \* progress observations per report
  History,       \* history_days: the age at which reports and rows expire
  Future,        \* future_seconds: how far a report may be ahead of the destination
  MaxClock,      \* bound on the destination's clock
  MaxSourceClock,  \* bound on the source's clock
  MaxReports,    \* bound on reports
  MaxChanges,    \* bound on the statuses a run has
  MaxSequence    \* bound on progress samples of a run that is being delivered

ASSUME ReportsAssumption ==
  /\ NumRuns \in Nat \ {0}
  /\ OldRuns \subseteq 1..NumRuns
  /\ PageSize \in Nat \ {0} /\ ProgressSize \in Nat \ {0}
  /\ History \in Nat /\ Future \in Nat
  /\ MaxClock \in Nat /\ MaxSourceClock \in Nat /\ MaxReports \in Nat /\ MaxChanges \in Nat /\ MaxSequence \in Nat

VARIABLES
  life,        \* [Runs -> the statuses sync_runs.status has had, the present one last]
  progress,    \* [Runs -> the progress file of the run on the source]
  cursor,      \* run-cursor.json: the last run visited, 0 is ""
  progress_cursor,  \* progress-cursor.json
  unvisited,   \* [Runs -> pages since the facts cursor last passed the run]
  reports,     \* what the reporter put into its files
  accepted,    \* reports the relay has, which the transfer delivers any number of times
  rows,        \* source_runs: [Runs -> the merged fact]
  shown,       \* [Runs -> the place in life of the latest status ever shown]
  received,    \* content_receipts: the reports monitor.db has committed
  merging,     \* the report whose progress is still to be merged, 0 if none
  stages,      \* [Runs -> the merged progress]
  clock,       \* of the destination
  source_clock

source == <<life, progress>>
reporter == <<cursor, progress_cursor, unvisited, reports, accepted>>
monitor == <<rows, shown, received, merging, stages>>
clocks == <<clock, source_clock>>
vars == <<source, reporter, monitor, clocks>>

Runs == 1..NumRuns

Active == {"GENERATING", "UPLOADING", "FINALIZING"}
Failures == {"FAILED", "DISK_PRESSURE"}
Statuses == Active \cup Failures \cup {"SNAPSHOT_READY", "DELIVERED"}
Rank == [s \in Statuses |->
           CASE s = "GENERATING" -> 0 [] s = "SNAPSHOT_READY" -> 1 [] s = "UPLOADING" -> 2
             [] s = "FINALIZING" -> 3 [] s \in Failures -> 4 [] s = "DELIVERED" -> 5]
NoProgress == [sequence |-> 0, state |-> "RUNNING"]
NoRow == [status |-> "GENERATING", turn |-> 0, captured |-> 0, received |-> 0, conflicts |-> {}]
Exists(r) == life[r] # <<>>
Status(r) == life[r][Len(life[r])]

\* A run may have been in a status for long when the model starts, and the cursors may
\* be anywhere; runs with a later run_id are created later.
Init ==
  /\ life \in [Runs -> {<<>>} \cup {<<s>> : s \in Statuses}]
  /\ \A q, r \in Runs : q < r /\ Exists(r) => Exists(q)
  /\ \A r \in OldRuns : Exists(r) /\ Status(r) \notin Active
  /\ progress = [r \in Runs |-> NoProgress]
  /\ cursor \in {0} \cup {r \in Runs : Exists(r)}
  /\ progress_cursor = cursor
  /\ unvisited = [r \in Runs |-> 0]
  /\ reports = <<>> /\ accepted = {}
  /\ rows = [r \in Runs |-> NoRow] /\ shown = [r \in Runs |-> 0]
  /\ received = {} /\ merging = 0
  /\ stages = [r \in Runs |-> NoProgress]
  /\ clock = 0 /\ source_clock = 0

-------------------------------------------------------------------------------
(* The source: runs and the samples of their Recorder                        *)

\* What the sync and snapshot commands make of a run's status. The cleanup of a
\* delivered run may still raise and fail it.
Following(s) ==
  CASE s = "GENERATING" -> {"UPLOADING", "SNAPSHOT_READY"} \cup Failures
    [] s = "UPLOADING" -> {"FINALIZING"} \cup Failures
    [] s = "FINALIZING" -> {"SNAPSHOT_READY", "DELIVERED", "FAILED"}
    [] s = "SNAPSHOT_READY" -> {"FINALIZING", "FAILED"}
    [] s = "DELIVERED" -> {"FAILED"}
    [] OTHER -> {}

\* Recorder.update: a final state stays, and only a stage that began is interrupted.
Sampled(p, state) ==
  IF \/ state = "INTERRUPTED" /\ p = NoProgress
     \/ p.state # "RUNNING" /\ state # p.state
  THEN p
  ELSE [sequence |-> p.sequence + 1, state |-> state]

BeginRun(r) ==
  /\ ~Exists(r)
  /\ \A q \in Runs : q < r => Exists(q)
  /\ MaxChanges > 0
  /\ life' = [life EXCEPT ![r] = <<"GENERATING">>]
  /\ UNCHANGED <<progress, reporter, monitor, clocks>>

\* A failing sync interrupts the stage before it records the failure.
ChangeStatus(r) ==
  /\ Exists(r) /\ r \notin OldRuns
  /\ Len(life[r]) < MaxChanges
  /\ \E s \in Following(Status(r)) :
       /\ life' = [life EXCEPT ![r] = Append(@, s)]
       /\ progress' = IF s \in Failures
                      THEN [progress EXCEPT ![r] = Sampled(@, "INTERRUPTED")]
                      ELSE progress
  /\ UNCHANGED <<reporter, monitor, clocks>>

Sample(r) ==
  /\ Exists(r) /\ r \notin OldRuns
  /\ \/ /\ Status(r) \in {"UPLOADING", "FINALIZING"}
        /\ progress[r].sequence < MaxSequence
        /\ progress' = [progress EXCEPT ![r] = Sampled(@, "RUNNING")]
     \/ /\ Status(r) = "DELIVERED" /\ progress[r].state = "RUNNING"
        /\ progress' = [progress EXCEPT ![r] = Sampled(@, "COMPLETE")]
  /\ UNCHANGED <<life, reporter, monitor, clocks>>

\* Either clock goes on, whatever the other shows.
Tick ==
  /\ \/ clock < MaxClock /\ clock' = clock + 1 /\ UNCHANGED source_clock
     \/ source_clock < MaxSourceClock /\ source_clock' = source_clock + 1 /\ UNCHANGED clock
  /\ UNCHANGED <<source, reporter, monitor>>

-------------------------------------------------------------------------------
(* The reporter                                                              *)

RowsAfter_Inclusive(c) == {r \in Runs : Exists(r) /\ r >= c}
\* The rows after a cursor: at the end of the table it starts again at the beginning.
RowsAfter(c) ==
  LET after == {r \in Runs : Exists(r) /\ r > c}
  IN IF after = {} THEN {r \in Runs : Exists(r)} ELSE after

\* A page is the rows up to the last one visited; 0 if it is empty.
Page(c, last) == {r \in RowsAfter(c) : r <= last}

\* It ends when it has enough facts of recent runs, or anywhere before that when the
\* query's budget of time or rows is spent.
Ends(c) ==
  {0} \cup {last \in RowsAfter(c) :
              Cardinality({r \in Page(c, last) \ OldRuns : r < last}) < PageSize}

CursorAfter_Next(c, last) == IF last = 0 THEN c ELSE last + 1
\* The cursor of a page. Of a page that visited nothing it is left alone.
CursorAfter(c, last) == IF last = 0 THEN c ELSE last

\* The runs whose progress files are looked at until ProgressSize of them have one.
Looked(page) ==
  {r \in page \ OldRuns :
     Cardinality({q \in page \ OldRuns : q < r /\ progress[q] # NoProgress}) < ProgressSize}

\* The progress cursor goes to the last run looked at.
ProgressCursorsAfter(c, last) ==
  LET looked == Looked(Page(c, last))
  IN IF looked = {} THEN {CursorAfter(c, last)} ELSE {r \in looked : \A q \in looked : q <= r}

\* report(): facts, progress, upload, cursors. The relay may have the file although
\* its answer is lost; a kill comes after the upload and before the cursors are saved.
Report ==
  /\ Len(reports) < MaxReports
  /\ \E last \in Ends(cursor), observed \in Ends(progress_cursor),
        outcome \in {"accepted", "unanswered", "refused", "killed"} :
       LET page == Page(cursor, last)
           looked == {r \in Looked(Page(progress_cursor, observed)) : progress[r] # NoProgress}
       IN /\ reports' = Append(reports,
               [captured |-> source_clock,
                facts |-> [r \in page \ OldRuns |-> [status |-> Status(r), turn |-> Len(life[r])]],
                progress |-> [r \in looked |-> progress[r]]])
          /\ accepted' = IF outcome = "refused" THEN accepted ELSE accepted \cup {Len(reports) + 1}
          /\ IF outcome = "killed"
             THEN UNCHANGED <<cursor, unvisited>>
             ELSE /\ cursor' = CursorAfter(cursor, last)
                  /\ unvisited' = [r \in Runs |->
                       IF last = 0 \/ ~Exists(r) THEN unvisited[r]
                       ELSE IF r \in page THEN 0 ELSE unvisited[r] + 1]
          /\ progress_cursor' \in IF outcome = "accepted"
                                  THEN ProgressCursorsAfter(progress_cursor, observed)
                                  ELSE {progress_cursor}
  /\ UNCHANGED <<source, monitor, clocks>>

-------------------------------------------------------------------------------
(* monitor.db                                                                *)

InWindow(captured) == captured >= clock - History /\ captured <= clock + Future
Duplicate(i) == \E j \in received : reports[j] = reports[i]

Adopted_SameSecond(row, fact, captured) == captured >= row.captured
\* merge_run on one field, the status. A differing status is adopted if it was captured
\* later and does not rank lower.
Adopted(row, fact, captured) ==
  captured > row.captured /\ Rank[fact.status] >= Rank[row.status]

Conflict_AnyOrder(row, fact, captured) == {"status_regression"}
Conflict(row, fact, captured) ==
  IF captured = row.captured THEN {"status"}
  ELSE IF captured > row.captured /\ Rank[fact.status] < Rank[row.status]
  THEN {"status_regression"}
  ELSE {}

Later(a, b) == IF a < b THEN b ELSE a

Merged(row, fact, captured) ==
  LET seen == [row EXCEPT !.captured = Later(@, captured), !.received = Later(@, clock)]
  IN IF row = NoRow
     THEN [status |-> fact.status, turn |-> fact.turn, captured |-> captured, received |-> clock,
           conflicts |-> {}]
     ELSE IF fact.status = row.status THEN seen
     ELSE IF Adopted(row, fact, captured)
     THEN [seen EXCEPT !.status = fact.status, !.turn = fact.turn]
     ELSE [seen EXCEPT !.conflicts = @ \cup Conflict(row, fact, captured)]

\* store.ingest: one transaction. A report the monitor has already is a duplicate.
Ingest(i) ==
  /\ merging = 0
  /\ InWindow(reports[i].captured)
  /\ ~Duplicate(i)
  /\ rows' = [r \in Runs |-> IF r \in DOMAIN reports[i].facts
                             THEN Merged(rows[r], reports[i].facts[r], reports[i].captured)
                             ELSE rows[r]]
  /\ shown' = [r \in Runs |-> Later(shown[r], rows'[r].turn)]
  /\ received' = received \cup {i}
  /\ merging' = i
  /\ UNCHANGED <<source, reporter, stages, clocks>>

Superseded_Never(prior, observed) == FALSE
\* merge_received, after the transaction.
Superseded(prior, observed) == observed.sequence <= prior.sequence

MergeProgress ==
  /\ merging # 0
  /\ LET observed == reports[merging].progress
     IN stages' = [r \in Runs |->
          IF r \notin DOMAIN observed \/ Superseded(stages[r], observed[r]) THEN stages[r]
          ELSE observed[r]]
  /\ merging' = 0
  /\ UNCHANGED <<source, reporter, rows, shown, received, clocks>>

\* The process dies between the two, or the progress file is not written. The report
\* is a duplicate from then on.
MergeIsLost ==
  /\ merging # 0
  /\ merging' = 0
  /\ UNCHANGED <<source, reporter, rows, shown, received, stages, clocks>>

\* store.retention on source_runs.
ExpireRow(r) ==
  /\ merging = 0
  /\ rows[r] # NoRow /\ rows[r].received < clock - History
  /\ rows' = [rows EXCEPT ![r] = NoRow]
  /\ UNCHANGED <<source, reporter, shown, received, merging, stages, clocks>>

Next ==
  \/ \E r \in Runs : BeginRun(r) \/ ChangeStatus(r) \/ Sample(r) \/ ExpireRow(r)
  \/ Tick
  \/ Report
  \/ \E i \in accepted : Ingest(i)
  \/ MergeProgress \/ MergeIsLost

Spec == Init /\ [][Next]_vars

-------------------------------------------------------------------------------
(* Properties                                                                *)

StageStates == {"RUNNING", "COMPLETE", "INTERRUPTED"}
Progresses == [sequence : Nat, state : StageStates]

TypeOK ==
  /\ life \in [Runs -> Seq(Statuses)]
  /\ progress \in [Runs -> Progresses] /\ stages \in [Runs -> Progresses]
  /\ {cursor, progress_cursor} \subseteq 0..NumRuns
  /\ unvisited \in [Runs -> Nat] /\ shown \in [Runs -> Nat]
  /\ accepted \cup received \subseteq DOMAIN reports
  /\ merging \in {0} \cup received
  /\ rows \in [Runs -> [status : Statuses, turn : Nat, captured : Nat, received : Nat,
                        conflicts : SUBSET {"status", "status_regression"}]]
  /\ clock \in Nat /\ source_clock \in Nat

\* The status the monitor shows of a run never goes back to an earlier one while it keeps
\* the row, whatever is delayed, repeated or reordered. Of a row that expired only a report
\* brings back an earlier status that was captured less than Future after the oldest moment
\* still accepted, because the row itself may have been captured ahead of this clock: with
\* clocks that agree, none (merge_run, the window of ingest, retention).
GoesBackOnlyWithinSkew ==
  [][\A r \in Runs : rows'[r] # NoRow =>
       \/ rows'[r].turn >= IF rows[r] # NoRow THEN rows[r].turn ELSE shown[r]
       \/ /\ rows[r] = NoRow
          /\ clock - History <= rows'[r].captured
          /\ rows'[r].captured < clock - History + Future]_vars

\* A regression is flagged only if the run really left a status for one of a lower rank,
\* a conflict only if it had two statuses: never because reports overtook each other.
ConflictsAreReal ==
  \A r \in Runs :
    /\ "status_regression" \in rows[r].conflicts =>
         \E i, j \in DOMAIN life[r] : i < j /\ Rank[life[r][j]] < Rank[life[r][i]]
    /\ "status" \in rows[r].conflicts => Len(life[r]) > 1

\* Every run is passed by the facts cursor again before it has passed every other run
\* once more, also when runs are added, pages are cut short and uploads fail (run_facts,
\* save_run_cursor).
RotationVisitsAll ==
  \A r \in Runs : unvisited[r] < NumRuns

\* What the monitor shows of a run's progress never goes back: not to an earlier sample
\* and not out of a final state (merge_received).
ProgressNeverBack ==
  [][\A r \in Runs : /\ stages'[r].sequence >= stages[r].sequence
                     /\ stages[r].state # "RUNNING" => stages'[r].state = stages[r].state]_vars
===============================================================================
