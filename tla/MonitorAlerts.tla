---------------------------- MODULE MonitorAlerts ----------------------------
(***************************************************************************)
(* The alerts of the destination's monitor (monitor/alerts.py): rounds of  *)
(* evaluation turn the latest sample of a source node, the runs and        *)
(* versions in the destination database, and the files in the incoming     *)
(* directory into decisions, and apply() turns decisions into alerts that  *)
(* open, recover, are disabled by a change of the rules, and expire.       *)
(* Evidence is late, families of rules fail, rounds are cut short by a     *)
(* kill, and recovery and scan go through their objects in pages.          *)
(*                                                                         *)
(* The alerts here are the heartbeat and the worker alert of one node, the *)
(* freshness and the run alert of one table, and one alert for every run   *)
(* in the incoming directory. The rules for disks, runs, cycles and the    *)
(* version of a source read the sample as the worker rule does. A round    *)
(* takes less than a unit of time.                                         *)
(***************************************************************************)
EXTENDS Integers, FiniteSets, FiniteSetsExt

CONSTANTS
  Runs,          \* runs the transfer brings into the incoming directory
  History, Future,  \* history_days and future_seconds of monitor_ingest: the samples accepted
  FreshFuture,   \* future_seconds of monitor_alerts: how far ahead a sample still is fresh
  Thresholds,    \* values of heartbeat_warning_seconds; a change of it is a change of the rules
  Overdue,       \* freshness_warning_seconds
  Grace,         \* first_heartbeat_grace_seconds
  Settle,        \* incoming_settle_seconds
  Stale,         \* incoming_stale_seconds
  RecoveryPage,  \* open alerts looked up per round
  Retention,     \* recovered_retention_days
  MaxClock,      \* bound on time
  MaxEvents,     \* bound on samples received and changes of files
  MaxTroubles    \* bound on changes of the rules, families that fail, and kills

Heartbeat == "SOURCE_HEARTBEAT"
WorkerRule == "SOURCE_WORKER"
SourceRules == {Heartbeat, WorkerRule}
Freshness == "FRESHNESS"
RunRule == "DESTINATION_RUN"
TableRules == {Freshness, RunRule}
Fingerprints == SourceRules \cup TableRules \cup Runs

\* A fingerprint is a digest of the rule and its object: those of runs are their own.
ASSUME AlertsAssumption ==
  /\ Runs \cap (SourceRules \cup TableRules) = {}
  /\ Thresholds \subseteq Nat \ {0} /\ Thresholds # {}
  /\ History \in Nat /\ Future \in Nat /\ FreshFuture \in Nat
  /\ Overdue \in Nat /\ Grace \in Nat /\ Settle \in Nat /\ Stale \in Nat /\ Retention \in Nat
  /\ RecoveryPage \in Nat \ {0}
  /\ MaxClock \in Nat /\ MaxEvents \in Nat /\ MaxTroubles \in Nat

VARIABLES
  clock,
  latest,     \* nodes.latest_hash: the sample with the greatest (captured, hash)
  files,      \* [Runs -> "absent", "partial" or "complete"]
  known,      \* runs with metadata in the destination database
  version,    \* the latest version of the table: when its snapshot was made, when it was verified
  business,   \* the latest run of the table: its status and updated_at
  threshold,  \* the configured rules; Off if monitor_alerts is omitted
  rules,      \* alert_state rule-config: the rules of the last round, Off if none
  expected,   \* alert_state expected-source: when the node was first missed, NoTime if never
  noted,      \* alert_state incoming: when the run's files were first seen as they are
  recovery,   \* alert_state incoming-recovery-cursor
  scanning,   \* runs the open directory iterator has still to return
  alert,      \* [Fingerprints -> the last alert of it]
  ids,        \* alerts of incoming runs inserted
  pc,         \* the family the round comes to, "idle" between rounds
  failed,     \* the families that failed in this round
  events, troubles

inputs == <<clock, latest, files, known, version, business, threshold>>
state == <<rules, expected, noted, recovery, scanning>>
counters == <<events, troubles>>
vars == <<inputs, state, alert, ids, pc, failed, counters>>

Off == 0
NoTime == -1
NoSample == [captured |-> NoTime, hash |-> 0, worker |-> "UNKNOWN"]
NoVersion == [created |-> NoTime, verified |-> NoTime, run |-> 0]
NoBusiness == [status |-> "none", updated |-> NoTime, run |-> 0]
NoAlert == [status |-> "none", observed |-> NoTime, evidence |-> 0, recovered |-> NoTime,
            evaluation |-> "UNKNOWN", id |-> 0]
IsOpen(f) == alert[f].status = "OPEN"

Init ==
  /\ clock = 0
  /\ latest = NoSample
  /\ files = [r \in Runs |-> "absent"]
  /\ known = {}
  /\ version = NoVersion /\ business = NoBusiness
  /\ threshold \in Thresholds
  /\ rules = Off /\ expected = NoTime
  /\ noted = [r \in Runs |-> NoTime]
  /\ recovery = 0 /\ scanning = {}
  /\ alert = [f \in Fingerprints |-> NoAlert] /\ ids = 0
  /\ pc = "idle" /\ failed = {}
  /\ events = 0 /\ troubles = 0

-------------------------------------------------------------------------------
(* What the rounds look at                                                   *)

Tick ==
  /\ pc = "idle"
  /\ clock < MaxClock
  /\ clock' = clock + 1
  /\ UNCHANGED <<latest, files, known, version, business, threshold, state, alert, ids, pc, failed, counters>>

\* Any sample of the window of acceptance may come at any time, also one that was held up
\* for long or is ahead of the destination's clock. Only one that is later than the latest
\* counts, and of two of the same second the one with the greater hash.
Newer(sample) ==
  \/ sample.captured > latest.captured
  \/ sample.captured = latest.captured /\ sample.hash > latest.hash

ReceiveSample ==
  /\ pc = "idle"
  /\ events < MaxEvents
  /\ events' = events + 1
  /\ \E sample \in [captured : ((clock - History)..(clock + Future)) \cap Nat, hash : {1, 2},
                    worker : {"RUNNING", "STOPPED", "UNKNOWN"}] :
       /\ Newer(sample)
       /\ latest' = sample
  /\ UNCHANGED <<clock, files, known, version, business, threshold, state, alert, ids, pc, failed, troubles>>

\* The files of a run come, are still written, are complete, and go. Whatever was noted
\* of them no longer matches.
FilesChange(r) ==
  /\ events < MaxEvents
  /\ events' = events + 1
  /\ \E s \in {"absent", "partial", "complete"} \ {files[r]} : files' = [files EXCEPT ![r] = s]
  /\ noted' = [noted EXCEPT ![r] = NoTime]
  /\ UNCHANGED <<clock, latest, known, version, business, threshold, rules, expected, recovery, scanning, alert, ids,
                 pc, failed, troubles>>

\* The destination worker registers the run.
Register(r) ==
  /\ files[r] = "complete" /\ r \notin known
  /\ known' = known \cup {r}
  /\ UNCHANGED <<clock, latest, files, version, business, threshold, state, alert, ids, pc, failed, counters>>

\* The destination works on the latest run of the table, tries it again, or a newer run
\* comes. updated_at has microseconds: here it is the number of the change. Snapshots may
\* have been made long before they are verified.
Work ==
  /\ events < MaxEvents
  /\ events' = events + 1
  /\ \/ /\ business' = [status |-> "VALIDATED", updated |-> events', run |-> business.run + 1]
        /\ UNCHANGED version
     \/ /\ business # NoBusiness
        /\ \E s \in {"IMPORTING", "FAILED"} \ {business.status} :
             /\ s = "IMPORTING" => business.run # version.run
             /\ business' = [business EXCEPT !.status = s, !.updated = events']
        /\ UNCHANGED version
     \/ /\ business # NoBusiness /\ business.run # version.run
        /\ business' = [business EXCEPT !.status = "VERIFIED", !.updated = events']
        /\ \E created \in 0..clock :
             /\ created > version.created
             /\ version' = [created |-> created, verified |-> events', run |-> business.run]
  /\ UNCHANGED <<clock, latest, files, known, threshold, state, alert, ids, pc, failed, troubles>>

\* The monitor is restarted with other rules, or without.
Reconfigure ==
  /\ pc = "idle"
  /\ troubles < MaxTroubles
  /\ troubles' = troubles + 1
  /\ threshold' \in (Thresholds \cup {Off}) \ {threshold}
  /\ scanning' = {}
  /\ UNCHANGED <<clock, latest, files, known, version, business, rules, expected, noted, recovery, alert, ids, pc,
                 failed, events>>

-------------------------------------------------------------------------------
(* apply()                                                                   *)

Suppressed_Always(last, d) ==
  last.status = "RECOVERED" /\ d.observed <= last.observed

\* The evidence that proved a recovery cannot open the alert again, except that a
\* heartbeat or a version becomes overdue by itself, in a later round.
Suppressed(last, d) ==
  /\ d.observed # NoTime
  /\ last.status = "RECOVERED" /\ last.observed # NoTime
  /\ d.observed <= last.observed
  /\ ~(d.rule \in {Heartbeat, Freshness} /\ d.observed = last.observed /\ d.evidence = last.evidence)

\* Evidence that does not supersede what opened the alert.
Outdated(last, d) ==
  /\ d.rule \in SourceRules \cup TableRules
  /\ d.observed # NoTime /\ last.observed # NoTime
  /\ d.observed <= last.observed
  /\ d.evidence # last.evidence

Applied(last, d, id) ==
  CASE d.state = "UNKNOWN" ->
         IF last.status = "OPEN" THEN [last EXCEPT !.evaluation = "UNKNOWN"] ELSE last
    [] d.state = "TRUE" /\ last.status = "OPEN" ->
         IF d.observed # NoTime /\ last.observed # NoTime /\ d.observed < last.observed THEN last
         ELSE [last EXCEPT !.observed = d.observed, !.evidence = d.evidence, !.evaluation = "TRUE"]
    [] d.state = "TRUE" /\ last.status # "OPEN" ->
         IF Suppressed(last, d) THEN last
         ELSE [status |-> "OPEN", observed |-> d.observed, evidence |-> d.evidence,
               recovered |-> NoTime, evaluation |-> "TRUE", id |-> id]
    [] d.state = "FALSE" ->
         IF last.status # "OPEN" \/ Outdated(last, d) THEN last
         ELSE [last EXCEPT !.status = "RECOVERED", !.observed = d.observed,
                           !.evidence = d.evidence, !.recovered = clock, !.evaluation = "FALSE"]

\* The decisions of a family, at most one of which opens an alert of a run.
ApplyAll(decisions) ==
  /\ alert' = [f \in Fingerprints |->
       IF f \in DOMAIN decisions THEN Applied(alert[f], decisions[f], ids + 1) ELSE alert[f]]
  /\ ids' = IF \E r \in Runs : alert'[r].id > ids THEN ids + 1 ELSE ids

Unavailable(last) == IF last.status = "OPEN" THEN [last EXCEPT !.evaluation = "UNKNOWN"] ELSE last

Disabled(f) ==
  IF IsOpen(f)
  THEN [alert[f] EXCEPT !.status = "DISABLED", !.recovered = clock, !.evaluation = "UNKNOWN"]
  ELSE alert[f]

-------------------------------------------------------------------------------
(* A round                                                                   *)

BeginRound ==
  /\ pc = "idle"
  /\ IF threshold = Off
     THEN /\ alert' = [f \in Fingerprints |-> Disabled(f)]
          /\ UNCHANGED <<rules, pc>>
     ELSE /\ alert' = [f \in Fingerprints |->
                         IF rules # Off /\ rules # threshold THEN Disabled(f) ELSE alert[f]]
          /\ rules' = threshold
          /\ pc' = "source"
  /\ failed' = {}
  /\ UNCHANGED <<inputs, expected, noted, recovery, scanning, ids, counters>>

Age == clock - latest.captured
Fresh == -FreshFuture <= Age /\ Age <= threshold

\* _source_decisions for the node, or for an expected node that was never seen.
Missed == IF latest = NoSample /\ expected = NoTime THEN clock ELSE expected

HeartbeatDecision ==
  IF latest = NoSample
  THEN [rule |-> Heartbeat, observed |-> NoTime, evidence |-> 0,
        state |-> IF clock - Missed > Grace THEN "TRUE" ELSE "UNKNOWN"]
  ELSE [rule |-> Heartbeat, observed |-> latest.captured, evidence |-> latest.hash,
        state |-> IF Age > threshold THEN "TRUE" ELSE "FALSE"]

WorkerDecision ==
  [rule |-> WorkerRule, observed |-> latest.captured, evidence |-> latest.hash,
   state |-> IF ~Fresh THEN "UNKNOWN"
             ELSE CASE latest.worker = "STOPPED" -> "TRUE" [] latest.worker = "RUNNING" -> "FALSE"
                    [] latest.worker = "UNKNOWN" -> "UNKNOWN"]

SourceDecisions ==
  [f \in IF latest = NoSample THEN {Heartbeat} ELSE SourceRules |->
     IF f = Heartbeat THEN HeartbeatDecision ELSE WorkerDecision]

EvaluateSource ==
  /\ pc = "source"
  /\ expected' = Missed
  /\ ApplyAll(SourceDecisions)
  /\ pc' = "rds"
  /\ UNCHANGED <<inputs, rules, noted, recovery, scanning, failed, counters>>

Pending_FirstPage ==
  LET opened == {r \in Runs : IsOpen(r)}
  IN {r \in opened : Cardinality({q \in opened : alert[q].id < alert[r].id}) < RecoveryPage}

\* The open alerts of incoming runs to look up: the next after the cursor, or the first.
Pending ==
  LET opened == {r \in Runs : IsOpen(r)}
      after == {r \in opened : alert[r].id > recovery}
      among == IF after = {} THEN opened ELSE after
  IN {r \in among : Cardinality({q \in among : alert[q].id < alert[r].id}) < RecoveryPage}

RecoveryAfter_Next(pending) == IF pending = {} THEN recovery ELSE Max({alert[r].id : r \in pending}) + 1
RecoveryAfter(pending) == IF pending = {} THEN recovery ELSE Max({alert[r].id : r \in pending})

\* A table that was never verified has no freshness; with newer evidence that is overdue
\* already the alert stays open.
FreshnessDecision ==
  [rule |-> Freshness, observed |-> version.verified, evidence |-> version.run,
   state |-> IF version = NoVersion THEN "UNKNOWN"
             ELSE IF clock - version.created > Overdue THEN "TRUE" ELSE "FALSE"]

\* The latest run of a table may have failed, be verified, or be on its way.
BusinessDecision ==
  [rule |-> RunRule, observed |-> business.updated, evidence |-> business.run,
   state |-> CASE business.status = "FAILED" -> "TRUE" [] business.status = "VERIFIED" -> "FALSE"
               [] OTHER -> "UNKNOWN"]

\* For a run the time and the kind of the evidence decide nothing once it is known.
RunDecision(supports, observed) ==
  [rule |-> "INCOMING_STALE", state |-> supports, observed |-> observed, evidence |-> 0]

\* monitoring_known_run_ids
KnownPending == Pending \cap known

RdsDecisions ==
  [f \in TableRules \cup KnownPending |->
     IF f = Freshness THEN FreshnessDecision
     ELSE IF f = RunRule THEN BusinessDecision
     ELSE RunDecision("FALSE", clock)]

EvaluateRds ==
  /\ pc = "rds"
  /\ ApplyAll(RdsDecisions)
  /\ recovery' = RecoveryAfter(Pending)
  /\ pc' = "incoming"
  /\ UNCHANGED <<inputs, rules, expected, noted, scanning, failed, counters>>

\* The scanner's iterator is kept; a new one starts when a round finds it exhausted. A
\* round looks at one manifest.
Present == {r \in Runs : files[r] # "absent"}
Listed == IF scanning = {} THEN Present ELSE scanning

\* A complete set of files that was complete, and the same, in an earlier round.
IncomingDecision(r) ==
  IF r \in known THEN RunDecision("FALSE", clock)
  ELSE RunDecision(IF clock - noted[r] > Stale THEN "TRUE" ELSE "UNKNOWN", noted[r])

EvaluateIncoming ==
  /\ pc = "incoming"
  /\ \/ /\ Listed = {}
        /\ UNCHANGED <<scanning, noted, alert, ids>>
     \/ \E r \in Listed :
          /\ scanning' = Listed \ {r}
          /\ noted' = IF files[r] = "complete" /\ noted[r] = NoTime
                      THEN [noted EXCEPT ![r] = clock] ELSE noted
          /\ IF files[r] = "complete" /\ noted[r] # NoTime /\ clock - noted[r] >= Settle
             THEN ApplyAll([f \in {r} |-> IncomingDecision(f)])
             ELSE UNCHANGED <<alert, ids>>
  /\ pc' = "retention"
  /\ UNCHANGED <<inputs, rules, expected, recovery, failed, counters>>

\* Closed alerts expire, open ones do not; nor does what was noted of the files of a run
\* with an open one.
Expired_Any(f) == alert[f].recovered < clock - Retention
Expired(f) == alert[f].status \in {"RECOVERED", "DISABLED"} /\ alert[f].recovered < clock - Retention

Expire ==
  /\ pc = "retention"
  /\ alert' = [f \in Fingerprints |-> IF Expired(f) THEN NoAlert ELSE alert[f]]
  /\ noted' = [r \in Runs |->
       IF noted[r] < clock - Retention /\ ~IsOpen(r) THEN NoTime ELSE noted[r]]
  /\ pc' = "idle"
  /\ UNCHANGED <<inputs, rules, expected, recovery, scanning, ids, failed, counters>>

\* The order of a family's decisions.
Earlier(g, f) ==
  \/ <<g, f>> \in {<<Heartbeat, WorkerRule>>, <<Freshness, RunRule>>}
  \/ g \in TableRules /\ f \in Runs

\* A family fails after some of its decisions; all its open alerts become UNKNOWN. Its
\* cursor, or the time a node was missed, is saved before the first of them. The incoming
\* family has one decision; if it cannot ask the database that is UNKNOWN too.
FamilyFails ==
  /\ pc \in {"source", "rds", "incoming"}
  /\ troubles < MaxTroubles
  /\ troubles' = troubles + 1
  /\ failed' = failed \cup {pc}
  /\ LET family == CASE pc = "source" -> SourceRules [] pc = "rds" -> TableRules \cup Runs
                    [] pc = "incoming" -> Runs
         decisions == CASE pc = "source" -> SourceDecisions [] pc = "rds" -> RdsDecisions
                        [] pc = "incoming" -> <<>>
     IN \E done \in SUBSET DOMAIN decisions :
          /\ \A f \in done, g \in DOMAIN decisions : Earlier(g, f) => g \in done
          /\ alert' = [f \in Fingerprints |->
               IF f \in done THEN Unavailable(Applied(alert[f], decisions[f], ids + 1))
               ELSE IF f \in family THEN Unavailable(alert[f])
               ELSE alert[f]]
          /\ expected' \in IF pc = "source" THEN {Missed} \cup (IF done = {} THEN {expected} ELSE {})
                           ELSE {expected}
          /\ recovery' \in IF pc = "rds"
                           THEN {RecoveryAfter(Pending)} \cup (IF done \cap Runs = {} THEN {recovery} ELSE {})
                           ELSE {recovery}
  /\ scanning' \in IF pc = "incoming" THEN {scanning} \cup {Listed \ {r} : r \in Listed}
                   ELSE {scanning}
  /\ pc' = CASE pc = "source" -> "rds" [] pc = "rds" -> "incoming" [] pc = "incoming" -> "retention"
  /\ UNCHANGED <<inputs, rules, noted, ids, events>>

Kill ==
  /\ pc # "idle"
  /\ troubles < MaxTroubles
  /\ troubles' = troubles + 1
  /\ pc' = "idle"
  /\ scanning' = {}
  /\ UNCHANGED <<inputs, rules, expected, noted, recovery, alert, ids, failed, events>>

Round == BeginRound \/ EvaluateSource \/ EvaluateRds \/ EvaluateIncoming \/ Expire

Next ==
  \/ Tick \/ ReceiveSample \/ Work \/ Reconfigure
  \/ \E r \in Runs : FilesChange(r) \/ Register(r)
  \/ Round \/ FamilyFails \/ Kill

Spec == Init /\ [][Next]_vars
FairSpec == Spec /\ WF_vars(Round)

-------------------------------------------------------------------------------
(* Properties                                                                *)

Times == {NoTime} \cup Nat

TypeOK ==
  /\ clock \in 0..MaxClock
  /\ latest \in [captured : Times, hash : 0..2, worker : {"RUNNING", "STOPPED", "UNKNOWN"}]
  /\ version \in [created : Times, verified : Times, run : Nat]
  /\ business \in [status : {"none", "VALIDATED", "IMPORTING", "FAILED", "VERIFIED"},
                   updated : Times, run : Nat]
  /\ latest.captured <= clock + Future /\ version.created <= clock
  /\ files \in [Runs -> {"absent", "partial", "complete"}]
  /\ known \subseteq Runs /\ scanning \subseteq Runs
  /\ {threshold, rules} \subseteq Thresholds \cup {Off}
  /\ expected \in Times /\ noted \in [Runs -> Times] /\ ids \in Nat /\ recovery \in 0..ids
  /\ alert \in [Fingerprints -> [status : {"none", "OPEN", "RECOVERED", "DISABLED"},
                                 observed : Times, evidence : Nat, recovered : Times,
                                 evaluation : {"TRUE", "FALSE", "UNKNOWN"}, id : Nat]]
  /\ \A q, r \in Runs : IsOpen(q) /\ IsOpen(r) /\ alert[q].id = alert[r].id => q = r
  /\ pc \in {"idle", "source", "rds", "incoming", "retention"}
  /\ failed \subseteq {"source", "rds", "incoming"}
  /\ events \in 0..MaxEvents /\ troubles \in 0..MaxTroubles

\* When a family was evaluated without failing, the heartbeat alert is open exactly if the
\* latest sample is overdue, the freshness alert if the latest version is, and worker and
\* run alert agree with the last known status, after any history of recoveries, changes of
\* rules, failed families and late evidence; with the one exception that of two samples of
\* the same second the first proved a recovery (apply).
Evaluated(family) == pc = family /\ pc' \notin {pc, "idle"} /\ failed' = failed
Agrees(f, d) ==
  /\ d.state = "TRUE" => IsOpen(f)'
  /\ d.state = "FALSE" => ~IsOpen(f)'
Tied(f) == alert[f].observed = latest.captured /\ alert[f].evidence # latest.hash
AlertsAgree ==
  [][/\ Evaluated("source") /\ latest # NoSample =>
          /\ Agrees(Heartbeat, HeartbeatDecision) \/ (Tied(Heartbeat) /\ ~IsOpen(Heartbeat)')
          /\ Agrees(WorkerRule, WorkerDecision) \/ Tied(WorkerRule)
     /\ Evaluated("rds") =>
          /\ Agrees(Freshness, FreshnessDecision)
          /\ Agrees(RunRule, BusinessDecision)]_vars

\* An open alert stays open until newer evidence proves recovery, until the destination
\* knows the run, or until the rules change: no failed family, no missing file, no repeat
\* of the evidence that opened it and no expiry closes it (apply, evaluate).
ClosedByEvidence ==
  [][\A f \in Fingerprints : IsOpen(f) /\ ~IsOpen(f)' =>
       \/ alert'[f].status = "DISABLED" /\ threshold # rules
       \/ alert'[f].status = "RECOVERED" /\ f \in known
       \/ alert'[f].status = "RECOVERED" /\ f \in SourceRules /\ alert[f].observed < latest.captured
       \/ alert'[f].status = "RECOVERED" /\ f = Freshness /\ alert[f].observed < version.verified
       \/ alert'[f].status = "RECOVERED" /\ f = RunRule /\ alert[f].observed < business.updated]_vars

\* The alert of a run the destination knows is closed in the end, also when its files are
\* gone and more alerts are open than a round looks up (_rds_decisions).
StaleEventuallyCloses == <>[](\A r \in known : ~IsOpen(r))
===============================================================================
