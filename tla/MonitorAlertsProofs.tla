------------------------- MODULE MonitorAlertsProofs -------------------------
(***************************************************************************)
(* Alerts agree with their evidence and are closed by evidence only, for   *)
(* any runs, thresholds, limits and number of troubles: the safety         *)
(* properties of MonitorAlerts. The invariant says how far each alert may  *)
(* be behind or at the evidence its rule looks at.                         *)
(***************************************************************************)
EXTENDS MonitorAlerts, FoldLemmas, TLAPS

-------------------------------------------------------------------------------
(* The inductive invariant                                                   *)

\* A round keeps the rules it began with, and a family fails in its own turn only.
RoundInv ==
  /\ pc # "idle" => threshold # Off /\ rules = threshold
  /\ pc = "source" => failed = {}
  /\ pc = "rds" => failed \subseteq {"source"}
  /\ pc = "incoming" => failed \subseteq {"source", "rds"}
  /\ \A f \in Fingerprints : IsOpen(f) => rules # Off

\* What was seen was seen before now.
EvidenceInv ==
  /\ latest = NoSample \/ latest.captured \in Nat
  /\ version = NoVersion \/ (version.created \in Nat /\ version.verified \in Nat)
  /\ business = NoBusiness \/ business.updated \in Nat
  /\ version.verified <= events /\ business.updated <= events

\* A heartbeat alert never runs ahead of the latest sample, and if it is open and about the
\* second of that sample, this is overdue, whichever sample of that second came last.
HeartbeatInv(a) ==
  /\ a.observed <= latest.captured
  /\ a.status = "OPEN" /\ a.observed = latest.captured /\ latest # NoSample =>
       clock - latest.captured > rules

\* A worker alert never runs ahead of the latest sample, and if it is about that sample
\* its status agrees with it.
WorkerInv(a) ==
  /\ a.observed <= latest.captured
  /\ a.observed = latest.captured => a.evidence <= latest.hash
  /\ a.observed = latest.captured /\ a.evidence = latest.hash =>
       /\ a.status = "RECOVERED" => latest.worker = "RUNNING"
       /\ a.status = "OPEN" => latest.worker = "STOPPED"

\* As for the worker, with the version last verified; it becomes overdue by itself.
FreshnessInv(a) ==
  /\ a.observed <= version.verified
  /\ a.observed = version.verified =>
       /\ a.evidence = version.run
       /\ a.status = "OPEN" => version # NoVersion /\ clock - version.created > Overdue

\* As for the worker, with the latest run of the table.
RunRuleInv(a) ==
  /\ a.observed <= business.updated
  /\ a.observed = business.updated =>
       /\ a.evidence = business.run
       /\ a.status = "RECOVERED" => business.status = "VERIFIED"
       /\ a.status = "OPEN" => business.status = "FAILED"

AlertInv ==
  /\ HeartbeatInv(alert[Heartbeat])
  /\ WorkerInv(alert[WorkerRule])
  /\ FreshnessInv(alert[Freshness])
  /\ RunRuleInv(alert[RunRule])

\* The alerts of runs are numbered up to ids.
NumbersInv == \A r \in Runs : alert[r].id <= ids

Inv == TypeOK /\ RoundInv /\ EvidenceInv /\ NumbersInv /\ AlertInv

-------------------------------------------------------------------------------
(* What a step does to an alert                                              *)

AlertRecords ==
  [status : {"none", "OPEN", "RECOVERED", "DISABLED"}, observed : Times, evidence : Nat,
   recovered : Times, evaluation : {"TRUE", "FALSE", "UNKNOWN"}, id : Nat]

Verdicts == {"TRUE", "FALSE", "UNKNOWN"}
Rules == SourceRules \cup TableRules \cup {"INCOMING_STALE"}
Decisions == [rule : Rules, observed : Times, evidence : Nat, state : Verdicts]

\* The decision a family comes to about an alert.
Decided(f, d) ==
  \/ pc = "source" /\ f = Heartbeat /\ d = HeartbeatDecision
  \/ pc = "source" /\ latest # NoSample /\ f = WorkerRule /\ d = WorkerDecision
  \/ pc = "rds" /\ f = Freshness /\ d = FreshnessDecision
  \/ pc = "rds" /\ f = RunRule /\ d = BusinessDecision
  \/ pc = "rds" /\ f \in KnownPending /\ d = RunDecision("FALSE", clock)
  \/ pc = "incoming" /\ f \in Runs /\ files[f] = "complete" /\ noted[f] # NoTime /\ d = IncomingDecision(f)

\* An alert after a step of a round: as it was, unknown, expired if it is closed,
\* disabled if the rules changed, or as a decision leaves it.
Outcome(f, a) ==
  \/ a = alert[f]
  \/ a = Unavailable(alert[f])
  \/ a = NoAlert /\ ~IsOpen(f)
  \/ a = Disabled(f) /\ pc = "idle" /\ rules # threshold
  \/ \E d : Decided(f, d) /\ (\/ a = Applied(alert[f], d, ids + 1)
                              \/ a = Unavailable(Applied(alert[f], d, ids + 1)))

\* apply() makes an alert of an alert. Only a decision that is TRUE opens one, and only
\* an alert that opens gets a new number.
LEMMA AppliedType ==
  ASSUME NEW a \in AlertRecords, NEW d \in Decisions, NEW id \in Nat, clock \in Nat
  PROVE  /\ Applied(a, d, id) \in AlertRecords
         /\ Applied(a, d, id).id \in {a.id, id}
         /\ d.state # "TRUE" => /\ Applied(a, d, id).id = a.id
                                /\ Applied(a, d, id).status = "OPEN" => a.status = "OPEN"
         /\ Applied(a, d, id).status = "OPEN" =>
              Applied(a, d, id).id = IF a.status = "OPEN" THEN a.id ELSE id
<1>1. CASE d.state = "UNKNOWN"
  BY <1>1 DEF Applied, AlertRecords, Times, Decisions, Verdicts
<1>2. CASE d.state = "TRUE" /\ a.status = "OPEN"
  BY <1>2 DEF Applied, AlertRecords, Times, Decisions, Verdicts
<1>3. CASE d.state = "TRUE" /\ a.status # "OPEN"
  BY <1>3 DEF Applied, AlertRecords, Times, Decisions, Verdicts
<1>4. CASE d.state = "FALSE"
  BY <1>4 DEF Applied, AlertRecords, Times, Decisions, Verdicts
<1> QED
  BY <1>1, <1>2, <1>3, <1>4 DEF Decisions, Verdicts

\* A family that fails changes the evaluation of an alert, not its status or its
\* evidence.
LEMMA UnavailableType ==
  ASSUME NEW a \in AlertRecords
  PROVE  /\ Unavailable(a) \in AlertRecords
         /\ Unavailable(a).id = a.id /\ Unavailable(a).status = a.status
         /\ Unavailable(a).observed = a.observed /\ Unavailable(a).evidence = a.evidence
BY DEF Unavailable, AlertRecords, Times

\* The types that the lemmas on single alerts need.
LEMMA AlertTypes ==
  ASSUME TypeOK
  PROVE  /\ \A f \in Fingerprints : alert[f] \in AlertRecords
         /\ clock \in Nat /\ ids \in Nat /\ latest.captured \in Times /\ latest.hash \in Nat
         /\ NoAlert \in AlertRecords
BY AlertsAssumption DEF TypeOK, AlertRecords, NoAlert, Times

\* A change of the rules closes an open alert, keeps its evidence, and leaves the others
\* alone.
LEMMA DisabledType ==
  ASSUME TypeOK, NEW f \in Fingerprints
  PROVE  /\ Disabled(f) \in AlertRecords
         /\ Disabled(f).id = alert[f].id /\ Disabled(f).status # "OPEN"
         /\ Disabled(f).observed = alert[f].observed /\ Disabled(f).evidence = alert[f].evidence
         /\ ~IsOpen(f) => Disabled(f) = alert[f]
         /\ IsOpen(f) => Disabled(f).status = "DISABLED"
BY AlertTypes DEF Disabled, IsOpen, AlertRecords, Times

\* The families come to decisions of the known rules and verdicts.
LEMMA DecisionTypes ==
  ASSUME TypeOK
  PROVE  /\ HeartbeatDecision \in Decisions /\ WorkerDecision \in Decisions
         /\ FreshnessDecision \in Decisions /\ BusinessDecision \in Decisions
         /\ \A r \in Runs : IncomingDecision(r) \in Decisions
         /\ RunDecision("FALSE", clock) \in Decisions
<1> USE DEF TypeOK, Decisions, Rules, Verdicts, Times, SourceRules, TableRules
<1>1. HeartbeatDecision \in Decisions
  BY DEF HeartbeatDecision
<1>2. WorkerDecision \in Decisions
  BY DEF WorkerDecision
<1>3. FreshnessDecision \in Decisions
  BY DEF FreshnessDecision
<1>4. BusinessDecision \in Decisions
  BY DEF BusinessDecision
<1>5. RunDecision("FALSE", clock) \in Decisions
  BY AlertTypes DEF RunDecision
<1>6. ASSUME NEW r \in Runs PROVE IncomingDecision(r) \in Decisions
  BY AlertTypes DEF RunDecision, IncomingDecision
<1> QED
  BY <1>1, <1>2, <1>3, <1>4, <1>5, <1>6

\* So does what a family decides about any alert.
LEMMA DecidedType ==
  ASSUME TypeOK, NEW f \in Fingerprints, NEW d, Decided(f, d)
  PROVE  d \in Decisions
BY DecisionTypes DEF Decided

\* Every outcome is an alert, with the old number, a new one, or none.
LEMMA OutcomeType ==
  ASSUME TypeOK, NEW f \in Fingerprints, NEW a, Outcome(f, a)
  PROVE  /\ a \in AlertRecords
         /\ a.id \in {0, alert[f].id, ids + 1}
<1>1. alert[f] \in AlertRecords /\ NoAlert \in AlertRecords /\ NoAlert.id = 0
  BY AlertTypes DEF NoAlert
<1>2. CASE \E d : Decided(f, d) /\ (\/ a = Applied(alert[f], d, ids + 1)
                                  \/ a = Unavailable(Applied(alert[f], d, ids + 1)))
  <2>1. PICK d : Decided(f, d) /\ (\/ a = Applied(alert[f], d, ids + 1)
                                  \/ a = Unavailable(Applied(alert[f], d, ids + 1)))
    BY <1>2
  <2> DEFINE b == Applied(alert[f], d, ids + 1)
  <2>2. d \in Decisions
    BY <2>1, DecidedType
  <2>3. b \in AlertRecords /\ b.id \in {alert[f].id, ids + 1}
    <3>1. ids + 1 \in Nat /\ clock \in Nat
      BY AlertTypes
    <3> QED
      BY <1>1, <2>2, <3>1, AppliedType
  <2> HIDE DEF b
  <2> QED
    BY <2>1, <2>3, UnavailableType DEF b
<1>3. CASE a = alert[f] \/ a = Unavailable(alert[f])
  BY <1>1, <1>3, UnavailableType
<1>4. CASE a = NoAlert
  BY <1>1, <1>4
<1>5. CASE a = Disabled(f)
  BY <1>5, DisabledType
<1> QED
  BY <1>2, <1>3, <1>4, <1>5 DEF Outcome

-------------------------------------------------------------------------------
(* The steps of a round                                                      *)

\* The alerts of the rules and of the runs are different alerts.
LEMMA DisjointFingerprints ==
  /\ Heartbeat # WorkerRule /\ Heartbeat # Freshness /\ Heartbeat # RunRule
  /\ WorkerRule # Freshness /\ WorkerRule # RunRule /\ Freshness # RunRule
  /\ \A r \in Runs : r \notin SourceRules /\ r \notin TableRules
BY AlertsAssumption DEF Heartbeat, WorkerRule, Freshness, RunRule, SourceRules, TableRules

\* What SourceDecisions holds is decided in the source family's turn.
LEMMA SourceDecided ==
  ASSUME pc = "source", NEW f \in DOMAIN SourceDecisions
  PROVE  Decided(f, SourceDecisions[f]) /\ f \in SourceRules
BY DisjointFingerprints DEF SourceDecisions, Decided, SourceRules

\* What RdsDecisions holds is decided in the database family's turn.
LEMMA RdsDecided ==
  ASSUME pc = "rds", NEW f \in DOMAIN RdsDecisions
  PROVE  Decided(f, RdsDecisions[f]) /\ f \in TableRules \cup KnownPending
BY DisjointFingerprints DEF RdsDecisions, Decided, TableRules

\* Only open alerts of runs are looked up.
LEMMA PendingOpen ==
  Pending \subseteq {r \in Runs : IsOpen(r)}
BY DEF Pending

\* The beginning of a round disables alerts or leaves them as they are.
LEMMA BeginRoundOutcome ==
  ASSUME TypeOK, RoundInv, BeginRound, NEW f \in Fingerprints
  PROVE  Outcome(f, alert'[f])
<1>1. CASE threshold = Off
  <2>1. alert'[f] = Disabled(f)
    BY <1>1 DEF BeginRound
  <2>2. CASE IsOpen(f)
    BY <1>1, <2>1, <2>2 DEF BeginRound, RoundInv, Outcome
  <2>3. CASE ~IsOpen(f)
    BY <2>1, <2>3, DisabledType DEF Outcome
  <2> QED
    BY <2>2, <2>3
<1>2. CASE threshold # Off
  BY <1>2 DEF BeginRound, Outcome
<1> QED
  BY <1>1, <1>2

\* The source family leaves each alert in one of its outcomes.
LEMMA EvaluateSourceOutcome ==
  ASSUME EvaluateSource, NEW f \in Fingerprints
  PROVE  Outcome(f, alert'[f])
<1>1. CASE f \in DOMAIN SourceDecisions
  <2>1. alert'[f] = Applied(alert[f], SourceDecisions[f], ids + 1)
    BY <1>1 DEF EvaluateSource, ApplyAll
  <2>2. Decided(f, SourceDecisions[f])
    BY <1>1, SourceDecided DEF EvaluateSource
  <2> QED
    BY <2>1, <2>2 DEF Outcome
<1>2. CASE f \notin DOMAIN SourceDecisions
  BY <1>2 DEF EvaluateSource, ApplyAll, Outcome
<1> QED
  BY <1>1, <1>2

\* So does the database family.
LEMMA EvaluateRdsOutcome ==
  ASSUME EvaluateRds, NEW f \in Fingerprints
  PROVE  Outcome(f, alert'[f])
<1>1. CASE f \in DOMAIN RdsDecisions
  <2>1. alert'[f] = Applied(alert[f], RdsDecisions[f], ids + 1)
    BY <1>1 DEF EvaluateRds, ApplyAll
  <2>2. Decided(f, RdsDecisions[f])
    BY <1>1, RdsDecided DEF EvaluateRds
  <2> QED
    BY <2>1, <2>2 DEF Outcome
<1>2. CASE f \notin DOMAIN RdsDecisions
  BY <1>2 DEF EvaluateRds, ApplyAll, Outcome
<1> QED
  BY <1>1, <1>2

\* The incoming family decides about one run at most.
LEMMA EvaluateIncomingOutcome ==
  ASSUME TypeOK, EvaluateIncoming
  PROVE  \/ alert' = alert /\ ids' = ids
         \/ \E r \in Runs :
              /\ Decided(r, IncomingDecision(r))
              /\ alert' = [f \in Fingerprints |->
                             IF f = r THEN Applied(alert[r], IncomingDecision(r), ids + 1) ELSE alert[f]]
              /\ ids' = IF \E q \in Runs : alert'[q].id > ids THEN ids + 1 ELSE ids
<1> SUFFICES ASSUME NEW r \in Listed, files[r] = "complete", noted[r] # NoTime,
                    ApplyAll([f \in {r} |-> IncomingDecision(f)])
             PROVE  \E q \in Runs :
              /\ Decided(q, IncomingDecision(q))
              /\ alert' = [f \in Fingerprints |->
                             IF f = q THEN Applied(alert[q], IncomingDecision(q), ids + 1) ELSE alert[f]]
              /\ ids' = IF \E p \in Runs : alert'[p].id > ids THEN ids + 1 ELSE ids
  BY DEF EvaluateIncoming
<1>1. r \in Runs /\ r \in Fingerprints
  BY DEF Listed, Present, TypeOK, Fingerprints
<1>2. Decided(r, IncomingDecision(r))
  BY <1>1 DEF Decided, EvaluateIncoming
<1>3. alert' = [f \in Fingerprints |->
                  IF f = r THEN Applied(alert[r], IncomingDecision(r), ids + 1) ELSE alert[f]]
  <2>1. alert' = [f \in Fingerprints |->
                   IF f \in {r} THEN Applied(alert[f], [g \in {r} |-> IncomingDecision(g)][f], ids + 1) ELSE alert[f]]
    BY DEF ApplyAll
  <2>2. [g \in {r} |-> IncomingDecision(g)][r] = IncomingDecision(r)
    OBVIOUS
  <2> QED
    BY <2>1, <2>2
<1>4. ids' = IF \E p \in Runs : alert'[p].id > ids THEN ids + 1 ELSE ids
  BY DEF ApplyAll
<1> QED
  BY <1>1, <1>2, <1>3, <1>4

\* Retention forgets alerts that are closed, only.
LEMMA ExpireOutcome ==
  ASSUME Expire, NEW f \in Fingerprints
  PROVE  Outcome(f, alert'[f])
BY DEF Expire, Expired, Outcome, IsOpen

\* The part of a failing family's step that is about its alerts.
LEMMA FamilyFailsSource ==
  ASSUME FamilyFails, pc = "source"
  PROVE  \E done \in SUBSET DOMAIN SourceDecisions :
           /\ alert' = [f \in Fingerprints |->
                IF f \in done THEN Unavailable(Applied(alert[f], SourceDecisions[f], ids + 1))
                ELSE IF f \in SourceRules THEN Unavailable(alert[f])
                ELSE alert[f]]
           /\ expected' \in {Missed, expected}
           /\ recovery' = recovery
BY DEF FamilyFails

\* The same for the database family, which saves its cursor before its decisions.
LEMMA FamilyFailsRds ==
  ASSUME FamilyFails, pc = "rds"
  PROVE  \E done \in SUBSET DOMAIN RdsDecisions :
           /\ alert' = [f \in Fingerprints |->
                IF f \in done THEN Unavailable(Applied(alert[f], RdsDecisions[f], ids + 1))
                ELSE IF f \in TableRules \cup Runs THEN Unavailable(alert[f])
                ELSE alert[f]]
           /\ expected' = expected
           /\ recovery' \in {RecoveryAfter(Pending), recovery}
BY DEF FamilyFails

\* The same for the incoming family, which has decided nothing when it fails.
LEMMA FamilyFailsIncoming ==
  ASSUME FamilyFails, pc = "incoming"
  PROVE  /\ alert' = [f \in Fingerprints |-> IF f \in Runs THEN Unavailable(alert[f]) ELSE alert[f]]
         /\ expected' = expected /\ recovery' = recovery
BY DEF FamilyFails

\* A failing family leaves each alert in one of its outcomes, unknown if it was open.
LEMMA FamilyFailsOutcome ==
  ASSUME FamilyFails, NEW f \in Fingerprints
  PROVE  Outcome(f, alert'[f])
<1>1. CASE pc = "source"
  <2>1. PICK done \in SUBSET DOMAIN SourceDecisions :
          alert' = [g \in Fingerprints |->
                IF g \in done THEN Unavailable(Applied(alert[g], SourceDecisions[g], ids + 1))
                ELSE IF g \in SourceRules THEN Unavailable(alert[g])
                ELSE alert[g]]
    BY <1>1, FamilyFailsSource
  <2>2. CASE f \in done
    <3>1. Decided(f, SourceDecisions[f])
      BY <1>1, <2>2, SourceDecided
    <3>2. alert'[f] = Unavailable(Applied(alert[f], SourceDecisions[f], ids + 1))
      BY <2>1, <2>2
    <3> QED
      BY <3>1, <3>2 DEF Outcome
  <2>3. CASE f \notin done
    BY <2>1, <2>3 DEF Outcome
  <2> QED
    BY <2>2, <2>3
<1>2. CASE pc = "rds"
  <2>1. PICK done \in SUBSET DOMAIN RdsDecisions :
          alert' = [g \in Fingerprints |->
                IF g \in done THEN Unavailable(Applied(alert[g], RdsDecisions[g], ids + 1))
                ELSE IF g \in TableRules \cup Runs THEN Unavailable(alert[g])
                ELSE alert[g]]
    BY <1>2, FamilyFailsRds
  <2>2. CASE f \in done
    <3>1. Decided(f, RdsDecisions[f])
      BY <1>2, <2>2, RdsDecided
    <3>2. alert'[f] = Unavailable(Applied(alert[f], RdsDecisions[f], ids + 1))
      BY <2>1, <2>2
    <3> QED
      BY <3>1, <3>2 DEF Outcome
  <2>3. CASE f \notin done
    BY <2>1, <2>3 DEF Outcome
  <2> QED
    BY <2>2, <2>3
<1>3. CASE pc = "incoming"
  BY <1>3, FamilyFailsIncoming DEF Outcome
<1> QED
  BY <1>1, <1>2, <1>3 DEF FamilyFails

Evaluates == Round \/ FamilyFails

\* Every step of a round, and a failing family, leaves each alert in one of its outcomes.
LEMMA Outcomes ==
  ASSUME TypeOK, RoundInv, Evaluates, NEW f \in Fingerprints
  PROVE  Outcome(f, alert'[f])
<1>1. CASE EvaluateIncoming
  <2>1. CASE alert' = alert
    BY <2>1 DEF Outcome
  <2>2. CASE \E r \in Runs :
              /\ Decided(r, IncomingDecision(r))
              /\ alert' = [g \in Fingerprints |->
                             IF g = r THEN Applied(alert[r], IncomingDecision(r), ids + 1) ELSE alert[g]]
    BY <2>2 DEF Outcome
  <2> QED
    BY <1>1, <2>1, <2>2, EvaluateIncomingOutcome
<1> QED
  BY <1>1, BeginRoundOutcome, EvaluateSourceOutcome, EvaluateRdsOutcome, ExpireOutcome, FamilyFailsOutcome
     DEF Evaluates, Round

\* No other step changes an alert.
LEMMA OthersKeepAlerts ==
  ASSUME [Next]_vars, ~Evaluates
  PROVE  alert' = alert /\ ids' = ids /\ UNCHANGED rules
BY DEF Next, Evaluates, vars, inputs, state, counters, Tick, ReceiveSample, Work, Reconfigure, FilesChange,
       Register, Kill

-------------------------------------------------------------------------------
(* The numbers of the alerts of runs                                         *)

OpenApart == \A q, r \in Runs : IsOpen(q) /\ IsOpen(r) /\ alert[q].id = alert[r].id => q = r

\* The recovery cursor is the number of an alert there has been.
LEMMA RecoveryBound ==
  ASSUME TypeOK, NumbersInv
  PROVE  RecoveryAfter(Pending) \in 0..ids
<1> DEFINE T == {alert[r].id : r \in Pending}
<1>1. CASE Pending = {}
  BY <1>1 DEF RecoveryAfter, TypeOK
<1>2. CASE Pending # {}
  <2>1. \A r \in Pending : alert[r].id \in Nat /\ alert[r].id <= ids
    BY PendingOpen DEF TypeOK, NumbersInv, Fingerprints
  <2>2. T \in SUBSET Nat /\ T # {} /\ \A n \in T : n <= ids
    BY <1>2, <2>1
  <2>3. ids \in Nat
    BY AlertTypes
  <2>4. Max(T) \in T
    BY <2>2, <2>3, GreatestNatural, Zenon
  <2>5. Max(T) \in 0..ids
    BY <2>2, <2>3, <2>4
  <2> QED
    BY <1>2, <2>5 DEF RecoveryAfter
<1> QED
  BY <1>1, <1>2

\* Before the incoming family's turn no alert of a run opens.
LEMMA RunKept ==
  ASSUME TypeOK, pc # "incoming", NEW r \in Runs, NEW a, Outcome(r, a)
  PROVE  /\ a.id \in {0, alert[r].id}
         /\ a.status = "OPEN" => IsOpen(r) /\ a.id = alert[r].id
<1>1. r \in Fingerprints /\ alert[r] \in AlertRecords
  BY AlertTypes DEF Fingerprints
<1>2. CASE a = alert[r] \/ a = Unavailable(alert[r])
  BY <1>1, <1>2, UnavailableType DEF IsOpen
<1>3. CASE a = NoAlert
  BY <1>3 DEF NoAlert
<1>4. CASE a = Disabled(r)
  BY <1>1, <1>4, DisabledType
<1>5. ASSUME NEW d, Decided(r, d),
             a = Applied(alert[r], d, ids + 1) \/ a = Unavailable(Applied(alert[r], d, ids + 1))
      PROVE  /\ a.id \in {0, alert[r].id}
             /\ a.status = "OPEN" => IsOpen(r) /\ a.id = alert[r].id
  <2> DEFINE b == Applied(alert[r], d, ids + 1)
  <2>1. d = RunDecision("FALSE", clock)
    BY <1>5, DisjointFingerprints DEF Decided, SourceRules, TableRules
  <2>2. d \in Decisions /\ d.state = "FALSE"
    BY <2>1, DecisionTypes DEF RunDecision
  <2>3. ids + 1 \in Nat /\ clock \in Nat
    BY AlertTypes
  <2>4. b \in AlertRecords /\ b.id = alert[r].id /\ (b.status = "OPEN" => IsOpen(r))
    BY <1>1, <2>2, <2>3, AppliedType DEF IsOpen
  <2> HIDE DEF b
  <2> QED
    BY <1>5, <2>4, UnavailableType DEF b
<1> QED
  BY <1>2, <1>3, <1>4, <1>5 DEF Outcome

\* A step hands out at most one number.
LEMMA IdsGrow ==
  ASSUME TypeOK, [Next]_vars
  PROVE  ids' \in {ids, ids + 1}
<1>1. CASE ~Evaluates
  BY <1>1, OthersKeepAlerts
<1>2. CASE Evaluates
  BY <1>2 DEF Evaluates, Round, BeginRound, EvaluateSource, EvaluateRds, EvaluateIncoming, Expire, FamilyFails,
              ApplyAll
<1> QED
  BY <1>1, <1>2

\* Every step keeps the numbers of runs' alerts within ids, and those of open alerts
\* apart.
LEMMA NumbersStep ==
  ASSUME TypeOK, RoundInv, NumbersInv, [Next]_vars
  PROVE  NumbersInv' /\ OpenApart'
<1>1. ids \in Nat /\ ids' \in {ids, ids + 1} /\ \A r \in Runs : r \in Fingerprints /\ alert[r].id \in Nat
  BY AlertTypes, IdsGrow DEF Fingerprints, AlertRecords
<1>2. OpenApart
  BY DEF TypeOK, OpenApart
<1>3. ASSUME \A r \in Runs : /\ alert'[r].id \in {0, alert[r].id}
                             /\ alert'[r].status = "OPEN" => IsOpen(r) /\ alert'[r].id = alert[r].id
      PROVE  NumbersInv' /\ OpenApart'
  <2>1. NumbersInv'
    BY <1>1, <1>3 DEF NumbersInv
  <2>2. OpenApart'
    BY <1>2, <1>3 DEF OpenApart, IsOpen
  <2> QED
    BY <2>1, <2>2
<1>4. CASE ~Evaluates
  <2>1. alert' = alert
    BY <1>4, OthersKeepAlerts
  <2> QED
    BY <1>3, <2>1 DEF IsOpen
<1>5. CASE Evaluates /\ pc # "incoming"
  <2>1. \A r \in Runs : Outcome(r, alert'[r])
    BY <1>1, <1>5, Outcomes
  <2>2. \A r \in Runs : /\ alert'[r].id \in {0, alert[r].id}
                        /\ alert'[r].status = "OPEN" => IsOpen(r) /\ alert'[r].id = alert[r].id
    BY <1>5, <2>1, RunKept
  <2> QED
    BY <1>3, <2>2
<1>6. CASE FamilyFails /\ pc = "incoming"
  <2>1. \A r \in Runs : alert'[r] = Unavailable(alert[r])
    BY <1>1, <1>6, FamilyFailsIncoming
  <2>2. \A r \in Runs : alert'[r].id = alert[r].id /\ alert'[r].status = alert[r].status
    BY <1>1, <2>1, AlertTypes, UnavailableType
  <2> QED
    BY <1>3, <2>2 DEF IsOpen
<1>7. CASE EvaluateIncoming
  <2>1. CASE alert' = alert
    BY <1>3, <2>1 DEF IsOpen
  <2>2. ASSUME NEW q \in Runs, Decided(q, IncomingDecision(q)),
               alert' = [f \in Fingerprints |->
                             IF f = q THEN Applied(alert[q], IncomingDecision(q), ids + 1) ELSE alert[f]],
               ids' = IF \E p \in Runs : alert'[p].id > ids THEN ids + 1 ELSE ids
        PROVE  NumbersInv' /\ OpenApart'
    <3> DEFINE b == Applied(alert[q], IncomingDecision(q), ids + 1)
    <3>1. /\ b \in AlertRecords /\ b.id \in {alert[q].id, ids + 1}
          /\ b.status = "OPEN" => b.id = IF IsOpen(q) THEN alert[q].id ELSE ids + 1
      <4>1. ids + 1 \in Nat /\ clock \in Nat /\ alert[q] \in AlertRecords /\ IncomingDecision(q) \in Decisions
        BY <1>1, AlertTypes, DecisionTypes
      <4> QED
        BY <4>1, AppliedType DEF IsOpen
    <3>2. alert'[q] = b /\ \A r \in Runs \ {q} : alert'[r] = alert[r]
      BY <1>1, <2>2
    <3> HIDE DEF b
    <3>3. \A r \in Runs : alert[r].id <= ids
      BY DEF NumbersInv
    <3>4. NumbersInv'
      <4>1. \A r \in Runs : alert'[r].id <= ids + 1 /\ alert'[r].id \in Nat
        BY <1>1, <3>1, <3>2, <3>3
      <4>2. CASE \E p \in Runs : alert'[p].id > ids
        BY <2>2, <4>1, <4>2 DEF NumbersInv
      <4>3. CASE ~\E p \in Runs : alert'[p].id > ids
        BY <1>1, <2>2, <4>1, <4>3 DEF NumbersInv
      <4> QED
        BY <4>2, <4>3
    <3>5. OpenApart'
      <4>1. ASSUME NEW r \in Runs \ {q}, alert'[q].status = "OPEN", alert'[r].status = "OPEN",
                   alert'[q].id = alert'[r].id
            PROVE  FALSE
        <5>1. alert[r].status = "OPEN" /\ alert[r].id = b.id /\ b.status = "OPEN"
          BY <3>2, <4>1
        <5>2. b.id # ids + 1
          BY <1>1, <3>3, <5>1
        <5>3. IsOpen(q) /\ b.id = alert[q].id
          BY <3>1, <5>1, <5>2
        <5> QED
          BY <1>2, <5>1, <5>3 DEF OpenApart, IsOpen
      <4>2. ASSUME NEW p \in Runs \ {q}, NEW r \in Runs \ {q}, alert'[p].status = "OPEN",
                   alert'[r].status = "OPEN", alert'[p].id = alert'[r].id
            PROVE  p = r
        BY <1>2, <3>2, <4>2 DEF OpenApart, IsOpen
      <4> QED
        BY <4>1, <4>2 DEF OpenApart, IsOpen
    <3> QED
      BY <3>4, <3>5
  <2> QED
    BY <1>7, <2>1, <2>2, EvaluateIncomingOutcome
<1>8. Evaluates /\ pc = "incoming" => FamilyFails \/ EvaluateIncoming
  BY DEF Evaluates, Round, BeginRound, EvaluateSource, EvaluateRds, Expire
<1> QED
  BY <1>4, <1>5, <1>6, <1>7, <1>8

-------------------------------------------------------------------------------
(* Types, rounds and evidence                                                *)

\* Every step leaves alerts.
LEMMA AlertTypeStep ==
  ASSUME TypeOK, RoundInv, [Next]_vars
  PROVE  alert' \in [Fingerprints -> AlertRecords]
<1>1. alert \in [Fingerprints -> AlertRecords]
  BY DEF TypeOK, AlertRecords
<1>2. CASE ~Evaluates
  BY <1>1, <1>2, OthersKeepAlerts
<1>3. CASE Evaluates
  <2>1. \A f \in Fingerprints : alert'[f] \in AlertRecords
    BY <1>3, Outcomes, OutcomeType
  <2>2. alert' = alert \/ alert' = [f \in Fingerprints |-> alert'[f]]
    <3>1. CASE BeginRound
      BY <3>1 DEF BeginRound
    <3>2. CASE EvaluateSource
      BY <3>2 DEF EvaluateSource, ApplyAll
    <3>3. CASE EvaluateRds
      BY <3>3 DEF EvaluateRds, ApplyAll
    <3>4. CASE EvaluateIncoming
      BY <3>4, EvaluateIncomingOutcome
    <3>5. CASE Expire
      BY <3>5 DEF Expire
    <3>6. CASE FamilyFails
      BY <3>6, FamilyFailsSource, FamilyFailsRds, FamilyFailsIncoming DEF FamilyFails
    <3> QED
      BY <1>3, <3>1, <3>2, <3>3, <3>4, <3>5, <3>6 DEF Evaluates, Round
  <2> QED
    BY <1>1, <2>1, <2>2
<1> QED
  BY <1>2, <1>3

\* TypeOK but for the alerts.
InputsOK ==
  /\ clock \in 0..MaxClock
  /\ latest \in [captured : Times, hash : 0..2, worker : {"RUNNING", "STOPPED", "UNKNOWN"}]
  /\ version \in [created : Times, verified : Times, run : Nat]
  /\ business \in [status : {"none", "VALIDATED", "IMPORTING", "FAILED", "VERIFIED"},
                   updated : Times, run : Nat]
  /\ latest.captured <= clock + Future /\ version.created <= clock
  /\ files \in [Runs -> {"absent", "partial", "complete"}]
  /\ known \subseteq Runs
  /\ threshold \in Thresholds \cup {Off}
  /\ events \in 0..MaxEvents /\ troubles \in 0..MaxTroubles
StateOK ==
  /\ scanning \subseteq Runs /\ rules \in Thresholds \cup {Off}
  /\ expected \in Times /\ noted \in [Runs -> Times] /\ ids \in Nat /\ recovery \in 0..ids
  /\ pc \in {"idle", "source", "rds", "incoming", "retention"}
  /\ failed \subseteq {"source", "rds", "incoming"}

\* Every step keeps the types of what the rounds look at.
LEMMA InputsStep ==
  ASSUME InputsOK, [Next]_vars
  PROVE  InputsOK'
<1> USE AlertsAssumption DEF InputsOK, Times
<1>1. CASE Tick
  <2>1. clock \in Nat /\ clock' = clock + 1 /\ clock' \in 0..MaxClock
    BY <1>1 DEF Tick
  <2>2. latest.captured \in Times /\ version.created \in Times
    OBVIOUS
  <2>3. latest.captured <= clock' + Future /\ version.created <= clock'
    BY <2>1, <2>2 DEF NoTime
  <2>4. UNCHANGED <<latest, files, known, version, business, threshold, events, troubles>>
    BY <1>1 DEF Tick, counters
  <2> QED
    BY <2>1, <2>3, <2>4
<1>2. CASE ReceiveSample
  BY <1>2 DEF ReceiveSample
<1>3. CASE Work
  <2>1. events' \in 0..MaxEvents /\ events' \in Nat
    <3>1. events < MaxEvents /\ events' = events + 1
      BY <1>3 DEF Work
    <3> QED
      BY <3>1
  <2>2. business' \in [status : {"none", "VALIDATED", "IMPORTING", "FAILED", "VERIFIED"},
                       updated : Times, run : Nat]
    <3>1. CASE business' = [status |-> "VALIDATED", updated |-> events', run |-> business.run + 1]
      BY <2>1, <3>1
    <3>2. ASSUME NEW s \in {"IMPORTING", "FAILED", "VERIFIED"},
                 business' = [business EXCEPT !.status = s, !.updated = events']
          PROVE  business' \in [status : {"none", "VALIDATED", "IMPORTING", "FAILED", "VERIFIED"},
                                updated : Times, run : Nat]
      BY <2>1, <3>2
    <3> QED
      BY <1>3, <3>1, <3>2 DEF Work
  <2>3. \/ version' = version
        \/ \E created \in 0..clock :
             version' = [created |-> created, verified |-> events', run |-> business.run]
    BY <1>3 DEF Work
  <2>4. version' \in [created : Times, verified : Times, run : Nat] /\ version'.created <= clock
    BY <2>1, <2>3
  <2>5. UNCHANGED <<clock, latest, files, known, threshold, troubles>>
    BY <1>3 DEF Work
  <2> QED
    BY <2>1, <2>2, <2>4, <2>5
<1>4. CASE Reconfigure
  BY <1>4 DEF Reconfigure
<1>5. ASSUME NEW r \in Runs, FilesChange(r) PROVE InputsOK'
  BY <1>5 DEF FilesChange
<1>6. ASSUME NEW r \in Runs, Register(r) PROVE InputsOK'
  BY <1>6 DEF Register, counters
<1>7. CASE Round
  BY <1>7 DEF Round, BeginRound, EvaluateSource, EvaluateRds, EvaluateIncoming, Expire, inputs, counters
<1>8. CASE FamilyFails
  <2>1. troubles < MaxTroubles /\ troubles' = troubles + 1
    BY <1>8 DEF FamilyFails
  <2>2. UNCHANGED <<clock, latest, files, known, version, business, threshold, events>>
    BY <1>8 DEF FamilyFails, inputs
  <2> QED
    BY <2>1, <2>2
<1>9. CASE Kill
  BY <1>9 DEF Kill, inputs
<1>10. CASE UNCHANGED vars
  BY <1>10 DEF vars, inputs, counters
<1> QED
  BY <1>1, <1>2, <1>3, <1>4, <1>5, <1>6, <1>7, <1>8, <1>9, <1>10 DEF Next

\* Of what the rounds remember, a family that fails changes its own cursor only.
LEMMA FamilyFailsCursors ==
  ASSUME FamilyFails
  PROVE  /\ scanning' \subseteq scanning \cup Listed
         /\ recovery' \in {recovery, RecoveryAfter(Pending)} /\ expected' \in {expected, Missed}
<1>1. scanning' \in {scanning} \cup {Listed \ {r} : r \in Listed}
  BY DEF FamilyFails
<1>2. ASSUME pc = "source"
      PROVE  recovery' \in {recovery, RecoveryAfter(Pending)} /\ expected' \in {expected, Missed}
  BY <1>2, FamilyFailsSource
<1>3. ASSUME pc = "rds"
      PROVE  recovery' \in {recovery, RecoveryAfter(Pending)} /\ expected' \in {expected, Missed}
  BY <1>3, FamilyFailsRds
<1>4. ASSUME pc = "incoming"
      PROVE  recovery' \in {recovery, RecoveryAfter(Pending)} /\ expected' \in {expected, Missed}
  BY <1>4, FamilyFailsIncoming
<1> QED
  <2>1. pc \in {"source", "rds", "incoming"}
    BY DEF FamilyFails
  <2> QED
    BY <1>1, <1>2, <1>3, <1>4, <2>1

\* Every step keeps the types of what the rounds remember.
LEMMA StateStep ==
  ASSUME TypeOK, NumbersInv, [Next]_vars
  PROVE  StateOK'
<1> USE AlertsAssumption DEF TypeOK, StateOK, Times
<1>0. ids' \in {ids, ids + 1} /\ RecoveryAfter(Pending) \in 0..ids
  BY IdsGrow, RecoveryBound
<1>1. CASE Tick
  BY <1>1 DEF Tick, state
<1>2. CASE ReceiveSample
  BY <1>2 DEF ReceiveSample, state
<1>3. CASE Work
  BY <1>3 DEF Work, state
<1>4. CASE Reconfigure
  BY <1>4 DEF Reconfigure
<1>5. ASSUME NEW r \in Runs, FilesChange(r) PROVE StateOK'
  BY <1>5 DEF FilesChange
<1>6. ASSUME NEW r \in Runs, Register(r) PROVE StateOK'
  BY <1>6 DEF Register, state
<1>7. CASE BeginRound
  BY <1>7 DEF BeginRound, inputs
<1>8. CASE EvaluateSource
  BY <1>0, <1>8 DEF EvaluateSource, Missed
<1>9. CASE EvaluateRds
  BY <1>0, <1>9 DEF EvaluateRds
<1>10. CASE EvaluateIncoming
  <2>1. scanning' \subseteq Runs /\ noted' \in [Runs -> Times]
    <3>1. Listed \subseteq Runs /\ clock \in Nat
      BY AlertTypes DEF Listed, Present
    <3>2. CASE scanning' = scanning /\ noted' = noted
      BY <3>2
    <3>3. ASSUME NEW r \in Listed, scanning' = Listed \ {r},
                 noted' = IF files[r] = "complete" /\ noted[r] = NoTime
                          THEN [noted EXCEPT ![r] = clock] ELSE noted
          PROVE  scanning' \subseteq Runs /\ noted' \in [Runs -> Times]
      BY <3>1, <3>3
    <3> QED
      BY <1>10, <3>2, <3>3 DEF EvaluateIncoming
  <2>2. pc' = "retention" /\ UNCHANGED <<rules, expected, recovery, failed>>
    BY <1>10 DEF EvaluateIncoming
  <2> QED
    BY <1>0, <2>1, <2>2
<1>11. CASE Expire
  BY <1>11 DEF Expire
<1>12. CASE FamilyFails
  <2>1. scanning' \subseteq Runs
    BY <1>12, FamilyFailsCursors DEF Listed, Present
  <2>2. recovery' \in 0..ids /\ expected' \in {expected, Missed}
    BY <1>0, <1>12, FamilyFailsCursors
  <2>3. Missed \in Times
    BY DEF Missed
  <2>4. ids' = ids /\ rules' = rules /\ noted' = noted
    BY <1>12 DEF FamilyFails
  <2>5. pc' \in {"rds", "incoming", "retention"} /\ failed' \subseteq {"source", "rds", "incoming"}
    BY <1>12 DEF FamilyFails
  <2> QED
    BY <2>1, <2>2, <2>3, <2>4, <2>5
<1>13. CASE Kill
  BY <1>13 DEF Kill
<1>14. CASE UNCHANGED vars
  BY <1>14 DEF vars, state
<1> QED
  BY <1>1, <1>2, <1>3, <1>4, <1>5, <1>6, <1>7, <1>8, <1>9, <1>10, <1>11, <1>12, <1>13, <1>14 DEF Next, Round

\* TypeOK is the types of inputs, of state and of alerts, and that numbers of open alerts
\* differ.
LEMMA TypeParts ==
  /\ TypeOK => InputsOK /\ StateOK /\ OpenApart /\ alert \in [Fingerprints -> AlertRecords]
  /\ InputsOK /\ StateOK /\ OpenApart /\ alert \in [Fingerprints -> AlertRecords] => TypeOK
BY DEF TypeOK, InputsOK, StateOK, OpenApart, AlertRecords

\* Every step keeps TypeOK.
LEMMA TypeStep ==
  ASSUME TypeOK, RoundInv, NumbersInv, [Next]_vars
  PROVE  TypeOK'
<1>1. InputsOK' /\ StateOK' /\ OpenApart'
  BY TypeParts, InputsStep, StateStep, NumbersStep
<1>2. (alert \in [Fingerprints -> AlertRecords])'
  BY AlertTypeStep DEF AlertRecords, Fingerprints
<1> QED
  BY <1>1, <1>2, TypeParts, PTL

\* Every step keeps RoundInv.
LEMMA RoundInvStep ==
  ASSUME TypeOK, RoundInv, [Next]_vars
  PROVE  RoundInv'
<1> USE DEF RoundInv
<1>1. CASE ~Evaluates
  <2>1. UNCHANGED <<alert, rules>>
    BY <1>1, OthersKeepAlerts
  <2>2. \A f \in Fingerprints : IsOpen(f)' => rules' # Off
    BY <2>1 DEF IsOpen
  <2>3. pc' = "idle" \/ UNCHANGED <<threshold, pc, failed>>
    BY <1>1 DEF Next, Evaluates, vars, inputs, state, counters, Tick, ReceiveSample, Work, Reconfigure,
                FilesChange, Register, Kill
  <2> QED
    BY <2>1, <2>2, <2>3
<1>2. CASE BeginRound
  <2>1. CASE threshold = Off
    <3>1. \A f \in Fingerprints : ~IsOpen(f)'
      BY <1>2, <2>1, DisabledType DEF BeginRound, IsOpen
    <3> QED
      BY <1>2, <2>1, <3>1 DEF BeginRound
  <2>2. CASE threshold # Off
    BY <1>2, <2>2 DEF BeginRound, inputs
  <2> QED
    BY <2>1, <2>2
<1>3. CASE Evaluates /\ ~BeginRound
  <2>1. /\ pc # "idle" /\ UNCHANGED <<threshold, rules>>
        /\ pc' = "idle" \/ <<pc, pc'>> \in {<<"source", "rds">>, <<"rds", "incoming">>, <<"incoming", "retention">>}
        /\ failed' = failed \/ failed' = failed \cup {pc}
    BY <1>3 DEF Evaluates, Round, EvaluateSource, EvaluateRds, EvaluateIncoming, Expire, FamilyFails, inputs
  <2> QED
    BY <2>1
<1> QED
  BY <1>1, <1>2, <1>3

\* Every step keeps EvidenceInv.
LEMMA EvidenceInvStep ==
  ASSUME TypeOK, EvidenceInv, [Next]_vars
  PROVE  EvidenceInv'
<1> USE DEF EvidenceInv
<1>1. CASE Work
  <2>1. events' = events + 1 /\ events \in Nat /\ clock \in Nat /\ latest' = latest
    <3>1. events' = events + 1 /\ latest' = latest
      BY <1>1 DEF Work
    <3> QED
      BY <3>1, AlertTypes DEF TypeOK
  <2>2. business' = business \/ business'.updated = events'
    <3>1. CASE business' = [status |-> "VALIDATED", updated |-> events', run |-> business.run + 1]
      BY <3>1
    <3>2. ASSUME NEW s, business' = [business EXCEPT !.status = s, !.updated = events']
          PROVE  business'.updated = events'
      BY <3>2 DEF TypeOK
    <3> QED
      BY <1>1, <3>1, <3>2 DEF Work
  <2>3. \/ version' = version
        \/ \E created \in 0..clock :
             version' = [created |-> created, verified |-> events', run |-> business.run]
    BY <1>1 DEF Work
  <2>4. business.updated \in Int /\ version.verified \in Int
    BY DEF TypeOK, Times, NoTime
  <2> QED
    BY <2>1, <2>2, <2>3, <2>4
<1>2. CASE ReceiveSample
  <2>1. UNCHANGED <<version, business>> /\ events' = events + 1
    BY <1>2 DEF ReceiveSample
  <2>2. latest'.captured \in Nat
    BY <1>2 DEF ReceiveSample
  <2>3. business.updated \in Int /\ version.verified \in Int /\ events \in Nat
    BY DEF TypeOK, Times, NoTime
  <2> QED
    BY <2>1, <2>2, <2>3
<1>3. CASE UNCHANGED <<latest, version, business>> /\ events' \in {events, events + 1}
  <2>1. business.updated \in Int /\ version.verified \in Int /\ events \in Nat
    BY DEF TypeOK, Times, NoTime
  <2> QED
    BY <1>3, <2>1
<1> QED
  BY <1>1, <1>2, <1>3 DEF Next, Round, vars, inputs, state, counters, Tick, Reconfigure, FilesChange, Register,
     Kill, BeginRound, EvaluateSource, EvaluateRds, EvaluateIncoming, Expire, FamilyFails

-------------------------------------------------------------------------------
(* Each alert against its evidence                                           *)

\* What a decision of a family leaves an alert as.
LEMMA AppliedCases ==
  ASSUME NEW a \in AlertRecords, NEW d \in Decisions, NEW id \in Nat, clock \in Nat,
         NEW b, b = Applied(a, d, id)
  PROVE  \/ /\ b.status = a.status /\ b.observed = a.observed /\ b.evidence = a.evidence
            /\ d.state = "FALSE" => a.status # "OPEN" \/ Outdated(a, d)
            /\ d.state = "TRUE" => \/ a.status = "OPEN" /\ d.observed # NoTime /\ a.observed # NoTime
                                      /\ d.observed < a.observed
                                   \/ a.status # "OPEN" /\ Suppressed(a, d)
         \/ /\ b.status = "OPEN" /\ b.observed = d.observed /\ b.evidence = d.evidence
            /\ d.state = "TRUE"
         \/ /\ a.status = "OPEN" /\ ~Outdated(a, d)
            /\ b.status = "RECOVERED" /\ b.observed = d.observed /\ b.evidence = d.evidence
            /\ d.state = "FALSE"
<1>1. CASE d.state = "UNKNOWN"
  BY <1>1 DEF Applied, AlertRecords
<1>2. CASE d.state = "TRUE" /\ a.status = "OPEN"
  BY <1>2 DEF Applied, AlertRecords
<1>3. CASE d.state = "TRUE" /\ a.status # "OPEN"
  BY <1>3 DEF Applied, AlertRecords
<1>4. CASE d.state = "FALSE"
  BY <1>4 DEF Applied, AlertRecords
<1> QED
  BY <1>1, <1>2, <1>3, <1>4 DEF Decisions, Verdicts

\* Applying the heartbeat decision keeps its alert in agreement with the latest sample;
\* the alert is open exactly if the sample is overdue, but for a tie; and it closes only
\* for a later sample than the one it is about.
LEMMA HeartbeatApplied ==
  ASSUME TypeOK, RoundInv, EvidenceInv, pc = "source", NEW a \in AlertRecords, HeartbeatInv(a),
         NEW b, b = Applied(a, HeartbeatDecision, ids + 1)
  PROVE  /\ HeartbeatInv(b)
         /\ latest # NoSample =>
              \/ HeartbeatDecision.state = "TRUE" /\ b.status = "OPEN"
              \/ HeartbeatDecision.state = "FALSE" /\ b.status # "OPEN"
              \/ a.observed = latest.captured /\ a.evidence # latest.hash /\ b.status # "OPEN"
         /\ a.status = "OPEN" /\ b.status # "OPEN" => b.status = "RECOVERED" /\ a.observed < latest.captured
<1> DEFINE d == HeartbeatDecision
<1>1. /\ clock \in Nat /\ ids + 1 \in Nat /\ latest.captured \in Int /\ latest.hash \in Nat
      /\ a.observed \in Int /\ rules = threshold /\ threshold \in Nat /\ threshold >= 1
      /\ expected \in Int /\ expected >= -1 /\ d \in Decisions
      /\ latest = NoSample \/ latest.captured \in Nat
  <2>1. clock \in Nat /\ ids + 1 \in Nat /\ latest.captured \in Int /\ latest.hash \in Nat /\ d \in Decisions
    BY AlertTypes, DecisionTypes DEF Times, NoTime
  <2>2. a.observed \in Int
    BY DEF AlertRecords, Times, NoTime
  <2>3. rules = threshold /\ threshold \in Nat /\ threshold >= 1
    <3>1. rules = threshold /\ threshold # Off
      BY DEF RoundInv
    <3>2. threshold \in Thresholds
      BY <3>1 DEF TypeOK
    <3>3. threshold \in Nat \ {0}
      BY <3>2, AlertsAssumption
    <3> QED
      BY <3>1, <3>3
  <2>4. expected \in Int /\ expected >= -1
    BY DEF TypeOK, Times, NoTime
  <2>5. latest = NoSample \/ latest.captured \in Nat
    BY DEF EvidenceInv
  <2> QED
    BY <2>1, <2>2, <2>3, <2>4, <2>5
<1>2. CASE latest = NoSample
  <2>1. d.observed = -1 /\ d.evidence = 0 /\ d.state # "FALSE" /\ latest.captured = -1 /\ latest.hash = 0
    BY <1>2 DEF HeartbeatDecision, NoSample, NoTime
  <2>2. \/ b.status = a.status /\ b.observed = a.observed /\ b.evidence = a.evidence
        \/ b.status = "OPEN" /\ b.observed = d.observed /\ b.evidence = d.evidence /\ d.state = "TRUE"
    <3> HIDE DEF d
    <3>1. b = Applied(a, d, ids + 1)
      BY DEF d
    <3> QED
      BY <1>1, <2>1, <3>1, AppliedCases
  <2> HIDE DEF d
  <2>3. HeartbeatInv(b)
    BY <1>1, <1>2, <2>1, <2>2 DEF HeartbeatInv
  <2>4. a.status = "OPEN" /\ b.status # "OPEN" => FALSE
    BY <2>2
  <2> QED
    BY <1>2, <2>3, <2>4
<1>3. CASE latest # NoSample
  <2>1. /\ d.rule = Heartbeat /\ d.observed = latest.captured /\ d.evidence = latest.hash
        /\ latest.captured \in Nat /\ d.observed # NoTime
        /\ \/ d.state = "TRUE" /\ clock - latest.captured > rules
           \/ d.state = "FALSE" /\ ~(clock - latest.captured > rules)
    BY <1>1, <1>3 DEF HeartbeatDecision, Age, NoTime
  <2> HIDE DEF d
  <2>2. b = Applied(a, d, ids + 1)
    BY DEF d
  <2>3. a.observed <= latest.captured
    BY DEF HeartbeatInv
  <2>4. CASE d.state = "TRUE"
    <3>1. \/ /\ b.status = a.status /\ b.observed = a.observed /\ b.evidence = a.evidence
             /\ a.status = "OPEN" \/ Suppressed(a, d)
          \/ b.status = "OPEN" /\ b.observed = d.observed /\ b.evidence = d.evidence
      BY <1>1, <2>2, <2>4, AppliedCases
    <3>2. a.status # "OPEN" /\ Suppressed(a, d) => a.observed = latest.captured /\ a.evidence # latest.hash
      BY <1>1, <2>1, <2>3 DEF Suppressed
    <3>3. HeartbeatInv(b)
      <4>1. CASE b.status = "OPEN" /\ b.observed = d.observed /\ b.evidence = d.evidence
        BY <1>1, <2>1, <2>4, <4>1 DEF HeartbeatInv
      <4>2. CASE b.status = a.status /\ b.observed = a.observed /\ b.evidence = a.evidence
        BY <4>2 DEF HeartbeatInv
      <4> QED
        BY <3>1, <4>1, <4>2
    <3> QED
      BY <2>4, <3>1, <3>2, <3>3 DEF d
  <2>5. CASE d.state = "FALSE"
    <3>1. a.status = "OPEN" /\ a.observed = latest.captured => FALSE
      BY <1>1, <1>3, <2>1, <2>5 DEF HeartbeatInv
    <3>2. \/ /\ b.status = a.status /\ b.observed = a.observed /\ b.evidence = a.evidence
             /\ a.status # "OPEN" \/ Outdated(a, d)
          \/ /\ a.status = "OPEN" /\ b.status = "RECOVERED" /\ b.observed = d.observed /\ b.evidence = d.evidence
      BY <1>1, <2>2, <2>5, AppliedCases
    <3>3. a.status = "OPEN" => a.observed < latest.captured /\ ~Outdated(a, d)
      BY <1>1, <2>1, <2>3, <3>1 DEF Outdated
    <3>4. HeartbeatInv(b)
      BY <1>1, <2>1, <3>2, <3>3 DEF HeartbeatInv
    <3> QED
      BY <2>5, <3>2, <3>3, <3>4 DEF d
  <2> QED
    BY <2>1, <2>4, <2>5
<1> QED
  BY <1>2, <1>3

\* Applying the worker decision keeps its alert in agreement with the latest sample; it
\* says what the decision says, but for a tie; and it closes only for a later sample.
LEMMA WorkerApplied ==
  ASSUME TypeOK, EvidenceInv, latest # NoSample, NEW a \in AlertRecords, WorkerInv(a),
         NEW b, b = Applied(a, WorkerDecision, ids + 1)
  PROVE  /\ WorkerInv(b)
         /\ \/ WorkerDecision.state = "UNKNOWN"
            \/ WorkerDecision.state = "TRUE" /\ b.status = "OPEN"
            \/ WorkerDecision.state = "FALSE" /\ b.status # "OPEN"
            \/ a.observed = latest.captured /\ a.evidence # latest.hash
         /\ a.status = "OPEN" /\ b.status # "OPEN" => b.status = "RECOVERED" /\ a.observed < latest.captured
<1> DEFINE d == WorkerDecision
<1>1. /\ clock \in Nat /\ ids + 1 \in Nat /\ latest.captured \in Nat /\ latest.hash \in Nat
      /\ a.observed \in Int /\ a.evidence \in Nat /\ d \in Decisions
  BY AlertTypes, DecisionTypes DEF TypeOK, AlertRecords, Times, NoTime, EvidenceInv
<1>2. /\ d.rule = WorkerRule /\ d.observed = latest.captured /\ d.evidence = latest.hash
      /\ d.observed # NoTime /\ d.rule \in SourceRules /\ d.rule \notin {Heartbeat, Freshness}
      /\ d.state = "TRUE" => latest.worker = "STOPPED"
      /\ d.state = "FALSE" => latest.worker = "RUNNING"
  BY <1>1, DisjointFingerprints DEF WorkerDecision, NoTime, SourceRules, TypeOK
<1>3. d.state \in {"TRUE", "FALSE", "UNKNOWN"}
  BY <1>1 DEF Decisions, Verdicts
<1> HIDE DEF d
<1>4. b = Applied(a, d, ids + 1)
  BY DEF d
<1>5. a.observed <= latest.captured
  BY DEF WorkerInv
<1>6. CASE d.state = "UNKNOWN"
  <2>1. b.status = a.status /\ b.observed = a.observed /\ b.evidence = a.evidence
    BY <1>1, <1>4, <1>6, AppliedCases
  <2> QED
    BY <1>6, <2>1 DEF WorkerInv, d
<1>7. CASE d.state = "TRUE"
  <2>1. \/ /\ b.status = a.status /\ b.observed = a.observed /\ b.evidence = a.evidence
           /\ a.status = "OPEN" \/ Suppressed(a, d)
        \/ b.status = "OPEN" /\ b.observed = d.observed /\ b.evidence = d.evidence
    BY <1>1, <1>4, <1>7, AppliedCases
  <2>2. a.status # "OPEN" /\ Suppressed(a, d) => a.observed = latest.captured /\ a.evidence # latest.hash
    BY <1>1, <1>2, <1>5, <1>7 DEF Suppressed, WorkerInv
  <2>3. WorkerInv(b)
    <3>1. CASE b.status = "OPEN" /\ b.observed = d.observed /\ b.evidence = d.evidence
      BY <1>1, <1>2, <1>7, <3>1 DEF WorkerInv
    <3>2. CASE b.status = a.status /\ b.observed = a.observed /\ b.evidence = a.evidence
      BY <3>2 DEF WorkerInv
    <3> QED
      BY <2>1, <3>1, <3>2
  <2> QED
    BY <1>7, <2>1, <2>2, <2>3 DEF d
<1>8. CASE d.state = "FALSE"
  <2>1. \/ /\ b.status = a.status /\ b.observed = a.observed /\ b.evidence = a.evidence
           /\ a.status # "OPEN" \/ Outdated(a, d)
        \/ /\ a.status = "OPEN" /\ ~Outdated(a, d)
           /\ b.status = "RECOVERED" /\ b.observed = d.observed /\ b.evidence = d.evidence
    BY <1>1, <1>4, <1>8, AppliedCases
  <2>2. Outdated(a, d) => a.observed = latest.captured /\ a.evidence # latest.hash
    BY <1>1, <1>2, <1>5 DEF Outdated
  <2>3. a.status = "OPEN" /\ ~Outdated(a, d) => a.observed < latest.captured
    <3>1. a.status = "OPEN" /\ a.observed = latest.captured => a.evidence # latest.hash
      BY <1>2, <1>8 DEF WorkerInv
    <3>2. a.observed = latest.captured /\ a.evidence # latest.hash => Outdated(a, d)
      BY <1>1, <1>2 DEF Outdated, NoTime
    <3> QED
      BY <1>1, <1>5, <3>1, <3>2
  <2>4. WorkerInv(b)
    <3>1. CASE b.status = "RECOVERED" /\ b.observed = d.observed /\ b.evidence = d.evidence
      BY <1>1, <1>2, <1>8, <3>1 DEF WorkerInv
    <3>2. CASE b.status = a.status /\ b.observed = a.observed /\ b.evidence = a.evidence
      BY <3>2 DEF WorkerInv
    <3> QED
      BY <2>1, <3>1, <3>2
  <2> QED
    BY <1>8, <2>1, <2>2, <2>3, <2>4 DEF d
<1> QED
  BY <1>3, <1>6, <1>7, <1>8

\* Applying the freshness decision keeps its alert in agreement with the latest version;
\* it says what the decision says; and it closes only for a later version.
LEMMA FreshnessApplied ==
  ASSUME TypeOK, EvidenceInv, NEW a \in AlertRecords, FreshnessInv(a),
         NEW b, b = Applied(a, FreshnessDecision, ids + 1)
  PROVE  /\ FreshnessInv(b)
         /\ FreshnessDecision.state = "TRUE" => b.status = "OPEN"
         /\ FreshnessDecision.state = "FALSE" => b.status # "OPEN"
         /\ a.status = "OPEN" /\ b.status # "OPEN" => b.status = "RECOVERED" /\ a.observed < version.verified
<1> DEFINE d == FreshnessDecision
           due == clock - version.created > Overdue
<1>1. /\ clock \in Nat /\ ids + 1 \in Nat /\ version.verified \in Int
      /\ a.observed \in Int /\ d \in Decisions
      /\ version = NoVersion \/ version.verified \in Nat
  BY AlertTypes, DecisionTypes DEF TypeOK, AlertRecords, Times, NoTime, EvidenceInv
<1>2. /\ d.rule = Freshness /\ d.observed = version.verified /\ d.evidence = version.run
      /\ d.state = "TRUE" => version # NoVersion /\ due
      /\ d.state = "FALSE" => version # NoVersion /\ ~due
  BY DEF FreshnessDecision
<1>3. d.state \in {"TRUE", "FALSE", "UNKNOWN"}
  BY <1>1 DEF Decisions, Verdicts
<1> HIDE DEF d, due
<1>4. b = Applied(a, d, ids + 1)
  BY DEF d
<1>5. /\ a.observed <= version.verified
      /\ a.observed = version.verified => a.evidence = version.run
      /\ a.observed = version.verified /\ a.status = "OPEN" => version # NoVersion /\ due
  BY DEF FreshnessInv, due
<1>6. ~Outdated(a, d)
  BY <1>1, <1>2, <1>5 DEF Outdated
<1>7. ~Suppressed(a, d)
  BY <1>1, <1>2, <1>5 DEF Suppressed
<1>8. \/ /\ b.status = a.status /\ b.observed = a.observed /\ b.evidence = a.evidence
         /\ d.state = "FALSE" => a.status # "OPEN"
         /\ d.state = "TRUE" => a.status = "OPEN"
      \/ b.status = "OPEN" /\ b.observed = d.observed /\ b.evidence = d.evidence /\ d.state = "TRUE"
      \/ /\ a.status = "OPEN" /\ d.state = "FALSE"
         /\ b.status = "RECOVERED" /\ b.observed = d.observed /\ b.evidence = d.evidence
  BY <1>1, <1>4, <1>6, <1>7, AppliedCases
<1>9. FreshnessInv(b)
  BY <1>1, <1>2, <1>5, <1>8 DEF FreshnessInv, due
<1>10. a.status = "OPEN" /\ b.status # "OPEN" => b.status = "RECOVERED" /\ a.observed < version.verified
  BY <1>1, <1>2, <1>5, <1>8
<1> QED
  BY <1>3, <1>8, <1>9, <1>10 DEF d

\* Applying the decision about the latest run keeps its alert in agreement with the run;
\* it says what the decision says; and it closes only for later news of a run.
LEMMA RunRuleApplied ==
  ASSUME TypeOK, NEW a \in AlertRecords, RunRuleInv(a),
         NEW b, b = Applied(a, BusinessDecision, ids + 1)
  PROVE  /\ RunRuleInv(b)
         /\ BusinessDecision.state = "TRUE" => b.status = "OPEN"
         /\ BusinessDecision.state = "FALSE" => b.status # "OPEN"
         /\ a.status = "OPEN" /\ b.status # "OPEN" => b.status = "RECOVERED" /\ a.observed < business.updated
<1> DEFINE d == BusinessDecision
<1>1. /\ clock \in Nat /\ ids + 1 \in Nat /\ business.updated \in Int
      /\ a.observed \in Int /\ d \in Decisions
  BY AlertTypes, DecisionTypes DEF TypeOK, AlertRecords, Times, NoTime
<1>2. /\ d.rule = RunRule /\ d.observed = business.updated /\ d.evidence = business.run
      /\ d.state = "TRUE" <=> business.status = "FAILED"
      /\ d.state = "FALSE" <=> business.status = "VERIFIED"
  BY DEF BusinessDecision
<1>3. d.state \in {"TRUE", "FALSE", "UNKNOWN"}
  BY <1>1 DEF Decisions, Verdicts
<1> HIDE DEF d
<1>4. b = Applied(a, d, ids + 1)
  BY DEF d
<1>5. /\ a.observed <= business.updated
      /\ a.observed = business.updated => a.evidence = business.run
      /\ a.observed = business.updated /\ a.status = "OPEN" => business.status = "FAILED"
      /\ a.observed = business.updated /\ a.status = "RECOVERED" => business.status = "VERIFIED"
  BY DEF RunRuleInv
<1>6. ~Outdated(a, d)
  BY <1>1, <1>2, <1>5 DEF Outdated
<1>7. d.state = "TRUE" => ~Suppressed(a, d)
  BY <1>1, <1>2, <1>5 DEF Suppressed
<1>8. \/ /\ b.status = a.status /\ b.observed = a.observed /\ b.evidence = a.evidence
         /\ d.state = "FALSE" => a.status # "OPEN"
         /\ d.state = "TRUE" => a.status = "OPEN"
      \/ b.status = "OPEN" /\ b.observed = d.observed /\ b.evidence = d.evidence /\ d.state = "TRUE"
      \/ /\ a.status = "OPEN" /\ d.state = "FALSE"
         /\ b.status = "RECOVERED" /\ b.observed = d.observed /\ b.evidence = d.evidence
  BY <1>1, <1>4, <1>6, <1>7, AppliedCases
<1>9. RunRuleInv(b)
  BY <1>1, <1>2, <1>5, <1>8 DEF RunRuleInv
<1>10. a.status = "OPEN" /\ b.status # "OPEN" => b.status = "RECOVERED" /\ a.observed < business.updated
  BY <1>1, <1>2, <1>5, <1>8
<1> QED
  BY <1>3, <1>8, <1>9, <1>10 DEF d

\* The invariants of an alert look at its status and evidence alone, and ask nothing of
\* one that was never raised or is closed by a change of the rules.
LEMMA AlertInvsLookAt ==
  ASSUME NEW a, NEW b, a.status = b.status, a.observed = b.observed, a.evidence = b.evidence
  PROVE  /\ HeartbeatInv(a) => HeartbeatInv(b)
         /\ WorkerInv(a) => WorkerInv(b)
         /\ FreshnessInv(a) => FreshnessInv(b)
         /\ RunRuleInv(a) => RunRuleInv(b)
BY DEF HeartbeatInv, WorkerInv, FreshnessInv, RunRuleInv

\* The same holds for an alert that a change of the rules has closed.
LEMMA AlertInvsClosed ==
  ASSUME NEW a, NEW b, b.status = "DISABLED", a.observed = b.observed, a.evidence = b.evidence
  PROVE  /\ HeartbeatInv(a) => HeartbeatInv(b)
         /\ WorkerInv(a) => WorkerInv(b)
         /\ FreshnessInv(a) => FreshnessInv(b)
         /\ RunRuleInv(a) => RunRuleInv(b)
BY DEF HeartbeatInv, WorkerInv, FreshnessInv, RunRuleInv

\* NoAlert agrees with any evidence.
LEMMA AlertInvsNone ==
  ASSUME TypeOK, EvidenceInv
  PROVE  HeartbeatInv(NoAlert) /\ WorkerInv(NoAlert) /\ FreshnessInv(NoAlert) /\ RunRuleInv(NoAlert)
<1>1. /\ NoAlert.observed = -1 /\ NoAlert.evidence = 0 /\ NoAlert.status = "none"
      /\ NoSample.hash = 0 /\ NoVersion.run = 0 /\ NoBusiness.run = 0
      /\ NoSample.captured = -1 /\ NoVersion.verified = -1 /\ NoBusiness.updated = -1
  BY DEF NoAlert, NoTime, NoSample, NoVersion, NoBusiness
<1>2. /\ latest = NoSample \/ latest.captured \in Nat
      /\ version = NoVersion \/ version.verified \in Nat
      /\ business = NoBusiness \/ business.updated \in Nat
      /\ latest.hash \in Nat
  BY AlertTypes DEF EvidenceInv
<1> QED
  BY <1>1, <1>2 DEF HeartbeatInv, WorkerInv, FreshnessInv, RunRuleInv

-------------------------------------------------------------------------------
(* What a step of a round does to the alert of each rule                     *)

RuleAlerts == SourceRules \cup TableRules

\* An outcome that comes of no decision.
LEMMA UndecidedOutcome ==
  ASSUME TypeOK, NEW f \in RuleAlerts, NEW a, Outcome(f, a)
  PROVE  \/ a = NoAlert /\ ~IsOpen(f)
         \/ a.status = alert[f].status /\ a.observed = alert[f].observed /\ a.evidence = alert[f].evidence
         \/ /\ a.status = "DISABLED" /\ a.observed = alert[f].observed /\ a.evidence = alert[f].evidence
            /\ IsOpen(f) /\ rules # threshold
         \/ \E b : /\ a.status = b.status /\ a.observed = b.observed /\ a.evidence = b.evidence
                   /\ f = Heartbeat /\ pc = "source" /\ b = Applied(alert[f], HeartbeatDecision, ids + 1)
         \/ \E b : /\ a.status = b.status /\ a.observed = b.observed /\ a.evidence = b.evidence
                   /\ f = WorkerRule /\ pc = "source" /\ latest # NoSample
                   /\ b = Applied(alert[f], WorkerDecision, ids + 1)
         \/ \E b : /\ a.status = b.status /\ a.observed = b.observed /\ a.evidence = b.evidence
                   /\ f = Freshness /\ pc = "rds" /\ b = Applied(alert[f], FreshnessDecision, ids + 1)
         \/ \E b : /\ a.status = b.status /\ a.observed = b.observed /\ a.evidence = b.evidence
                   /\ f = RunRule /\ pc = "rds" /\ b = Applied(alert[f], BusinessDecision, ids + 1)
<1>1. f \in Fingerprints /\ alert[f] \in AlertRecords
  BY AlertTypes DEF Fingerprints, RuleAlerts
<1>2. CASE a = alert[f] \/ a = Unavailable(alert[f])
  BY <1>1, <1>2, UnavailableType
<1>3. CASE a = NoAlert /\ ~IsOpen(f)
  BY <1>3
<1>4. CASE a = Disabled(f) /\ rules # threshold
  BY <1>1, <1>4, DisabledType
<1>5. ASSUME NEW d, Decided(f, d),
             a = Applied(alert[f], d, ids + 1) \/ a = Unavailable(Applied(alert[f], d, ids + 1))
      PROVE  \E b : /\ a.status = b.status /\ a.observed = b.observed /\ a.evidence = b.evidence
                    /\ b = Applied(alert[f], d, ids + 1)
  <2> DEFINE b == Applied(alert[f], d, ids + 1)
  <2>1. b \in AlertRecords
    <3>1. ids + 1 \in Nat /\ clock \in Nat /\ d \in Decisions
      BY <1>1, <1>5, AlertTypes, DecidedType
    <3> QED
      BY <1>1, <3>1, AppliedType
  <2> HIDE DEF b
  <2>2. a.status = b.status /\ a.observed = b.observed /\ a.evidence = b.evidence
    BY <1>5, <2>1, UnavailableType DEF b
  <2> QED
    BY <2>2 DEF b
<1>6. ASSUME NEW d, Decided(f, d)
      PROVE  \/ f = Heartbeat /\ pc = "source" /\ d = HeartbeatDecision
             \/ f = WorkerRule /\ pc = "source" /\ latest # NoSample /\ d = WorkerDecision
             \/ f = Freshness /\ pc = "rds" /\ d = FreshnessDecision
             \/ f = RunRule /\ pc = "rds" /\ d = BusinessDecision
  <2>1. f \notin Runs /\ KnownPending \subseteq Runs
    BY DisjointFingerprints, PendingOpen DEF RuleAlerts, KnownPending
  <2> QED
    BY <1>6, <2>1 DEF Decided
<1>7. CASE \E d : Decided(f, d) /\ (\/ a = Applied(alert[f], d, ids + 1)
                                  \/ a = Unavailable(Applied(alert[f], d, ids + 1)))
  <2>1. PICK d : Decided(f, d) /\ (\/ a = Applied(alert[f], d, ids + 1)
                                  \/ a = Unavailable(Applied(alert[f], d, ids + 1)))
    BY <1>7
  <2>2. PICK b : /\ a.status = b.status /\ a.observed = b.observed /\ a.evidence = b.evidence
                 /\ b = Applied(alert[f], d, ids + 1)
    BY <1>5, <2>1
  <2> QED
    BY <1>6, <2>1, <2>2
<1> QED
  BY <1>2, <1>3, <1>4, <1>7 DEF Outcome

\* Every outcome of the heartbeat alert agrees with the latest sample, and closes it by a
\* change of the rules or a later sample only.
LEMMA HeartbeatOutcome ==
  ASSUME TypeOK, RoundInv, EvidenceInv, HeartbeatInv(alert[Heartbeat]), NEW a, Outcome(Heartbeat, a)
  PROVE  /\ HeartbeatInv(a)
         /\ IsOpen(Heartbeat) /\ a.status # "OPEN" =>
              \/ a.status = "DISABLED" /\ threshold # rules
              \/ a.status = "RECOVERED" /\ alert[Heartbeat].observed < latest.captured
<1>1. Heartbeat \in RuleAlerts /\ alert[Heartbeat] \in AlertRecords
  BY AlertTypes DEF RuleAlerts, SourceRules, Fingerprints
<1>2. ASSUME NEW b, a.status = b.status, a.observed = b.observed, a.evidence = b.evidence, pc = "source",
             b = Applied(alert[Heartbeat], HeartbeatDecision, ids + 1)
      PROVE  /\ HeartbeatInv(a)
             /\ IsOpen(Heartbeat) /\ a.status # "OPEN" =>
                  a.status = "RECOVERED" /\ alert[Heartbeat].observed < latest.captured
  <2>1. /\ HeartbeatInv(b)
        /\ IsOpen(Heartbeat) /\ b.status # "OPEN" =>
             b.status = "RECOVERED" /\ alert[Heartbeat].observed < latest.captured
    BY <1>1, <1>2, HeartbeatApplied DEF IsOpen
  <2> QED
    BY <1>2, <2>1, AlertInvsLookAt
<1>3. CASE a.status = alert[Heartbeat].status /\ a.observed = alert[Heartbeat].observed
           /\ a.evidence = alert[Heartbeat].evidence
  BY <1>3, AlertInvsLookAt DEF IsOpen
<1>4. CASE a.status = "DISABLED" /\ a.observed = alert[Heartbeat].observed
           /\ a.evidence = alert[Heartbeat].evidence /\ rules # threshold
  BY <1>4, AlertInvsClosed
<1>5. CASE a = NoAlert /\ ~IsOpen(Heartbeat)
  BY <1>5, AlertInvsNone
<1> QED
  BY <1>1, <1>2, <1>3, <1>4, <1>5, UndecidedOutcome, DisjointFingerprints

\* Every outcome of the worker alert agrees with the latest sample, and closes it by a
\* change of the rules or a later sample only.
LEMMA WorkerOutcome ==
  ASSUME TypeOK, RoundInv, EvidenceInv, WorkerInv(alert[WorkerRule]), NEW a, Outcome(WorkerRule, a)
  PROVE  /\ WorkerInv(a)
         /\ IsOpen(WorkerRule) /\ a.status # "OPEN" =>
              \/ a.status = "DISABLED" /\ threshold # rules
              \/ a.status = "RECOVERED" /\ alert[WorkerRule].observed < latest.captured
<1>1. WorkerRule \in RuleAlerts /\ alert[WorkerRule] \in AlertRecords
  BY AlertTypes DEF RuleAlerts, SourceRules, Fingerprints
<1>2. ASSUME NEW b, a.status = b.status, a.observed = b.observed, a.evidence = b.evidence, pc = "source", latest # NoSample,
             b = Applied(alert[WorkerRule], WorkerDecision, ids + 1)
      PROVE  /\ WorkerInv(a)
             /\ IsOpen(WorkerRule) /\ a.status # "OPEN" =>
                  a.status = "RECOVERED" /\ alert[WorkerRule].observed < latest.captured
  <2>1. /\ WorkerInv(b)
        /\ IsOpen(WorkerRule) /\ b.status # "OPEN" =>
             b.status = "RECOVERED" /\ alert[WorkerRule].observed < latest.captured
    BY <1>1, <1>2, WorkerApplied DEF IsOpen
  <2> QED
    BY <1>2, <2>1, AlertInvsLookAt
<1>3. CASE a.status = alert[WorkerRule].status /\ a.observed = alert[WorkerRule].observed
           /\ a.evidence = alert[WorkerRule].evidence
  BY <1>3, AlertInvsLookAt DEF IsOpen
<1>4. CASE a.status = "DISABLED" /\ a.observed = alert[WorkerRule].observed
           /\ a.evidence = alert[WorkerRule].evidence /\ rules # threshold
  BY <1>4, AlertInvsClosed
<1>5. CASE a = NoAlert /\ ~IsOpen(WorkerRule)
  BY <1>5, AlertInvsNone
<1> QED
  BY <1>1, <1>2, <1>3, <1>4, <1>5, UndecidedOutcome, DisjointFingerprints

\* Every outcome of the freshness alert agrees with the latest version, and closes it by
\* a change of the rules or a later version only.
LEMMA FreshnessOutcome ==
  ASSUME TypeOK, RoundInv, EvidenceInv, FreshnessInv(alert[Freshness]), NEW a, Outcome(Freshness, a)
  PROVE  /\ FreshnessInv(a)
         /\ IsOpen(Freshness) /\ a.status # "OPEN" =>
              \/ a.status = "DISABLED" /\ threshold # rules
              \/ a.status = "RECOVERED" /\ alert[Freshness].observed < version.verified
<1>1. Freshness \in RuleAlerts /\ alert[Freshness] \in AlertRecords
  BY AlertTypes DEF RuleAlerts, TableRules, Fingerprints
<1>2. ASSUME NEW b, a.status = b.status, a.observed = b.observed, a.evidence = b.evidence, pc = "rds",
             b = Applied(alert[Freshness], FreshnessDecision, ids + 1)
      PROVE  /\ FreshnessInv(a)
             /\ IsOpen(Freshness) /\ a.status # "OPEN" =>
                  a.status = "RECOVERED" /\ alert[Freshness].observed < version.verified
  <2>1. /\ FreshnessInv(b)
        /\ IsOpen(Freshness) /\ b.status # "OPEN" =>
             b.status = "RECOVERED" /\ alert[Freshness].observed < version.verified
    BY <1>1, <1>2, FreshnessApplied DEF IsOpen
  <2> QED
    BY <1>2, <2>1, AlertInvsLookAt
<1>3. CASE a.status = alert[Freshness].status /\ a.observed = alert[Freshness].observed
           /\ a.evidence = alert[Freshness].evidence
  BY <1>3, AlertInvsLookAt DEF IsOpen
<1>4. CASE a.status = "DISABLED" /\ a.observed = alert[Freshness].observed
           /\ a.evidence = alert[Freshness].evidence /\ rules # threshold
  BY <1>4, AlertInvsClosed
<1>5. CASE a = NoAlert /\ ~IsOpen(Freshness)
  BY <1>5, AlertInvsNone
<1> QED
  BY <1>1, <1>2, <1>3, <1>4, <1>5, UndecidedOutcome, DisjointFingerprints

\* Every outcome of the run alert agrees with the latest run, and closes it by a change
\* of the rules or later news only.
LEMMA RunRuleOutcome ==
  ASSUME TypeOK, RoundInv, EvidenceInv, RunRuleInv(alert[RunRule]), NEW a, Outcome(RunRule, a)
  PROVE  /\ RunRuleInv(a)
         /\ IsOpen(RunRule) /\ a.status # "OPEN" =>
              \/ a.status = "DISABLED" /\ threshold # rules
              \/ a.status = "RECOVERED" /\ alert[RunRule].observed < business.updated
<1>1. RunRule \in RuleAlerts /\ alert[RunRule] \in AlertRecords
  BY AlertTypes DEF RuleAlerts, TableRules, Fingerprints
<1>2. ASSUME NEW b, a.status = b.status, a.observed = b.observed, a.evidence = b.evidence, pc = "rds",
             b = Applied(alert[RunRule], BusinessDecision, ids + 1)
      PROVE  /\ RunRuleInv(a)
             /\ IsOpen(RunRule) /\ a.status # "OPEN" =>
                  a.status = "RECOVERED" /\ alert[RunRule].observed < business.updated
  <2>1. /\ RunRuleInv(b)
        /\ IsOpen(RunRule) /\ b.status # "OPEN" =>
             b.status = "RECOVERED" /\ alert[RunRule].observed < business.updated
    BY <1>1, <1>2, RunRuleApplied DEF IsOpen
  <2> QED
    BY <1>2, <2>1, AlertInvsLookAt
<1>3. CASE a.status = alert[RunRule].status /\ a.observed = alert[RunRule].observed
           /\ a.evidence = alert[RunRule].evidence
  BY <1>3, AlertInvsLookAt DEF IsOpen
<1>4. CASE a.status = "DISABLED" /\ a.observed = alert[RunRule].observed
           /\ a.evidence = alert[RunRule].evidence /\ rules # threshold
  BY <1>4, AlertInvsClosed
<1>5. CASE a = NoAlert /\ ~IsOpen(RunRule)
  BY <1>5, AlertInvsNone
<1> QED
  BY <1>1, <1>2, <1>3, <1>4, <1>5, UndecidedOutcome, DisjointFingerprints

-------------------------------------------------------------------------------
(* Every step keeps the alerts in agreement with their evidence              *)

\* The steps of a round keep AlertInv.
LEMMA RoundAlertInv ==
  ASSUME TypeOK, RoundInv, EvidenceInv, AlertInv, Evaluates
  PROVE  AlertInv'
<1>1. UNCHANGED <<clock, latest, version, business>>
  BY DEF Evaluates, Round, BeginRound, EvaluateSource, EvaluateRds, EvaluateIncoming, Expire, FamilyFails, inputs
<1>2. Heartbeat \in Fingerprints /\ WorkerRule \in Fingerprints /\ Freshness \in Fingerprints /\ RunRule \in Fingerprints
  BY DEF Fingerprints, SourceRules, TableRules
<1>3. WorkerInv(alert'[WorkerRule])
  BY <1>2, Outcomes, WorkerOutcome DEF AlertInv
<1>4. FreshnessInv(alert'[Freshness])
  BY <1>2, Outcomes, FreshnessOutcome DEF AlertInv
<1>5. RunRuleInv(alert'[RunRule])
  BY <1>2, Outcomes, RunRuleOutcome DEF AlertInv
<1>6. HeartbeatInv(alert'[Heartbeat])
  BY <1>2, Outcomes, HeartbeatOutcome DEF AlertInv
<1>7. rules' = rules \/ alert'[Heartbeat].status # "OPEN"
  <2>1. CASE BeginRound
    <3>1. CASE alert'[Heartbeat] = Disabled(Heartbeat)
      BY <1>2, <3>1, DisabledType
    <3>2. CASE alert'[Heartbeat] = alert[Heartbeat] /\ rules = Off
      BY <1>2, <3>2 DEF RoundInv, IsOpen
    <3> QED
      BY <1>2, <2>1, <3>1, <3>2 DEF BeginRound
  <2>2. CASE ~BeginRound
    BY <2>2 DEF Evaluates, Round, EvaluateSource, EvaluateRds, EvaluateIncoming, Expire, FamilyFails
  <2> QED
    BY <2>1, <2>2
<1>8. HeartbeatInv(alert[Heartbeat])'
  BY <1>1, <1>6, <1>7 DEF HeartbeatInv
<1>9. WorkerInv(alert[WorkerRule])' /\ FreshnessInv(alert[Freshness])' /\ RunRuleInv(alert[RunRule])'
  BY <1>1, <1>3, <1>4, <1>5 DEF WorkerInv, FreshnessInv, RunRuleInv
<1> QED
  BY <1>8, <1>9 DEF AlertInv

\* Time keeps AlertInv: what was overdue stays overdue.
LEMMA TickAlertInv ==
  ASSUME TypeOK, AlertInv, Tick
  PROVE  AlertInv'
<1>1. /\ clock' = clock + 1 /\ UNCHANGED <<latest, version, business, alert, rules>>
  BY DEF Tick, state
<1>2. /\ clock \in Int /\ latest.captured \in Int /\ version.created \in Int /\ rules \in Int
      /\ alert[Heartbeat].observed \in Int /\ Overdue \in Int
  <2>1. rules \in Int /\ Overdue \in Int
    <3>1. rules \in Thresholds \cup {0}
      BY DEF TypeOK, Off
    <3> QED
      BY <3>1, AlertsAssumption
  <2>2. alert[Heartbeat] \in AlertRecords
    BY AlertTypes DEF Fingerprints, SourceRules
  <2> QED
    BY <2>1, <2>2, AlertTypes DEF TypeOK, AlertRecords, Times, NoTime
<1>3. HeartbeatInv(alert[Heartbeat])'
  BY <1>1, <1>2 DEF AlertInv, HeartbeatInv
<1>4. FreshnessInv(alert[Freshness])'
  BY <1>1, <1>2 DEF AlertInv, FreshnessInv
<1>5. WorkerInv(alert[WorkerRule])' /\ RunRuleInv(alert[RunRule])'
  BY <1>1 DEF AlertInv, WorkerInv, RunRuleInv
<1> QED
  BY <1>3, <1>4, <1>5 DEF AlertInv

\* A sample that counts is of a later second than an open heartbeat alert is about, or of
\* the second of the latest sample, and then as overdue as that.
LEMMA SampleAlertInv ==
  ASSUME TypeOK, AlertInv, ReceiveSample
  PROVE  AlertInv'
<1>1. UNCHANGED <<clock, version, business, alert, rules>>
  BY DEF ReceiveSample, state
<1>2. /\ latest'.captured \in Nat /\ latest'.hash \in Nat
      /\ \/ latest'.captured > latest.captured
         \/ latest'.captured = latest.captured /\ latest'.hash > latest.hash
  <2>1. PICK sample \in [captured : ((clock - History)..(clock + Future)) \cap Nat, hash : {1, 2},
                         worker : {"RUNNING", "STOPPED", "UNKNOWN"}] : Newer(sample) /\ latest' = sample
    BY DEF ReceiveSample
  <2> QED
    BY <2>1 DEF Newer
<1>3. /\ alert[Heartbeat].observed \in Int /\ alert[WorkerRule].observed \in Int /\ alert[WorkerRule].evidence \in Nat
      /\ clock \in Nat /\ latest.captured \in Int /\ latest.hash \in Nat
      /\ latest = NoSample => latest.captured = -1
  BY AlertTypes DEF Fingerprints, SourceRules, AlertRecords, Times, NoTime, NoSample
<1>4. HeartbeatInv(alert[Heartbeat])'
  BY <1>1, <1>2, <1>3 DEF AlertInv, HeartbeatInv
<1>5. WorkerInv(alert[WorkerRule])'
  BY <1>1, <1>2, <1>3 DEF AlertInv, WorkerInv
<1>6. FreshnessInv(alert[Freshness])' /\ RunRuleInv(alert[RunRule])'
  BY <1>1 DEF AlertInv, FreshnessInv, RunRuleInv
<1> QED
  BY <1>4, <1>5, <1>6 DEF AlertInv

\* Work on a table keeps AlertInv: its news is later than what the alerts are about.
LEMMA WorkAlertInv ==
  ASSUME TypeOK, EvidenceInv, AlertInv, Work
  PROVE  AlertInv'
<1>1. UNCHANGED <<clock, latest, alert, rules>> /\ events' = events + 1
  BY DEF Work, state
<1>2. business' = business \/ business'.updated = events'
  <2>1. CASE business' = [status |-> "VALIDATED", updated |-> events', run |-> business.run + 1]
    BY <2>1
  <2>2. ASSUME NEW s, business' = [business EXCEPT !.status = s, !.updated = events']
        PROVE  business'.updated = events'
    BY <2>2 DEF TypeOK
  <2> QED
    BY <2>1, <2>2 DEF Work
<1>3. version' = version \/ version'.verified = events'
  <2>1. ASSUME NEW created, version' = [created |-> created, verified |-> events', run |-> business.run]
        PROVE  version'.verified = events'
    BY <2>1
  <2> QED
    BY <2>1 DEF Work
<1>4. /\ alert[Freshness].observed \in Int /\ alert[RunRule].observed \in Int /\ events \in Nat
      /\ version.verified \in Int /\ business.updated \in Int
      /\ version.verified <= events /\ business.updated <= events
  <2>1. alert[Freshness] \in AlertRecords /\ alert[RunRule] \in AlertRecords
    BY AlertTypes DEF Fingerprints, TableRules
  <2> QED
    BY <2>1 DEF AlertRecords, Times, NoTime, TypeOK, EvidenceInv
<1>5. FreshnessInv(alert[Freshness])'
  BY <1>1, <1>3, <1>4 DEF AlertInv, FreshnessInv
<1>6. RunRuleInv(alert[RunRule])'
  BY <1>1, <1>2, <1>4 DEF AlertInv, RunRuleInv
<1>7. HeartbeatInv(alert[Heartbeat])' /\ WorkerInv(alert[WorkerRule])'
  BY <1>1 DEF AlertInv, HeartbeatInv, WorkerInv
<1> QED
  BY <1>5, <1>6, <1>7 DEF AlertInv

\* Every step keeps AlertInv.
LEMMA AlertInvStep ==
  ASSUME TypeOK, RoundInv, EvidenceInv, AlertInv, [Next]_vars
  PROVE  AlertInv'
<1>1. CASE UNCHANGED <<clock, latest, version, business, alert, rules>>
  BY <1>1 DEF AlertInv, HeartbeatInv, WorkerInv, FreshnessInv, RunRuleInv
<1>2. CASE Evaluates
  BY <1>2, RoundAlertInv
<1>3. CASE Tick \/ ReceiveSample \/ Work
  BY <1>3, TickAlertInv, SampleAlertInv, WorkAlertInv
<1>4. CASE ~Evaluates /\ ~Tick /\ ~ReceiveSample /\ ~Work
  <2>1. UNCHANGED <<clock, latest, version, business>>
    BY <1>4 DEF Next, Evaluates, vars, inputs, Reconfigure, FilesChange, Register, Kill
  <2> QED
    BY <1>1, <1>4, <2>1, OthersKeepAlerts
<1> QED
  BY <1>2, <1>3, <1>4

-------------------------------------------------------------------------------
(* The theorems                                                              *)

\* The invariant holds when the monitor is first started.
LEMMA InvInit == Init => Inv
<1> SUFFICES ASSUME Init PROVE Inv
  OBVIOUS
<1> USE AlertsAssumption DEF Init, NoSample, NoVersion, NoBusiness, NoTime, Times, Off
<1>1. NoAlert \in AlertRecords
  BY DEF NoAlert, AlertRecords
<1>2. \A f \in Fingerprints : alert[f] = NoAlert /\ ~IsOpen(f)
  BY DEF IsOpen, NoAlert
<1>3. InputsOK /\ StateOK
  BY DEF InputsOK, StateOK
<1>4. alert \in [Fingerprints -> AlertRecords]
  BY <1>1
<1>5. OpenApart /\ NumbersInv
  BY <1>2 DEF OpenApart, NumbersInv, Fingerprints, NoAlert
<1>6. TypeOK
  BY <1>3, <1>4, <1>5, TypeParts
<1>7. RoundInv
  BY <1>2 DEF RoundInv
<1>8. EvidenceInv
  BY DEF EvidenceInv
<1>9. AlertInv
  <2>1. Heartbeat \in Fingerprints /\ WorkerRule \in Fingerprints /\ Freshness \in Fingerprints /\ RunRule \in Fingerprints
    BY DEF Fingerprints, SourceRules, TableRules
  <2> QED
    BY <1>2, <1>6, <1>8, <2>1, AlertInvsNone DEF AlertInv
<1> QED
  BY <1>5, <1>6, <1>7, <1>8, <1>9 DEF Inv

\* Every step keeps the invariant.
LEMMA InvStep == Inv /\ [Next]_vars => Inv'
BY TypeStep, RoundInvStep, EvidenceInvStep, NumbersStep, AlertInvStep DEF Inv

\* The inductive invariant, for any runs, rules, limits and bounds.
THEOREM Invariance == Spec => []Inv
BY InvInit, InvStep, PTL DEF Spec

\* Alerts, cursors and inputs keep their types, and no two open alerts of runs have the
\* same number, on which the paging of recovery rests.
THEOREM TypeCorrect == Spec => []TypeOK
<1>1. Inv => TypeOK
  BY DEF Inv
<1> QED
  BY <1>1, Invariance, PTL

\* In a state of the invariant, every evaluated family leaves its alerts saying what it
\* decided.
LEMMA AgreeStep ==
  ASSUME Inv, [Next]_vars
  PROVE  /\ Evaluated("source") /\ latest # NoSample =>
              /\ Agrees(Heartbeat, HeartbeatDecision) \/ (Tied(Heartbeat) /\ ~IsOpen(Heartbeat)')
              /\ Agrees(WorkerRule, WorkerDecision) \/ Tied(WorkerRule)
         /\ Evaluated("rds") =>
              /\ Agrees(Freshness, FreshnessDecision)
              /\ Agrees(RunRule, BusinessDecision)
<1> USE DEF Inv
<1>1. \A f \in Fingerprints : alert[f] \in AlertRecords
  BY AlertTypes
<1>2. ASSUME Evaluated("source"), latest # NoSample
      PROVE  /\ Agrees(Heartbeat, HeartbeatDecision) \/ (Tied(Heartbeat) /\ ~IsOpen(Heartbeat)')
             /\ Agrees(WorkerRule, WorkerDecision) \/ Tied(WorkerRule)
  <2>1. EvaluateSource
    BY <1>2 DEF Evaluated, Next, Round, RoundInv, vars, inputs, state, counters, Tick, ReceiveSample, Work,
       Reconfigure, FilesChange, Register, Kill, BeginRound, EvaluateRds, EvaluateIncoming, Expire, FamilyFails
  <2>2. /\ alert'[Heartbeat] = Applied(alert[Heartbeat], HeartbeatDecision, ids + 1)
        /\ alert'[WorkerRule] = Applied(alert[WorkerRule], WorkerDecision, ids + 1)
        /\ Heartbeat \in Fingerprints /\ WorkerRule \in Fingerprints
    BY <1>2, <2>1, DisjointFingerprints DEF EvaluateSource, ApplyAll, SourceDecisions, SourceRules, Fingerprints
  <2>3. pc = "source"
    BY <2>1 DEF EvaluateSource
  <2>4. Agrees(Heartbeat, HeartbeatDecision) \/ (Tied(Heartbeat) /\ ~IsOpen(Heartbeat)')
    <3>1. \/ HeartbeatDecision.state = "TRUE" /\ alert'[Heartbeat].status = "OPEN"
          \/ HeartbeatDecision.state = "FALSE" /\ alert'[Heartbeat].status # "OPEN"
          \/ /\ alert[Heartbeat].observed = latest.captured /\ alert[Heartbeat].evidence # latest.hash
             /\ alert'[Heartbeat].status # "OPEN"
      BY <1>1, <1>2, <2>2, <2>3, HeartbeatApplied DEF AlertInv
    <3> QED
      BY <3>1 DEF Agrees, Tied, IsOpen
  <2>5. Agrees(WorkerRule, WorkerDecision) \/ Tied(WorkerRule)
    <3>1. \/ WorkerDecision.state = "UNKNOWN"
          \/ WorkerDecision.state = "TRUE" /\ alert'[WorkerRule].status = "OPEN"
          \/ WorkerDecision.state = "FALSE" /\ alert'[WorkerRule].status # "OPEN"
          \/ alert[WorkerRule].observed = latest.captured /\ alert[WorkerRule].evidence # latest.hash
      BY <1>1, <1>2, <2>2, WorkerApplied DEF AlertInv
    <3> QED
      BY <3>1 DEF Agrees, Tied, IsOpen
  <2> QED
    BY <2>4, <2>5
<1>3. ASSUME Evaluated("rds")
      PROVE  Agrees(Freshness, FreshnessDecision) /\ Agrees(RunRule, BusinessDecision)
  <2>1. EvaluateRds
    BY <1>3 DEF Evaluated, Next, Round, RoundInv, vars, inputs, state, counters, Tick, ReceiveSample, Work,
       Reconfigure, FilesChange, Register, Kill, BeginRound, EvaluateSource, EvaluateIncoming, Expire, FamilyFails
  <2>2. /\ alert'[Freshness] = Applied(alert[Freshness], FreshnessDecision, ids + 1)
        /\ alert'[RunRule] = Applied(alert[RunRule], BusinessDecision, ids + 1)
        /\ Freshness \in Fingerprints /\ RunRule \in Fingerprints
    BY <2>1, DisjointFingerprints DEF EvaluateRds, ApplyAll, RdsDecisions, TableRules, Fingerprints
  <2>3. Agrees(Freshness, FreshnessDecision)
    BY <1>1, <2>2, FreshnessApplied DEF AlertInv, Agrees, IsOpen
  <2>4. Agrees(RunRule, BusinessDecision)
    BY <1>1, <2>2, RunRuleApplied DEF AlertInv, Agrees, IsOpen
  <2> QED
    BY <2>3, <2>4
<1> QED
  BY <1>2, <1>3

\* After every family that was evaluated without failing, the alerts agree with the
\* latest sample, version and run (apply, evaluate), whatever recoveries, changes of
\* rules, failed families, kills and late samples came before; for any thresholds, times
\* and numbers of events.
THEOREM Agreement == Spec => AlertsAgree
BY Invariance, AgreeStep, PTL DEF Spec, AlertsAgree

\* An alert of a run is closed for a run the destination knows, or by a change of rules.
LEMMA RunClosed ==
  ASSUME TypeOK, NEW r \in Runs, NEW a, Outcome(r, a), IsOpen(r), a.status # "OPEN"
  PROVE  \/ a.status = "DISABLED" /\ threshold # rules
         \/ a.status = "RECOVERED" /\ r \in known
<1>1. r \in Fingerprints /\ alert[r] \in AlertRecords /\ alert[r].status = "OPEN"
  BY AlertTypes DEF Fingerprints, IsOpen
<1>2. CASE a = alert[r] \/ a = Unavailable(alert[r])
  BY <1>1, <1>2, UnavailableType
<1>3. CASE a = Disabled(r) /\ rules # threshold
  BY <1>1, <1>3, DisabledType
<1>4. ASSUME NEW d, Decided(r, d),
             a = Applied(alert[r], d, ids + 1) \/ a = Unavailable(Applied(alert[r], d, ids + 1))
      PROVE  a.status = "RECOVERED" /\ r \in known
  <2> DEFINE b == Applied(alert[r], d, ids + 1)
  <2>1. ids + 1 \in Nat /\ clock \in Nat /\ d \in Decisions
    BY <1>1, <1>4, AlertTypes, DecidedType
  <2>2. b \in AlertRecords
    BY <1>1, <2>1, AppliedType
  <2> HIDE DEF b
  <2>3. a.status = b.status
    BY <1>4, <2>2, UnavailableType DEF b
  <2>4. b.status = "RECOVERED" /\ d.state = "FALSE"
    <3>1. b = Applied(alert[r], d, ids + 1)
      BY DEF b
    <3> QED
      BY <1>1, <2>1, <2>3, <3>1, AppliedCases
  <2>5. r \in known
    <3>1. (d = RunDecision("FALSE", clock) /\ r \in KnownPending) \/ d = IncomingDecision(r)
      BY <1>4, DisjointFingerprints DEF Decided, SourceRules, TableRules
    <3> QED
      BY <2>4, <3>1 DEF KnownPending, IncomingDecision, RunDecision
  <2> QED
    BY <2>3, <2>4, <2>5
<1> QED
  BY <1>2, <1>3, <1>4 DEF Outcome

\* In a state of the invariant, a step closes an open alert for a stated reason only.
LEMMA ClosedStep ==
  ASSUME Inv, [Next]_vars, NEW f \in Fingerprints, IsOpen(f), ~IsOpen(f)'
  PROVE  \/ alert'[f].status = "DISABLED" /\ threshold # rules
         \/ alert'[f].status = "RECOVERED" /\ f \in known
         \/ alert'[f].status = "RECOVERED" /\ f \in SourceRules /\ alert[f].observed < latest.captured
         \/ alert'[f].status = "RECOVERED" /\ f = Freshness /\ alert[f].observed < version.verified
         \/ alert'[f].status = "RECOVERED" /\ f = RunRule /\ alert[f].observed < business.updated
<1> USE DEF Inv, AlertInv
<1>1. Evaluates /\ alert'[f].status # "OPEN"
  BY OthersKeepAlerts DEF IsOpen
<1>2. Outcome(f, alert'[f])
  BY <1>1, Outcomes
<1>3. CASE f \in Runs
  BY <1>1, <1>2, <1>3, RunClosed
<1>4. CASE f = Heartbeat
  BY <1>1, <1>2, <1>4, HeartbeatOutcome DEF SourceRules
<1>5. CASE f = WorkerRule
  BY <1>1, <1>2, <1>5, WorkerOutcome DEF SourceRules
<1>6. CASE f = Freshness
  BY <1>1, <1>2, <1>6, FreshnessOutcome
<1>7. CASE f = RunRule
  BY <1>1, <1>2, <1>7, RunRuleOutcome
<1> QED
  BY <1>3, <1>4, <1>5, <1>6, <1>7 DEF Fingerprints, SourceRules, TableRules

\* No failed family, missing file, repeated evidence or expiry closes an open alert
\* (apply, evaluate), for any thresholds, times and numbers of events.
THEOREM Closing == Spec => ClosedByEvidence
<1>1. Inv /\ [Next]_vars =>
        \A f \in Fingerprints : IsOpen(f) /\ ~IsOpen(f)' =>
       \/ alert'[f].status = "DISABLED" /\ threshold # rules
       \/ alert'[f].status = "RECOVERED" /\ f \in known
       \/ alert'[f].status = "RECOVERED" /\ f \in SourceRules /\ alert[f].observed < latest.captured
       \/ alert'[f].status = "RECOVERED" /\ f = Freshness /\ alert[f].observed < version.verified
       \/ alert'[f].status = "RECOVERED" /\ f = RunRule /\ alert[f].observed < business.updated
  BY ClosedStep
<1> QED
  BY <1>1, Invariance, PTL DEF Spec, ClosedByEvidence
=============================================================================
