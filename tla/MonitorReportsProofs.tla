------------------------ MODULE MonitorReportsProofs ------------------------
(***************************************************************************)
(* What the monitor shows of a run is right for any number of runs and     *)
(* reports, any window and any transfer: the safety properties of          *)
(* MonitorReports and the invariant they rest on.                          *)
(***************************************************************************)
EXTENDS MonitorReports, TLAPS

USE ReportsAssumption DEF source, reporter, monitor, clocks

-----------------------------------------------------------------------------
(* The inductive invariant                                                   *)

Facts == UNION {[D -> [status : Statuses, turn : Nat]] : D \in SUBSET Runs}
Observations == UNION {[D -> Progresses] : D \in SUBSET Runs}
Contents == [captured : Nat, facts : Facts, progress : Observations]

\* A sample that may come after another one of the same run.
Follows(p, q) ==
  /\ p.sequence <= q.sequence
  /\ p.state # "RUNNING" => q.state = p.state

\* The cursor is never farther from a run than the pages that passed it by.
CursorInv ==
  \A r \in Runs :
    /\ ~Exists(r) => unvisited[r] = 0
    /\ r <= cursor => unvisited[r] <= cursor - r
    /\ r > cursor => unvisited[r] <= NumRuns - r + cursor

\* A report says what was true when it was captured.
ReportInv ==
  \A i \in DOMAIN reports :
    /\ reports[i].captured <= source_clock
    /\ \A r \in DOMAIN reports[i].facts :
         /\ reports[i].facts[r].turn \in 1..Len(life[r])
         /\ reports[i].facts[r].status = life[r][reports[i].facts[r].turn]
    /\ \A r \in DOMAIN reports[i].progress : Follows(reports[i].progress[r], progress[r])

\* A later report is about a later moment.
OrderInv ==
  \A i, j \in DOMAIN reports : i < j =>
    /\ reports[i].captured <= reports[j].captured
    /\ \A r \in DOMAIN reports[i].facts \cap DOMAIN reports[j].facts :
         reports[i].facts[r].turn <= reports[j].facts[r].turn
    /\ \A r \in DOMAIN reports[i].progress \cap DOMAIN reports[j].progress :
         Follows(reports[i].progress[r], reports[j].progress[r])

\* A row shows what a report said that was captured no later than the row.
RowInv ==
  \A r \in Runs : rows[r] # NoRow =>
    /\ rows[r].turn <= shown[r]
    /\ rows[r].turn \in 1..Len(life[r])
    /\ rows[r].status = life[r][rows[r].turn]
    /\ rows[r].captured <= rows[r].received + Future /\ rows[r].received <= clock
    /\ \E k \in DOMAIN reports :
         /\ r \in DOMAIN reports[k].facts
         /\ reports[k].facts[r].turn = rows[r].turn
         /\ reports[k].captured <= rows[r].captured

\* When the latest status shown of a run is forgotten, the reports that say something
\* earlier are too old, or will be when the clock has gone on by Future.
ForgottenInv ==
  \A r \in Runs :
    /\ shown[r] <= Len(life[r])
    /\ rows[r].turn < shown[r] =>
         \A i \in DOMAIN reports :
           r \in DOMAIN reports[i].facts /\ reports[i].facts[r].turn < shown[r] =>
             reports[i].captured < clock - History + Future

\* The progress shown was in a report.
StageInv ==
  \A r \in Runs :
    \/ stages[r] = NoProgress
    \/ \E k \in DOMAIN reports : /\ r \in DOMAIN reports[k].progress
                                 /\ stages[r] = reports[k].progress[r]

IInv ==
  /\ TypeOK /\ reports \in Seq(Contents)
  /\ CursorInv /\ ReportInv /\ OrderInv /\ RowInv /\ ForgottenInv /\ StageInv
  /\ ConflictsAreReal

-----------------------------------------------------------------------------
(* What the source and the reporter do                                       *)

\* A run without a row has no turn and no conflicts.
LEMMA NoRowFacts == NoRow.turn = 0 /\ NoRow.conflicts = {}
BY DEF NoRow

\* A sample of a stage is progress that follows what was there before.
LEMMA SampledFollows ==
  ASSUME NEW p \in Progresses, NEW state \in StageStates
  PROVE  Sampled(p, state) \in Progresses /\ Follows(p, Sampled(p, state))
BY DEF Sampled, Progresses, StageStates, Follows, NoProgress

\* Progress follows itself.
LEMMA FollowsItself ==
  ASSUME NEW p \in Progresses
  PROVE  Follows(p, p)
BY DEF Follows, Progresses

\* What follows progress that follows is itself a follower.
LEMMA FollowsOn ==
  ASSUME NEW p \in Progresses, NEW q \in Progresses, NEW s \in Progresses,
         Follows(p, q), Follows(q, s)
  PROVE  Follows(p, s)
BY DEF Follows, Progresses

\* The fields of a report on its way have their types.
LEMMA ReportTypes ==
  ASSUME reports \in Seq(Contents), NEW i \in DOMAIN reports
  PROVE  /\ reports[i] \in Contents /\ reports[i].captured \in Nat
         /\ DOMAIN reports[i].facts \subseteq Runs /\ DOMAIN reports[i].progress \subseteq Runs
         /\ \A r \in DOMAIN reports[i].facts : /\ reports[i].facts[r].status \in Statuses
                                               /\ reports[i].facts[r].turn \in Nat
         /\ \A r \in DOMAIN reports[i].progress : reports[i].progress[r] \in Progresses
<1>1. reports[i] \in Contents
  OBVIOUS
<1>2. reports[i].captured \in Nat /\ reports[i].facts \in Facts /\ reports[i].progress \in Observations
  BY <1>1 DEF Contents
<1>3. PICK D \in SUBSET Runs : reports[i].facts \in [D -> [status : Statuses, turn : Nat]]
  BY <1>2 DEF Facts
<1>4. PICK E \in SUBSET Runs : reports[i].progress \in [E -> Progresses]
  BY <1>2 DEF Observations
<1> QED
  BY <1>1, <1>2, <1>3, <1>4

\* The source only adds to what a run was.
SourceStep == \E r \in Runs : BeginRun(r) \/ ChangeStatus(r) \/ Sample(r)

\* What may follow a status are statuses.
LEMMA FollowingType == \A s \in Statuses : Following(s) \subseteq Statuses
BY DEF Following, Statuses, Active, Failures

\* The source only adds to the life of a run and to its progress.
LEMMA SourceGrows ==
  ASSUME TypeOK, SourceStep
  PROVE  /\ life' \in [Runs -> Seq(Statuses)] /\ progress' \in [Runs -> Progresses]
         /\ \A r \in Runs : /\ Len(life[r]) <= Len(life'[r])
                            /\ \A n \in 1..Len(life[r]) : life'[r][n] = life[r][n]
                            /\ Follows(progress[r], progress'[r])
         /\ \A r \in Runs : Exists(r) => Exists(r)'
         /\ UNCHANGED <<reporter, monitor, clocks>>
<1> USE DEF Exists
<1>0. life \in [Runs -> Seq(Statuses)] /\ progress \in [Runs -> Progresses]
  BY DEF TypeOK
<1>1. PICK r \in Runs : BeginRun(r) \/ ChangeStatus(r) \/ Sample(r)
  BY DEF SourceStep
<1>2. CASE BeginRun(r)
  <2>1. progress' = progress /\ UNCHANGED <<reporter, monitor, clocks>>
    BY <1>2 DEF BeginRun
  <2>2. <<"GENERATING">> \in Seq(Statuses) /\ Len(<<"GENERATING">>) = 1
    BY DEF Statuses, Active
  <2>3. life' = [life EXCEPT ![r] = <<"GENERATING">>] /\ life[r] = <<>>
    BY <1>2 DEF BeginRun
  <2>4. life' \in [Runs -> Seq(Statuses)]
    BY <1>0, <2>2, <2>3
  <2>5. \A q \in Runs : /\ Len(life[q]) <= Len(life'[q])
                        /\ \A n \in 1..Len(life[q]) : life'[q][n] = life[q][n]
    BY <1>0, <2>2, <2>3
  <2> QED
    BY <1>0, <2>1, <2>2, <2>3, <2>4, <2>5, FollowsItself
<1>3. CASE ChangeStatus(r)
  <2>1. PICK s \in Following(Status(r)) :
               /\ life' = [life EXCEPT ![r] = Append(@, s)]
               /\ progress' = IF s \in Failures
                              THEN [progress EXCEPT ![r] = Sampled(@, "INTERRUPTED")]
                              ELSE progress
    BY <1>3 DEF ChangeStatus
  <2>2. UNCHANGED <<reporter, monitor, clocks>> /\ Len(life[r]) > 0
    BY <1>0, <1>3 DEF ChangeStatus
  <2>3. s \in Statuses
    BY <1>0, <2>1, <2>2, FollowingType DEF Status
  <2>4. life' \in [Runs -> Seq(Statuses)]
    BY <1>0, <2>1, <2>3
  <2>5. \A q \in Runs : /\ Len(life[q]) <= Len(life'[q])
                        /\ \A n \in 1..Len(life[q]) : life'[q][n] = life[q][n]
    BY <1>0, <2>1, <2>3
  <2>6. \A q \in Runs : Exists(q) => life'[q] # <<>>
    BY <1>0, <2>1, <2>3
  <2>7. progress' \in [Runs -> Progresses] /\ \A q \in Runs : Follows(progress[q], progress'[q])
    BY <1>0, <2>1, SampledFollows, FollowsItself DEF StageStates
  <2> QED
    BY <2>2, <2>4, <2>5, <2>6, <2>7
<1>4. CASE Sample(r)
  <2>1. PICK state \in StageStates : progress' = [progress EXCEPT ![r] = Sampled(@, state)]
    BY <1>4 DEF Sample, StageStates
  <2>2. life' = life /\ UNCHANGED <<reporter, monitor, clocks>>
    BY <1>4 DEF Sample
  <2>3. progress' \in [Runs -> Progresses] /\ \A q \in Runs : Follows(progress[q], progress'[q])
    BY <1>0, <2>1, SampledFollows, FollowsItself
  <2> QED
    BY <1>0, <2>2, <2>3
<1> QED
  BY <1>1, <1>2, <1>3, <1>4

\* A page has runs that exist, up to the one it ends with.
LEMMA PageFacts ==
  ASSUME NEW c \in 0..NumRuns, NEW last \in Ends(c)
  PROVE  /\ last \in 0..NumRuns
         /\ Page(c, last) \subseteq {r \in Runs : Exists(r) /\ r <= last}
         /\ last # 0 => last \in Page(c, last)
         /\ \A r \in Runs : Exists(r) /\ r > c /\ r <= last => r \in Page(c, last)
         /\ last # 0 /\ last <= c =>
              /\ \A r \in Runs : Exists(r) => r <= c
              /\ \A r \in Runs : Exists(r) /\ r <= last => r \in Page(c, last)
BY DEF Ends, Page, RowsAfter, Runs

\* A report states, at its time, what the source knows of the runs it names.
LEMMA ReportFacts ==
  ASSUME IInv, Report
  PROVE  /\ \E report \in Contents :
              /\ reports' = Append(reports, report)
              /\ report.captured = source_clock
              /\ \A r \in DOMAIN report.facts : /\ Exists(r)
                                                /\ report.facts[r].status = Status(r)
                                                /\ report.facts[r].turn = Len(life[r])
              /\ \A r \in DOMAIN report.progress : report.progress[r] = progress[r]
         /\ accepted' \subseteq accepted \cup {Len(reports) + 1}
         /\ progress_cursor' \in 0..NumRuns
         /\ \/ UNCHANGED <<cursor, unvisited>>
            \/ \E last \in Ends(cursor) :
                 /\ cursor' = CursorAfter(cursor, last)
                 /\ unvisited' = [r \in Runs |->
                      IF last = 0 \/ ~Exists(r) THEN unvisited[r]
                      ELSE IF r \in Page(cursor, last) THEN 0 ELSE unvisited[r] + 1]
         /\ UNCHANGED <<source, monitor, clocks>>
<1>0. /\ life \in [Runs -> Seq(Statuses)] /\ progress \in [Runs -> Progresses]
      /\ cursor \in 0..NumRuns /\ progress_cursor \in 0..NumRuns /\ source_clock \in Nat
  BY DEF IInv, TypeOK
<1>1. PICK last \in Ends(cursor), observed \in Ends(progress_cursor),
           outcome \in {"accepted", "unanswered", "refused", "killed"} :
       LET page == Page(cursor, last)
           looked == {r \in Looked(Page(progress_cursor, observed)) : progress[r] # NoProgress}
       IN /\ reports' = Append(reports,
               [captured |-> source_clock,
                facts |-> [r \in page \ OldRuns |-> [status |-> Status(r), turn |-> Len(life[r])]],
                progress |-> [r \in looked |-> progress[r]]])
          /\ accepted' = IF outcome = "refused" THEN accepted ELSE accepted \cup {Len(reports) + 1}
          /\ IF outcome = "killed"
             THEN UNCHANGED <<cursor, unvisited>>
             ELSE /\ cursor' = CursorAfter(cursor, last)
                  /\ unvisited' = [r \in Runs |->
                       IF last = 0 \/ ~Exists(r) THEN unvisited[r]
                       ELSE IF r \in page THEN 0 ELSE unvisited[r] + 1]
          /\ progress_cursor' \in IF outcome = "accepted"
                                  THEN ProgressCursorsAfter(progress_cursor, observed)
                                  ELSE {progress_cursor}
  BY DEF Report
<1> DEFINE page == Page(cursor, last)
           looked == {r \in Looked(Page(progress_cursor, observed)) : progress[r] # NoProgress}
           report == [captured |-> source_clock,
                      facts |-> [r \in page \ OldRuns |-> [status |-> Status(r), turn |-> Len(life[r])]],
                      progress |-> [r \in looked |-> progress[r]]]
<1>2. page \subseteq Runs /\ \A r \in page : Exists(r)
  BY <1>0, PageFacts
<1>3. \A r \in page : Status(r) \in Statuses /\ Len(life[r]) \in Nat
  BY <1>0, <1>2 DEF Status, Exists
<1>4. report.facts \in [page \ OldRuns -> [status : Statuses, turn : Nat]]
  BY <1>3
<1>5. page \ OldRuns \in SUBSET Runs
  BY <1>2
<1>6. report.facts \in Facts
  BY <1>4, <1>5 DEF Facts
<1>7. looked \in SUBSET Runs
  BY <1>0, PageFacts DEF Looked
<1>8. report.progress \in [looked -> Progresses]
  BY <1>0, <1>7
<1>9. report.progress \in Observations
  BY <1>7, <1>8 DEF Observations
<1>10. report \in Contents
  BY <1>0, <1>6, <1>9 DEF Contents
<1>11. /\ reports' = Append(reports, report)
       /\ report.captured = source_clock
       /\ \A r \in DOMAIN report.facts : /\ Exists(r)
                                         /\ report.facts[r].status = Status(r)
                                         /\ report.facts[r].turn = Len(life[r])
       /\ \A r \in DOMAIN report.progress : report.progress[r] = progress[r]
  BY <1>1, <1>2
<1>12. progress_cursor' \in 0..NumRuns
  <2>1. Looked(Page(progress_cursor, observed)) \subseteq 0..NumRuns
    BY <1>0, PageFacts DEF Looked, Runs
  <2>2. observed \in 0..NumRuns
    BY <1>0, PageFacts
  <2> QED
    BY <1>0, <1>1, <2>1, <2>2 DEF ProgressCursorsAfter, CursorAfter
<1>13. accepted' \subseteq accepted \cup {Len(reports) + 1}
  BY <1>1
<1>14. UNCHANGED <<source, monitor, clocks>>
  BY DEF Report
<1>15. \/ UNCHANGED <<cursor, unvisited>>
       \/ /\ cursor' = CursorAfter(cursor, last)
          /\ unvisited' = [r \in Runs |->
               IF last = 0 \/ ~Exists(r) THEN unvisited[r]
               ELSE IF r \in Page(cursor, last) THEN 0 ELSE unvisited[r] + 1]
  BY <1>1
<1> QED
  BY <1>10, <1>11, <1>12, <1>13, <1>14, <1>15

-----------------------------------------------------------------------------
(* The invariant holds at first and after every step                         *)

\* The inductive invariant holds initially.
LEMMA InvInit == Init => IInv
<1> SUFFICES ASSUME Init PROVE IInv
  OBVIOUS
<1>1. \A s \in Statuses : <<s>> \in Seq(Statuses)
  OBVIOUS
<1>2. NoProgress \in Progresses
  BY DEF NoProgress, Progresses, StageStates
<1>3. NoRow \in [status : Statuses, turn : Nat, captured : Nat, received : Nat,
                 conflicts : SUBSET {"status", "status_regression"}]
  BY DEF NoRow, Statuses, Active
<1>4. TypeOK
  <2>1. life \in [Runs -> Seq(Statuses)]
    <3>1. \A r \in Runs : life[r] = <<>> \/ \E s \in Statuses : life[r] = <<s>>
      BY DEF Init
    <3>2. life = [r \in Runs |-> life[r]]
      BY DEF Init
    <3>3. \A r \in Runs : life[r] \in Seq(Statuses)
      <4> SUFFICES ASSUME NEW r \in Runs PROVE life[r] \in Seq(Statuses)
        OBVIOUS
      <4>1. CASE life[r] = <<>>
        BY <4>1
      <4>2. ASSUME NEW s \in Statuses, life[r] = <<s>> PROVE life[r] \in Seq(Statuses)
        BY <1>1, <4>2
      <4> QED
        BY <3>1, <4>1, <4>2
    <3> QED
      BY <3>2, <3>3
  <2>2. {cursor, progress_cursor} \subseteq 0..NumRuns
    BY DEF Init, Runs
  <2>3. progress \in [Runs -> Progresses] /\ stages \in [Runs -> Progresses]
    BY <1>2 DEF Init
  <2> QED
    BY <1>3, <2>1, <2>2, <2>3 DEF Init, TypeOK
<1>5. reports = <<>> /\ DOMAIN reports = {} /\ reports \in Seq(Contents)
  BY DEF Init
<1>6. CursorInv
  BY DEF Init, CursorInv, Runs
<1>7. RowInv /\ ConflictsAreReal /\ StageInv
  BY DEF Init, RowInv, ConflictsAreReal, StageInv, NoRow
<1>8. ForgottenInv
  BY <1>4, <1>5 DEF Init, ForgottenInv, TypeOK
<1> QED
  BY <1>4, <1>5, <1>6, <1>7, <1>8 DEF IInv, ReportInv, OrderInv

\* What the source does to its runs keeps the inductive invariant.
LEMMA InvSource ==
  ASSUME IInv, SourceStep
  PROVE  IInv'
<1> DEFINE Grown == \A r \in Runs :
                      /\ Len(life[r]) <= Len(life'[r])
                      /\ \A n \in 1..Len(life[r]) : life'[r][n] = life[r][n]
                      /\ Follows(progress[r], progress'[r])
<1>0. TypeOK
  BY DEF IInv
<1>1. /\ life' \in [Runs -> Seq(Statuses)] /\ progress' \in [Runs -> Progresses]
      /\ Grown
      /\ \A r \in Runs : Exists(r) => Exists(r)'
      /\ UNCHANGED <<reporter, monitor, clocks>>
  BY <1>0, SourceGrows
<1>2. /\ life \in [Runs -> Seq(Statuses)] /\ progress \in [Runs -> Progresses]
      /\ \A r \in Runs : Len(life[r]) \in Nat /\ Len(life'[r]) \in Nat
  BY <1>0, <1>1 DEF TypeOK
<1>3. TypeOK'
  BY <1>0, <1>1 DEF TypeOK
<1>4. CursorInv'
  BY <1>1 DEF IInv, CursorInv
<1>5. ReportInv'
  <2> SUFFICES ASSUME NEW i \in DOMAIN reports
               PROVE  /\ reports[i].captured <= source_clock
                      /\ \A r \in DOMAIN reports[i].facts :
                           /\ reports[i].facts[r].turn \in 1..Len(life'[r])
                           /\ reports[i].facts[r].status = life'[r][reports[i].facts[r].turn]
                      /\ \A r \in DOMAIN reports[i].progress :
                           Follows(reports[i].progress[r], progress'[r])
    BY <1>1 DEF ReportInv
  <2>1. /\ DOMAIN reports[i].facts \subseteq Runs /\ DOMAIN reports[i].progress \subseteq Runs
        /\ \A r \in DOMAIN reports[i].progress : reports[i].progress[r] \in Progresses
    BY ReportTypes DEF IInv
  <2>2. ReportInv
    BY DEF IInv
  <2>3. \A r \in DOMAIN reports[i].facts :
          /\ reports[i].facts[r].turn \in 1..Len(life'[r])
          /\ reports[i].facts[r].status = life'[r][reports[i].facts[r].turn]
    <3> SUFFICES ASSUME NEW r \in DOMAIN reports[i].facts
                 PROVE  /\ reports[i].facts[r].turn \in 1..Len(life'[r])
                        /\ reports[i].facts[r].status = life'[r][reports[i].facts[r].turn]
      OBVIOUS
    <3>1. /\ reports[i].facts[r].turn \in 1..Len(life[r])
          /\ reports[i].facts[r].status = life[r][reports[i].facts[r].turn]
      BY <2>2 DEF ReportInv
    <3> QED
      BY <1>1, <1>2, <2>1, <3>1
  <2>4. \A r \in DOMAIN reports[i].progress : Follows(reports[i].progress[r], progress'[r])
    <3> SUFFICES ASSUME NEW r \in DOMAIN reports[i].progress
                 PROVE  Follows(reports[i].progress[r], progress'[r])
      OBVIOUS
    <3>1. Follows(reports[i].progress[r], progress[r]) /\ Follows(progress[r], progress'[r])
      BY <1>1, <2>1, <2>2 DEF ReportInv
    <3>2. progress[r] \in Progresses /\ progress'[r] \in Progresses
      BY <1>1, <1>2, <2>1
    <3> QED
      BY <2>1, <3>1, <3>2, FollowsOn
  <2> QED
    BY <2>2, <2>3, <2>4 DEF ReportInv
<1>6. OrderInv' /\ StageInv'
  BY <1>1 DEF IInv, OrderInv, StageInv
<1>7. RowInv'
  <2>1. ASSUME NEW r \in Runs, rows[r] # NoRow
        PROVE  rows[r].turn \in 1..Len(life'[r]) /\ rows[r].status = life'[r][rows[r].turn]
    <3>1. rows[r].turn \in 1..Len(life[r]) /\ rows[r].status = life[r][rows[r].turn]
      BY <2>1 DEF IInv, RowInv
    <3> QED
      BY <1>1, <1>2, <3>1
  <2> QED
    BY <1>1, <2>1 DEF IInv, RowInv
<1>8. ForgottenInv'
  <2>1. \A r \in Runs : shown[r] <= Len(life'[r])
    BY <1>0, <1>1, <1>2 DEF IInv, ForgottenInv, TypeOK
  <2> QED
    BY <1>1, <2>1 DEF IInv, ForgottenInv
<1>9. ConflictsAreReal'
  <2> SUFFICES ASSUME NEW r \in Runs
               PROVE  /\ "status_regression" \in rows[r].conflicts =>
                           \E i, j \in DOMAIN life'[r] : i < j /\ Rank[life'[r][j]] < Rank[life'[r][i]]
                      /\ "status" \in rows[r].conflicts => Len(life'[r]) > 1
    BY <1>1 DEF ConflictsAreReal
  <2>1. DOMAIN life[r] = 1..Len(life[r]) /\ DOMAIN life'[r] = 1..Len(life'[r])
    BY <1>1, <1>2
  <2>2. ASSUME "status_regression" \in rows[r].conflicts
        PROVE  \E i, j \in DOMAIN life'[r] : i < j /\ Rank[life'[r][j]] < Rank[life'[r][i]]
    <3>1. PICK i, j \in DOMAIN life[r] : i < j /\ Rank[life[r][j]] < Rank[life[r][i]]
      BY <2>2 DEF IInv, ConflictsAreReal
    <3>2. i \in DOMAIN life'[r] /\ j \in DOMAIN life'[r]
      BY <1>1, <1>2, <2>1
    <3>3. life'[r][i] = life[r][i] /\ life'[r][j] = life[r][j]
      BY <1>1, <2>1
    <3> QED
      BY <3>1, <3>2, <3>3
  <2>3. "status" \in rows[r].conflicts => Len(life'[r]) > 1
    BY <1>1, <1>2 DEF IInv, ConflictsAreReal
  <2> QED
    BY <2>2, <2>3
<1>10. reports' \in Seq(Contents)
  BY <1>1 DEF IInv
<1> QED
  BY <1>3, <1>4, <1>5, <1>6, <1>7, <1>8, <1>9, <1>10 DEF IInv

\* Time passing keeps the inductive invariant.
LEMMA InvTick ==
  ASSUME IInv, Tick
  PROVE  IInv'
<1>1. /\ clock \in Nat /\ source_clock \in Nat /\ clock' \in Nat /\ source_clock' \in Nat
      /\ clock <= clock' /\ source_clock <= source_clock'
      /\ UNCHANGED <<source, reporter, monitor>>
  BY DEF IInv, TypeOK, Tick
<1>2. TypeOK' /\ CursorInv' /\ OrderInv' /\ StageInv' /\ ConflictsAreReal' /\ reports' \in Seq(Contents)
  BY <1>1 DEF IInv, TypeOK, CursorInv, Exists, OrderInv, StageInv, ConflictsAreReal
<1>3. \A i \in DOMAIN reports : reports[i].captured \in Nat
  BY ReportTypes DEF IInv
<1>4. \A r \in Runs : rows[r].received \in Nat
  BY DEF IInv, TypeOK
<1>5. ReportInv'
  BY <1>1, <1>3 DEF IInv, ReportInv
<1>6. RowInv'
  BY <1>1, <1>4, SMTT(30) DEF IInv, RowInv
<1>7. ForgottenInv'
  BY <1>1, <1>3 DEF IInv, ForgottenInv
<1> QED
  BY <1>2, <1>5, <1>6, <1>7 DEF IInv

\* The runs that a page passes by are one page farther from the cursor.
LEMMA CursorsReport ==
  ASSUME IInv, Report
  PROVE  /\ CursorInv' /\ unvisited' \in [Runs -> Nat]
         /\ {cursor', progress_cursor'} \subseteq 0..NumRuns
<1>0. /\ cursor \in 0..NumRuns /\ unvisited \in [Runs -> Nat]
      /\ life' = life /\ progress_cursor' \in 0..NumRuns
  BY ReportFacts DEF IInv, TypeOK
<1>1. CursorInv
  BY DEF IInv
<1>2. CASE UNCHANGED <<cursor, unvisited>>
  BY <1>0, <1>1, <1>2 DEF CursorInv, Exists
<1>3. ASSUME NEW last \in Ends(cursor),
             cursor' = CursorAfter(cursor, last),
             unvisited' = [r \in Runs |->
                IF last = 0 \/ ~Exists(r) THEN unvisited[r]
                ELSE IF r \in Page(cursor, last) THEN 0 ELSE unvisited[r] + 1]
      PROVE  CursorInv' /\ unvisited' \in [Runs -> Nat] /\ cursor' \in 0..NumRuns
  <2>1. /\ last \in 0..NumRuns
        /\ last # 0 => last \in Page(cursor, last)
        /\ \A r \in Runs : Exists(r) /\ r > cursor /\ r <= last => r \in Page(cursor, last)
        /\ last # 0 /\ last <= cursor =>
             /\ \A r \in Runs : Exists(r) => r <= cursor
             /\ \A r \in Runs : Exists(r) /\ r <= last => r \in Page(cursor, last)
    BY <1>0, PageFacts
  <2>2. unvisited' \in [Runs -> Nat] /\ cursor' \in 0..NumRuns
    BY <1>0, <1>3, <2>1 DEF CursorAfter
  <2>3. ASSUME NEW r \in Runs
        PROVE  /\ ~Exists(r) => unvisited'[r] = 0
               /\ r <= cursor' => unvisited'[r] <= cursor' - r
               /\ r > cursor' => unvisited'[r] <= NumRuns - r + cursor'
    <3>1. /\ ~Exists(r) => unvisited[r] = 0
          /\ r <= cursor => unvisited[r] <= cursor - r
          /\ r > cursor => unvisited[r] <= NumRuns - r + cursor
          /\ unvisited[r] \in Nat /\ r \in 1..NumRuns
      BY <1>0, <1>1 DEF CursorInv, Runs
    <3>2. CASE last = 0
      BY <1>3, <3>1, <3>2 DEF CursorAfter
    <3>3. CASE last # 0
      <4>1. cursor' = last
        BY <1>3, <3>3 DEF CursorAfter
      <4>2. unvisited'[r] = IF ~Exists(r) THEN unvisited[r]
                            ELSE IF r \in Page(cursor, last) THEN 0 ELSE unvisited[r] + 1
        BY <1>3, <3>3
      <4> QED
        BY <1>0, <2>1, <3>1, <3>3, <4>1, <4>2
    <3> QED
      BY <3>2, <3>3
  <2>4. CursorInv'
    BY <1>0, <2>3 DEF CursorInv, Exists
  <2> QED
    BY <2>2, <2>4
<1> QED
  BY <1>0, <1>2, <1>3, ReportFacts

\* Writing a report keeps the inductive invariant.
LEMMA InvReport ==
  ASSUME IInv, Report
  PROVE  IInv'
<1>0. TypeOK /\ reports \in Seq(Contents) /\ life \in [Runs -> Seq(Statuses)]
      /\ progress \in [Runs -> Progresses] /\ source_clock \in Nat
  BY DEF IInv, TypeOK
<1>1. PICK report \in Contents :
        /\ reports' = Append(reports, report)
        /\ report.captured = source_clock
        /\ \A r \in DOMAIN report.facts : /\ Exists(r)
                                          /\ report.facts[r].status = Status(r)
                                          /\ report.facts[r].turn = Len(life[r])
        /\ \A r \in DOMAIN report.progress : report.progress[r] = progress[r]
  BY ReportFacts
<1>2. UNCHANGED <<source, monitor, clocks>> /\ accepted' \subseteq accepted \cup {Len(reports) + 1}
  BY ReportFacts
<1>3. /\ reports' \in Seq(Contents) /\ Len(reports') = Len(reports) + 1 /\ Len(reports) \in Nat
      /\ DOMAIN reports = 1..Len(reports) /\ DOMAIN reports' = 1..(Len(reports) + 1)
      /\ \A i \in DOMAIN reports : reports'[i] = reports[i]
      /\ reports'[Len(reports) + 1] = report
  BY <1>0, <1>1
<1> DEFINE new == Len(reports) + 1
<1>4. /\ DOMAIN reports \subseteq DOMAIN reports' /\ new \in DOMAIN reports'
      /\ \A i \in DOMAIN reports' : i \in DOMAIN reports \/ i = new
  BY <1>3
<1>5. TypeOK'
  <2>1. accepted' \cup received' \subseteq DOMAIN reports'
    BY <1>0, <1>2, <1>3, <1>4 DEF TypeOK
  <2> QED
    BY <1>0, <1>2, <2>1, CursorsReport DEF TypeOK
<1>6. DOMAIN report.facts \subseteq Runs /\ DOMAIN report.progress \subseteq Runs
  <2>1. PICK D \in SUBSET Runs : report.facts \in [D -> [status : Statuses, turn : Nat]]
    BY <1>1 DEF Contents, Facts
  <2>2. PICK E \in SUBSET Runs : report.progress \in [E -> Progresses]
    BY <1>1 DEF Contents, Observations
  <2> QED
    BY <2>1, <2>2
<1>7. ASSUME NEW r \in DOMAIN report.facts
      PROVE  /\ report.facts[r].turn \in 1..Len(life[r])
             /\ report.facts[r].status = life[r][report.facts[r].turn]
  BY <1>0, <1>1, <1>6 DEF Exists, Status
<1>8. ReportInv'
  <2>1. ASSUME NEW r \in DOMAIN report.progress
        PROVE  Follows(report.progress[r], progress[r])
    BY <1>0, <1>1, <1>6, FollowsItself
  <2>2. report.captured <= source_clock
    BY <1>0, <1>1
  <2>3. ReportInv
    BY DEF IInv
  <2> QED
    BY <1>2, <1>3, <1>4, <1>7, <2>1, <2>2, <2>3 DEF ReportInv
<1>9. OrderInv'
  <2> SUFFICES ASSUME NEW i \in DOMAIN reports', NEW j \in DOMAIN reports', i < j
               PROVE  /\ reports'[i].captured <= reports'[j].captured
                      /\ \A r \in DOMAIN reports'[i].facts \cap DOMAIN reports'[j].facts :
                           reports'[i].facts[r].turn <= reports'[j].facts[r].turn
                      /\ \A r \in DOMAIN reports'[i].progress \cap DOMAIN reports'[j].progress :
                           Follows(reports'[i].progress[r], reports'[j].progress[r])
    BY DEF OrderInv
  <2>1. i \in DOMAIN reports
    BY <1>3, <1>4
  <2>2. CASE j \in DOMAIN reports
    BY <1>3, <2>1, <2>2 DEF IInv, OrderInv
  <2>3. CASE j = new
    <3>1. /\ reports'[i] = reports[i] /\ reports'[j] = report
      BY <1>3, <2>1, <2>3
    <3>2. /\ reports[i].captured <= source_clock
          /\ \A r \in DOMAIN reports[i].facts : reports[i].facts[r].turn \in 1..Len(life[r])
          /\ \A r \in DOMAIN reports[i].progress : Follows(reports[i].progress[r], progress[r])
      BY <2>1 DEF IInv, ReportInv
    <3>3. \A r \in DOMAIN report.facts : Len(life[r]) \in Nat
      BY <1>0, <1>6
    <3> QED
      BY <1>1, <3>1, <3>2, <3>3
  <2> QED
    BY <1>4, <2>2, <2>3
<1>10. RowInv'
  <2>1. RowInv
    BY DEF IInv
  <2> QED
    BY <1>2, <1>3, <1>4, <2>1 DEF RowInv
<1>11. ForgottenInv'
  <2>1. ForgottenInv
    BY DEF IInv
  <2>2. \A r \in DOMAIN report.facts : ~(report.facts[r].turn < shown[r])
    BY <1>0, <1>1, <1>6, <2>1 DEF ForgottenInv, TypeOK
  <2> QED
    BY <1>2, <1>3, <1>4, <2>1, <2>2 DEF ForgottenInv
<1>12. StageInv' /\ ConflictsAreReal'
  BY <1>2, <1>3, <1>4 DEF IInv, StageInv, ConflictsAreReal
<1> QED
  BY <1>3, <1>5, <1>8, <1>9, <1>10, <1>11, <1>12, CursorsReport DEF IInv

\* What a report of the window makes of the row of a run it has a fact of.
LEMMA MergedFacts ==
  ASSUME IInv, NEW i \in DOMAIN reports, InWindow(reports[i].captured),
         NEW r \in DOMAIN reports[i].facts, NEW row,
         row = Merged(rows[r], reports[i].facts[r], reports[i].captured)
  PROVE  /\ row \in [status : Statuses, turn : Nat, captured : Nat, received : Nat,
                     conflicts : SUBSET {"status", "status_regression"}]
         /\ row.turn >= rows[r].turn
         /\ \/ row.turn >= shown[r]
            \/ rows[r].turn < shown[r]
         /\ rows[r] = NoRow /\ row.turn < shown[r] =>
              clock - History <= row.captured /\ row.captured < clock - History + Future
         /\ row.turn \in 1..Len(life[r]) /\ row.status = life[r][row.turn]
         /\ row.captured <= row.received + Future /\ row.received <= clock
         /\ \E k \in DOMAIN reports : /\ r \in DOMAIN reports[k].facts
                                      /\ reports[k].facts[r].turn = row.turn
                                      /\ reports[k].captured <= row.captured
         /\ "status_regression" \in row.conflicts =>
              \E m, n \in DOMAIN life[r] : m < n /\ Rank[life[r][n]] < Rank[life[r][m]]
         /\ "status" \in row.conflicts => Len(life[r]) > 1
<1> DEFINE fact == reports[i].facts[r]
           captured == reports[i].captured
           old == rows[r]
           seen == [old EXCEPT !.captured = Later(@, captured), !.received = Later(@, clock)]
<1>1. /\ r \in Runs /\ fact.status \in Statuses /\ fact.turn \in Nat /\ captured \in Nat
      /\ clock \in Nat /\ Len(life[r]) \in Nat /\ DOMAIN life[r] = 1..Len(life[r])
      /\ shown[r] \in Nat
      /\ old \in [status : Statuses, turn : Nat, captured : Nat, received : Nat,
                  conflicts : SUBSET {"status", "status_regression"}]
  <2>1. /\ r \in Runs /\ fact.status \in Statuses /\ fact.turn \in Nat /\ captured \in Nat
    BY ReportTypes DEF IInv
  <2> QED
    BY <2>1, SMTT(30) DEF IInv, TypeOK
<1>2. /\ clock - History <= captured /\ captured <= clock + Future
      /\ fact.turn \in 1..Len(life[r]) /\ fact.status = life[r][fact.turn]
  BY DEF IInv, ReportInv, InWindow
<1>3. CASE old = NoRow
  <2>1. row = [status |-> fact.status, turn |-> fact.turn, captured |-> captured,
               received |-> clock, conflicts |-> {}]
    BY <1>3 DEF Merged
  <2>2. fact.turn < shown[r] => captured < clock - History + Future
    <3>1. old.turn = 0
      BY <1>3, NoRowFacts
    <3>2. old.turn < shown[r] /\ fact.turn < shown[r] => captured < clock - History + Future
      BY <1>1 DEF IInv, ForgottenInv
    <3> QED
      BY <1>1, <3>1, <3>2
  <2>3. old.turn < shown[r] \/ row.turn >= shown[r]
    BY <1>1, <1>2, <1>3, <2>1, NoRowFacts
  <2>4. row.turn >= old.turn
    BY <1>1, <1>3, <2>1, NoRowFacts
  <2>5. \E k \in DOMAIN reports : /\ r \in DOMAIN reports[k].facts
                                /\ reports[k].facts[r].turn = row.turn
                                /\ reports[k].captured <= row.captured
    BY <1>1, <2>1
  <2> QED
    BY <1>1, <1>2, <2>1, <2>2, <2>3, <2>4, <2>5
<1>4. CASE old # NoRow
  <2>1. /\ old.turn <= shown[r] /\ old.turn \in 1..Len(life[r]) /\ old.status = life[r][old.turn]
        /\ old.captured <= old.received + Future /\ old.received <= clock
    BY <1>1, <1>4 DEF IInv, RowInv
  <2>2. PICK k \in DOMAIN reports : /\ r \in DOMAIN reports[k].facts
                                    /\ reports[k].facts[r].turn = old.turn
                                    /\ reports[k].captured <= old.captured
    BY <1>1, <1>4 DEF IInv, RowInv
  <2>3. seen = [status |-> old.status, turn |-> old.turn, captured |-> Later(old.captured, captured),
                received |-> Later(old.received, clock), conflicts |-> old.conflicts]
    <3>1. seen = [old EXCEPT !.captured = Later(old.captured, captured),
                             !.received = Later(old.received, clock)]
      OBVIOUS
    <3> HIDE DEF old, seen, captured
    <3> QED
      BY <1>1, <3>1
  <2>4. /\ Later(old.captured, captured) \in Nat /\ Later(old.received, clock) = clock
        /\ old.captured <= Later(old.captured, captured)
        /\ Later(old.captured, captured) <= clock + Future
    BY <1>1, <1>2, <2>1, SMTT(30) DEF Later
  <2>5. reports[k].captured <= Later(old.captured, captured)
    <3>1. reports[k].captured \in Nat
      BY ReportTypes DEF IInv
    <3> QED
      BY <1>1, <2>2, <2>4, <3>1
  <2>6. ASSUME captured > old.captured
        PROVE  old.turn <= fact.turn
    <3>1. reports[k].captured \in Nat /\ i \in Nat /\ k \in Nat
      BY ReportTypes DEF IInv
    <3>2. k < i
      <4>1. ~(i < k) /\ i # k
        BY <1>1, <2>2, <2>6, <3>1 DEF IInv, OrderInv
      <4> QED
        BY <3>1, <4>1
    <3> QED
      BY <2>2, <3>2 DEF IInv, OrderInv
  <2>7. /\ "status_regression" \in old.conflicts =>
             \E m, n \in DOMAIN life[r] : m < n /\ Rank[life[r][n]] < Rank[life[r][m]]
        /\ "status" \in old.conflicts => Len(life[r]) > 1
    BY <1>1 DEF IInv, ConflictsAreReal
  <2>8. CASE fact.status = old.status
    <3>1. row = [status |-> old.status, turn |-> old.turn,
                 captured |-> Later(old.captured, captured), received |-> clock,
                 conflicts |-> old.conflicts]
      BY <1>4, <2>3, <2>4, <2>8 DEF Merged
    <3> QED
      BY <1>1, <1>4, <2>1, <2>2, <2>4, <2>7, <2>5, <3>1, SMTT(30)
  <2>9. CASE fact.status # old.status /\ Adopted(old, fact, captured)
    <3>1. row = [seen EXCEPT !.status = fact.status, !.turn = fact.turn]
      BY <1>4, <2>9 DEF Merged
    <3>2. captured > old.captured
      BY <2>9 DEF Adopted
    <3>3. Later(old.captured, captured) = captured
      BY <1>1, <3>2 DEF Later
    <3>4. row = [status |-> fact.status, turn |-> fact.turn, captured |-> captured,
                 received |-> clock, conflicts |-> old.conflicts]
      BY <2>3, <2>4, <3>1, <3>3
    <3>5. old.turn <= row.turn
      BY <2>6, <3>2, <3>4
    <3> QED
      BY <1>1, <1>2, <1>4, <2>1, <2>7, <3>4, <3>5, SMTT(30)
  <2>10. CASE fact.status # old.status /\ ~Adopted(old, fact, captured)
    <3>1. row = [seen EXCEPT !.conflicts = @ \cup Conflict(old, fact, captured)]
      BY <1>4, <2>10 DEF Merged
    <3>2. row = [status |-> old.status, turn |-> old.turn,
                 captured |-> Later(old.captured, captured), received |-> clock,
                 conflicts |-> old.conflicts \cup Conflict(old, fact, captured)]
      BY <2>3, <2>4, <3>1
    <3>3. Conflict(old, fact, captured) \subseteq {"status", "status_regression"}
      BY DEF Conflict
    <3>4. ASSUME "status_regression" \in Conflict(old, fact, captured)
          PROVE  \E m, n \in DOMAIN life[r] : m < n /\ Rank[life[r][n]] < Rank[life[r][m]]
      <4>1. captured > old.captured /\ Rank[fact.status] < Rank[old.status]
        BY <3>4 DEF Conflict
      <4>2. old.turn < fact.turn
        BY <1>1, <1>2, <2>1, <2>6, <2>10, <4>1, SMTT(30)
      <4> QED
        BY <1>1, <1>2, <2>1, <4>1, <4>2
    <3>5. Len(life[r]) > 1
      BY <1>1, <1>2, <2>1, <2>10, SMTT(30)
    <3>6. row \in [status : Statuses, turn : Nat, captured : Nat, received : Nat,
                   conflicts : SUBSET {"status", "status_regression"}]
      BY <1>1, <2>4, <3>2, <3>3
    <3>7. "status_regression" \in row.conflicts =>
            \E m, n \in DOMAIN life[r] : m < n /\ Rank[life[r][n]] < Rank[life[r][m]]
      BY <2>7, <3>2, <3>4
    <3>8. row.turn = old.turn /\ row.status = old.status /\ row.received = clock
          /\ row.captured = Later(old.captured, captured)
      BY <3>2
    <3> QED
      BY <1>1, <1>4, <2>1, <2>2, <2>4, <2>5, <3>5, <3>6, <3>7, <3>8, SMTT(30)
  <2> QED
    BY <2>8, <2>9, <2>10
<1> QED
  BY <1>3, <1>4

\* Ingesting a report, in whatever order, keeps the inductive invariant.
LEMMA InvIngest ==
  ASSUME IInv, NEW i \in accepted, Ingest(i)
  PROVE  IInv'
<1> DEFINE facts == reports[i].facts
           Rows == [status : Statuses, turn : Nat, captured : Nat, received : Nat,
                    conflicts : SUBSET {"status", "status_regression"}]
<1>0. TypeOK /\ i \in DOMAIN reports /\ InWindow(reports[i].captured)
  BY DEF IInv, TypeOK, Ingest
<1>1. /\ rows' = [r \in Runs |-> IF r \in DOMAIN facts
                                 THEN Merged(rows[r], facts[r], reports[i].captured) ELSE rows[r]]
      /\ shown' = [r \in Runs |-> Later(shown[r], rows'[r].turn)]
      /\ received' = received \cup {i} /\ merging' = i
      /\ UNCHANGED <<source, reporter, stages, clocks>>
  BY DEF Ingest
<1>2. ASSUME NEW r \in Runs
      PROVE  /\ rows'[r] \in Rows /\ shown'[r] \in Nat
             /\ shown'[r] <= Len(life[r])
             /\ rows'[r].turn < shown'[r] => rows[r].turn < shown[r] /\ shown'[r] = shown[r]
             /\ rows'[r] # NoRow =>
                  /\ rows'[r].turn <= shown'[r]
                  /\ rows'[r].turn \in 1..Len(life[r])
                  /\ rows'[r].status = life[r][rows'[r].turn]
                  /\ rows'[r].captured <= rows'[r].received + Future /\ rows'[r].received <= clock
                  /\ \E k \in DOMAIN reports : /\ r \in DOMAIN reports[k].facts
                                               /\ reports[k].facts[r].turn = rows'[r].turn
                                               /\ reports[k].captured <= rows'[r].captured
             /\ "status_regression" \in rows'[r].conflicts =>
                  \E m, n \in DOMAIN life[r] : m < n /\ Rank[life[r][n]] < Rank[life[r][m]]
             /\ "status" \in rows'[r].conflicts => Len(life[r]) > 1
  <2>1. /\ rows[r] \in Rows /\ shown[r] \in Nat /\ Len(life[r]) \in Nat
        /\ shown[r] <= Len(life[r])
    BY <1>0 DEF TypeOK, IInv, ForgottenInv
  <2>2. shown'[r] = Later(shown[r], rows'[r].turn)
    BY <1>1
  <2>3. CASE r \in DOMAIN facts
    <3>1. rows'[r] = Merged(rows[r], facts[r], reports[i].captured)
      BY <1>1, <2>3
    <3>2. /\ rows'[r] \in Rows
          /\ rows'[r].turn >= shown[r] \/ rows[r].turn < shown[r]
          /\ rows'[r].turn \in 1..Len(life[r]) /\ rows'[r].status = life[r][rows'[r].turn]
          /\ rows'[r].captured <= rows'[r].received + Future /\ rows'[r].received <= clock
          /\ \E k \in DOMAIN reports : /\ r \in DOMAIN reports[k].facts
                                       /\ reports[k].facts[r].turn = rows'[r].turn
                                       /\ reports[k].captured <= rows'[r].captured
          /\ "status_regression" \in rows'[r].conflicts =>
               \E m, n \in DOMAIN life[r] : m < n /\ Rank[life[r][n]] < Rank[life[r][m]]
          /\ "status" \in rows'[r].conflicts => Len(life[r]) > 1
      <4>1. rows'[r].turn >= shown[r] \/ rows[r].turn < shown[r]
        BY <1>0, <2>3, <3>1, MergedFacts
      <4>2. \E k \in DOMAIN reports : /\ r \in DOMAIN reports[k].facts
                                    /\ reports[k].facts[r].turn = rows'[r].turn
                                    /\ reports[k].captured <= rows'[r].captured
        BY <1>0, <2>3, <3>1, MergedFacts
      <4>3. rows'[r] \in Rows
        BY <1>0, <2>3, <3>1, MergedFacts
      <4>4. /\ rows'[r].turn \in 1..Len(life[r]) /\ rows'[r].status = life[r][rows'[r].turn]
            /\ rows'[r].captured <= rows'[r].received + Future /\ rows'[r].received <= clock
        BY <1>0, <2>3, <3>1, MergedFacts
      <4>5. /\ "status_regression" \in rows'[r].conflicts =>
                 \E m, n \in DOMAIN life[r] : m < n /\ Rank[life[r][n]] < Rank[life[r][m]]
            /\ "status" \in rows'[r].conflicts => Len(life[r]) > 1
        BY <1>0, <2>3, <3>1, MergedFacts
      <4> QED
        BY <4>1, <4>2, <4>3, <4>4, <4>5
    <3>3. /\ shown'[r] \in Nat /\ shown'[r] <= Len(life[r]) /\ rows'[r].turn <= shown'[r]
          /\ rows'[r].turn < shown'[r] => rows[r].turn < shown[r] /\ shown'[r] = shown[r]
      BY <2>1, <2>2, <3>2 DEF Later
    <3> QED
      BY <3>2, <3>3
  <2>4. CASE r \notin DOMAIN facts
    <3>1. rows'[r] = rows[r]
      BY <1>1, <2>4
    <3>2. rows[r].turn <= shown[r]
      BY <2>1, NoRowFacts DEF IInv, RowInv
    <3>3. shown'[r] = shown[r]
      BY <2>1, <2>2, <3>1, <3>2 DEF Later
    <3> QED
      BY <2>1, <3>1, <3>3 DEF IInv, RowInv, ConflictsAreReal
  <2> QED
    BY <2>3, <2>4
<1>3. TypeOK'
  <2>1. rows' \in [Runs -> Rows] /\ shown' \in [Runs -> Nat]
    BY <1>1, <1>2
  <2> QED
    BY <1>0, <1>1, <2>1 DEF TypeOK
<1>4. RowInv' /\ ConflictsAreReal'
  BY <1>1, <1>2 DEF RowInv, ConflictsAreReal
<1>5. ForgottenInv'
  BY <1>1, <1>2 DEF IInv, ForgottenInv
<1>6. /\ CursorInv' /\ ReportInv' /\ OrderInv' /\ StageInv' /\ reports' \in Seq(Contents)
  BY <1>1 DEF IInv, CursorInv, Exists, ReportInv, OrderInv, StageInv
<1> QED
  BY <1>3, <1>4, <1>5, <1>6 DEF IInv

\* The progress of the report that is merged is of a sample after the one shown.
LEMMA MergeGoesOn ==
  ASSUME IInv, MergeProgress
  PROVE  \A r \in Runs :
           /\ Follows(stages[r], stages'[r])
           /\ \/ stages'[r] = stages[r]
              \/ \E k \in DOMAIN reports : /\ r \in DOMAIN reports[k].progress
                                           /\ stages'[r] = reports[k].progress[r]
<1> SUFFICES ASSUME NEW r \in Runs
             PROVE  /\ Follows(stages[r], stages'[r])
                    /\ \/ stages'[r] = stages[r]
                       \/ \E k \in DOMAIN reports : /\ r \in DOMAIN reports[k].progress
                                                    /\ stages'[r] = reports[k].progress[r]
  OBVIOUS
<1> DEFINE observed == reports[merging].progress
<1>1. merging \in DOMAIN reports /\ stages[r] \in Progresses
  BY DEF IInv, TypeOK, MergeProgress
<1>2. stages'[r] = IF r \notin DOMAIN observed \/ Superseded(stages[r], observed[r])
                   THEN stages[r] ELSE observed[r]
  BY DEF MergeProgress
<1>3. CASE r \notin DOMAIN observed \/ Superseded(stages[r], observed[r])
  BY <1>1, <1>2, <1>3, FollowsItself
<1>4. CASE r \in DOMAIN observed /\ ~Superseded(stages[r], observed[r])
  <2>1. stages'[r] = observed[r] /\ observed[r] \in Progresses
    BY <1>1, <1>2, <1>4, ReportTypes DEF IInv
  <2>2. observed[r].sequence > stages[r].sequence
    BY <1>1, <1>4, <2>1 DEF Superseded, Progresses
  <2>3. ASSUME stages[r] = NoProgress
        PROVE  Follows(stages[r], stages'[r])
    BY <1>1, <2>1, <2>2, <2>3 DEF Follows, NoProgress, Progresses
  <2>4. ASSUME stages[r] # NoProgress
        PROVE  Follows(stages[r], stages'[r])
    <3>1. PICK k \in DOMAIN reports : /\ r \in DOMAIN reports[k].progress
                                      /\ stages[r] = reports[k].progress[r]
      BY <2>4 DEF IInv, StageInv
    <3>2. ~(merging < k) /\ k # merging
      BY <1>1, <1>4, <2>1, <2>2, <3>1 DEF IInv, OrderInv, Follows, Progresses
    <3>3. k < merging
      <4>1. k \in Nat /\ merging \in Nat
        BY <1>1, <3>1 DEF IInv
      <4> QED
        BY <3>2, <4>1
    <3>4. Follows(stages[r], observed[r])
      BY <1>1, <1>4, <3>1, <3>3 DEF IInv, OrderInv
    <3> QED
      BY <1>1, <1>4, <2>1, <3>4
  <2>5. \E k \in DOMAIN reports : /\ r \in DOMAIN reports[k].progress
                                  /\ stages'[r] = reports[k].progress[r]
    BY <1>1, <1>4, <2>1
  <2>6. Follows(stages[r], stages'[r])
    BY <1>1, <1>4, <2>1, <2>3, <2>4
  <2> QED
    BY <2>5, <2>6
<1> QED
  BY <1>3, <1>4

\* Merging progress, and losing a merge, keep the inductive invariant.
LEMMA InvMerge ==
  ASSUME IInv, MergeProgress \/ MergeIsLost
  PROVE  IInv'
<1>1. merging' = 0 /\ UNCHANGED <<source, reporter, rows, shown, received, clocks>>
  BY DEF MergeProgress, MergeIsLost
<1>2. stages' \in [Runs -> Progresses] /\ StageInv'
  <2>1. CASE MergeProgress
    <3>1. stages' = [r \in Runs |-> stages'[r]]
      BY <2>1 DEF MergeProgress
    <3>2. stages \in [Runs -> Progresses]
      BY DEF IInv, TypeOK
    <3>3. ASSUME NEW r \in Runs PROVE stages'[r] \in Progresses
      <4>1. CASE stages'[r] = stages[r]
        BY <3>2, <4>1
      <4>2. ASSUME NEW k \in DOMAIN reports, r \in DOMAIN reports[k].progress,
                   stages'[r] = reports[k].progress[r]
            PROVE  stages'[r] \in Progresses
        BY <4>2, ReportTypes DEF IInv
      <4> QED
        BY <2>1, <4>1, <4>2, MergeGoesOn
    <3>4. StageInv'
      BY <1>1, <2>1, MergeGoesOn DEF IInv, StageInv
    <3> QED
      BY <3>1, <3>3, <3>4
  <2>2. CASE MergeIsLost
    BY <1>1, <2>2 DEF MergeIsLost, IInv, TypeOK, StageInv
  <2> QED
    BY <2>1, <2>2
<1>3. TypeOK'
  BY <1>1, <1>2 DEF IInv, TypeOK
<1> QED
  BY <1>1, <1>2, <1>3 DEF IInv, CursorInv, Exists, ReportInv, OrderInv, RowInv, ForgottenInv,
                          ConflictsAreReal

\* Expiring a row keeps the inductive invariant.
LEMMA InvExpire ==
  ASSUME IInv, NEW r \in Runs, ExpireRow(r)
  PROVE  IInv'
<1>0. TypeOK /\ reports \in Seq(Contents)
  BY DEF IInv
<1>1. /\ rows' = [rows EXCEPT ![r] = NoRow] /\ rows[r] # NoRow
      /\ rows[r].received < clock - History
      /\ UNCHANGED <<source, reporter, shown, received, merging, stages, clocks>>
  BY DEF ExpireRow
<1>2. TypeOK'
  <2>1. NoRow \in [status : Statuses, turn : Nat, captured : Nat, received : Nat,
                   conflicts : SUBSET {"status", "status_regression"}]
    BY DEF NoRow, Statuses, Active
  <2> QED
    BY <1>0, <1>1, <2>1 DEF TypeOK
<1>3. \A q \in Runs : rows'[q] = IF q = r THEN NoRow ELSE rows[q]
  BY <1>0, <1>1 DEF TypeOK
<1>4. RowInv'
  BY <1>1, <1>3, SMTT(30) DEF IInv, RowInv
<1>5. ForgottenInv'
  <2>1. ASSUME NEW i \in DOMAIN reports, r \in DOMAIN reports[i].facts,
               reports[i].facts[r].turn < shown[r], rows[r].turn = shown[r]
        PROVE  reports[i].captured < clock - History + Future
    <3>1. PICK k \in DOMAIN reports : /\ r \in DOMAIN reports[k].facts
                                      /\ reports[k].facts[r].turn = rows[r].turn
                                      /\ reports[k].captured <= rows[r].captured
      BY <1>1 DEF IInv, RowInv
    <3>2. rows[r].captured <= rows[r].received + Future
      BY <1>1 DEF IInv, RowInv
    <3>3. /\ reports[i].captured \in Nat /\ reports[k].captured \in Nat
          /\ rows[r].captured \in Nat /\ rows[r].received \in Nat /\ clock \in Nat
          /\ i \in Nat /\ k \in Nat
          /\ reports[i].facts[r].turn \in Nat /\ reports[k].facts[r].turn \in Nat
      BY <1>0, <2>1, <3>1, ReportTypes, SMTT(30) DEF TypeOK
    <3>4. i < k
      <4>1. ~(k < i) /\ k # i
        BY <2>1, <3>1, <3>3 DEF IInv, OrderInv
      <4> QED
        BY <3>3, <4>1
    <3>5. reports[i].captured <= reports[k].captured
      BY <3>4 DEF IInv, OrderInv
    <3> QED
      BY <1>1, <3>1, <3>2, <3>3, <3>5
  <2>2. ForgottenInv /\ rows[r].turn \in Nat /\ shown[r] \in Nat /\ rows[r].turn <= shown[r]
    BY <1>0, <1>1 DEF IInv, RowInv, TypeOK
  <2>3. rows[r].turn = shown[r] \/ rows[r].turn < shown[r]
    BY <2>2
  <2> QED
    BY <1>1, <1>3, <2>1, <2>2, <2>3 DEF ForgottenInv
<1>6. ConflictsAreReal'
  BY <1>1, <1>3, NoRowFacts DEF IInv, ConflictsAreReal
<1> QED
  BY <1>0, <1>1, <1>2, <1>4, <1>5, <1>6 DEF IInv, CursorInv, Exists, ReportInv, OrderInv, StageInv

\* Every step keeps the inductive invariant.
LEMMA InvNext == IInv /\ [Next]_vars => IInv'
<1> SUFFICES ASSUME IInv, [Next]_vars PROVE IInv'
  OBVIOUS
<1>1. CASE SourceStep
  BY <1>1, InvSource
<1>2. CASE Tick
  BY <1>2, InvTick
<1>3. CASE Report
  BY <1>3, InvReport
<1>4. ASSUME NEW i \in accepted, Ingest(i) PROVE IInv'
  BY <1>4, InvIngest
<1>5. CASE MergeProgress \/ MergeIsLost
  BY <1>5, InvMerge
<1>6. ASSUME NEW r \in Runs, ExpireRow(r) PROVE IInv'
  BY <1>6, InvExpire
<1>7. CASE UNCHANGED vars
  BY <1>7 DEF vars, IInv, TypeOK, CursorInv, Exists, ReportInv, OrderInv, RowInv, ForgottenInv,
              StageInv, ConflictsAreReal
<1> QED
  BY <1>1, <1>2, <1>3, <1>4, <1>5, <1>6, <1>7 DEF Next, SourceStep

-----------------------------------------------------------------------------
(* The theorems                                                              *)

\* The invariant of the reporter and of monitor.db together, from which the theorems
\* below follow (monitor_report.py, store.py, progress.py).
THEOREM Invariance == Spec => []IInv
<1> QED
  BY InvInit, InvNext, PTL DEF Spec

\* Every variable has the values the code gives it, and monitor.db only refers to reports
\* that were captured.
THEOREM TypeCorrect == Spec => []TypeOK
<1>1. IInv => TypeOK
  BY DEF IInv
<1> QED
  BY <1>1, Invariance, PTL

\* However pages are cut short and uploads fail, the facts cursor passes every run again
\* before it has passed every other run once more (run_facts, save_run_cursor).
THEOREM RotationIsFair == Spec => []RotationVisitsAll
<1>1. IInv => RotationVisitsAll
  <2> SUFFICES ASSUME IInv, NEW r \in Runs PROVE unvisited[r] < NumRuns
    BY DEF RotationVisitsAll
  <2>1. r \in 1..NumRuns /\ cursor \in 0..NumRuns /\ unvisited[r] \in Nat
    BY DEF IInv, TypeOK, Runs
  <2> QED
    BY <2>1 DEF IInv, CursorInv
<1> QED
  BY <1>1, Invariance, PTL

\* Of any number of late, repeated and reordered reports none takes a row back to an earlier
\* status; of a row that expired none does that was captured more than Future after the
\* oldest moment still accepted, so none at all if future_seconds is 0 (merge_run, the
\* window of ingest, retention).
THEOREM RowsGoBackOnlyWithinSkew == Spec => GoesBackOnlyWithinSkew
<1>1. IInv /\ [Next]_vars =>
        [\A r \in Runs : rows'[r] # NoRow =>
           \/ rows'[r].turn >= IF rows[r] # NoRow THEN rows[r].turn ELSE shown[r]
           \/ /\ rows[r] = NoRow
              /\ clock - History <= rows'[r].captured
              /\ rows'[r].captured < clock - History + Future]_vars
  <2> SUFFICES ASSUME IInv, [Next]_vars, NEW r \in Runs, rows'[r] # NoRow
               PROVE  \/ rows'[r].turn >= IF rows[r] # NoRow THEN rows[r].turn ELSE shown[r]
                      \/ /\ rows[r] = NoRow
                         /\ clock - History <= rows'[r].captured
                         /\ rows'[r].captured < clock - History + Future
    OBVIOUS
  <2>1. rows[r].turn \in Nat /\ shown[r] \in Nat /\ rows \in [Runs -> [status : Statuses,
          turn : Nat, captured : Nat, received : Nat,
          conflicts : SUBSET {"status", "status_regression"}]]
    BY DEF IInv, TypeOK
  <2>2. CASE rows'[r] = rows[r]
    BY <2>1, <2>2
  <2>3. ASSUME NEW i \in accepted, Ingest(i), r \in DOMAIN reports[i].facts
        PROVE  \/ rows'[r].turn >= IF rows[r] # NoRow THEN rows[r].turn ELSE shown[r]
               \/ /\ rows[r] = NoRow
                  /\ clock - History <= rows'[r].captured
                  /\ rows'[r].captured < clock - History + Future
    <3>1. /\ i \in DOMAIN reports /\ InWindow(reports[i].captured)
          /\ rows'[r] = Merged(rows[r], reports[i].facts[r], reports[i].captured)
      BY <2>3 DEF IInv, TypeOK, Ingest
    <3>2. /\ rows'[r].turn \in Nat /\ rows'[r].turn >= rows[r].turn
          /\ rows[r] = NoRow /\ rows'[r].turn < shown[r] =>
               /\ clock - History <= rows'[r].captured
               /\ rows'[r].captured < clock - History + Future
      BY <2>3, <3>1, MergedFacts
    <3> QED
      BY <2>1, <3>2
  <2>4. ASSUME NEW i \in accepted, Ingest(i), r \notin DOMAIN reports[i].facts
        PROVE  rows'[r] = rows[r]
    BY <2>4 DEF Ingest
  <2>5. ASSUME NEW q \in Runs, ExpireRow(q)
        PROVE  rows'[r] = rows[r]
    BY <2>1, <2>5 DEF ExpireRow
  <2>6. CASE ~(\E i \in accepted : Ingest(i)) /\ ~(\E q \in Runs : ExpireRow(q))
    <3>1. CASE SourceStep
      BY <2>2, <3>1 DEF SourceStep, BeginRun, ChangeStatus, Sample
    <3>2. CASE Tick \/ Report \/ MergeProgress \/ MergeIsLost \/ UNCHANGED vars
      BY <2>2, <3>2 DEF vars, Tick, Report, MergeProgress, MergeIsLost
    <3> QED
      BY <2>6, <3>1, <3>2 DEF Next, SourceStep
  <2> QED
    BY <2>2, <2>3, <2>4, <2>5, <2>6
<1> QED
  BY <1>1, Invariance, PTL DEF Spec, GoesBackOnlyWithinSkew

\* A conflict that is flagged is of the source, never of the order in which reports
\* arrived (merge_run).
THEOREM ConflictsComeFromSource == Spec => []ConflictsAreReal
<1>1. IInv => ConflictsAreReal
  BY DEF IInv
<1> QED
  BY <1>1, Invariance, PTL

\* The progress shown of a run never goes back (merge_received).
THEOREM ProgressGoesOn == Spec => ProgressNeverBack
<1>1. IInv /\ [Next]_vars =>
        [\A r \in Runs : /\ stages'[r].sequence >= stages[r].sequence
                         /\ stages[r].state # "RUNNING" => stages'[r].state = stages[r].state]_vars
  <2> SUFFICES ASSUME IInv, [Next]_vars, NEW r \in Runs
               PROVE  /\ stages'[r].sequence >= stages[r].sequence
                      /\ stages[r].state # "RUNNING" => stages'[r].state = stages[r].state
    OBVIOUS
  <2>1. stages[r] \in Progresses
    BY DEF IInv, TypeOK
  <2>2. CASE MergeProgress
    BY <2>1, <2>2, MergeGoesOn DEF Follows, Progresses
  <2>3. CASE ~MergeProgress
    <3>1. stages' = stages
      BY <2>3 DEF Next, vars, BeginRun, ChangeStatus, Sample, ExpireRow, Tick, Report, Ingest,
                  MergeIsLost
    <3> QED
      BY <2>1, <3>1 DEF Progresses
  <2> QED
    BY <2>2, <2>3
<1> QED
  BY <1>1, Invariance, PTL DEF Spec, ProgressNeverBack
=============================================================================
