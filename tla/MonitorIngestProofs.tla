------------------------- MODULE MonitorIngestProofs -------------------------
(***************************************************************************)
(* No report file is lost on its way from the incoming directory into      *)
(* monitor.db, for any number of files, batch size, redeliveries, kills    *)
(* and failures: the safety properties of MonitorIngest.                   *)
(***************************************************************************)
EXTENDS MonitorIngest, TLAPS

USE IngestAssumption DEF environment, round, results, counters, Directories, States

-----------------------------------------------------------------------------
(* The inductive invariant                                                   *)

\* Until a file was whole there is at most one of it, and afterwards none that is half
\* written.
PartInv ==
  \A i \in Files :
    /\ i \in transit => i \notin arrived /\ \A d \in Directories : held[d][i] = "none"
    /\ i \in arrived => \A d \in Directories : held[d][i] # "part"
    /\ i \notin arrived => \E d \in Directories : held[d][i] = "none"

\* What is removed next was committed, or is half written, or is outside the window.
JobInv ==
  /\ job.next = "remove" => job.file \in committed
  /\ job.next = "reject" /\ job.read = "whole" => job.file \in old

IInv == TypeOK /\ PartInv /\ JobInv /\ NoReportLost

-----------------------------------------------------------------------------
(* The parts of the invariant, step by step                                  *)

\* Without a job the ingestor is idle.
LEMMA NothingFacts == Nothing.next = "idle"
BY DEF Nothing

\* The initial state has the right types.
LEMMA TypeInit == Init => TypeOK
<1> SUFFICES ASSUME Init PROVE TypeOK
  OBVIOUS
<1>1. held \in [Directories -> [Files -> States]] /\ seen \in [Directories -> [Files -> 0..2]]
  BY DEF Init
<1>2. listed \in [Directories -> SUBSET Files] /\ used \in 0..BatchSize
  BY DEF Init
<1>3. /\ redeliveries \in 0..MaxRedeliveries /\ kills \in 0..MaxKills
      /\ failures \in 0..MaxFailures
  BY DEF Init
<1> HIDE IngestAssumption
<1> QED
  BY <1>1, <1>2, <1>3 DEF Init, TypeOK

\* Files arrive, are finished and become old without changing types.
LEMMA TypeDeliver ==
  ASSUME TypeOK, NEW i \in Files, Deliver(i) \/ BecomeOld(i) \/ \E d \in Directories : FinishWriting(d, i)
  PROVE  TypeOK'
<1>1. CASE Deliver(i)
  <2>1. held' \in [Directories -> [Files -> States]] /\ seen' \in [Directories -> [Files -> 0..2]]
    BY <1>1 DEF TypeOK, Deliver, Forget
  <2>2. redeliveries' \in 0..MaxRedeliveries
    BY <1>1 DEF TypeOK, Deliver
  <2> QED
    BY <1>1, <2>1, <2>2 DEF TypeOK, Deliver
<1>2. CASE BecomeOld(i)
  BY <1>2 DEF TypeOK, BecomeOld
<1>3. ASSUME NEW d \in Directories, FinishWriting(d, i) PROVE TypeOK'
  <2>1. held' \in [Directories -> [Files -> States]] /\ seen' \in [Directories -> [Files -> 0..2]]
    BY <1>3 DEF TypeOK, FinishWriting, Forget
  <2> QED
    BY <1>3, <2>1 DEF TypeOK, FinishWriting
<1> QED
  BY <1>1, <1>2, <1>3

\* The beginning and the end of a round, a failure and a kill keep the types.
LEMMA TypeRound ==
  ASSUME TypeOK, Start \/ OpenDirectory \/ LeaveDirectory \/ StepFails \/ Kill \/ UNCHANGED vars
  PROVE  TypeOK'
<1>1. CASE OpenDirectory
  <2>1. listed \in [Directories -> SUBSET Files] /\ directory \in Directories /\ open \subseteq Directories
    BY DEF TypeOK
  <2>2. listed' \in [Directories -> SUBSET Files]
    <3>1. {i \in Files : held[directory][i] # "none"} \subseteq Files
      OBVIOUS
    <3> QED
      BY <1>1, <2>1, <3>1 DEF OpenDirectory
  <2>3. open' \subseteq Directories
    BY <1>1, <2>1 DEF OpenDirectory
  <2> QED
    BY <1>1, <2>2, <2>3 DEF TypeOK, OpenDirectory
<1>0. CASE Start
  BY <1>0 DEF TypeOK, Start
<1>2. CASE LeaveDirectory
  BY <1>2 DEF TypeOK, LeaveDirectory, Kept
<1>3. CASE StepFails \/ Kill \/ UNCHANGED vars
  <2>1. /\ redeliveries' \in 0..MaxRedeliveries /\ kills' \in 0..MaxKills
        /\ failures' \in 0..MaxFailures /\ used' \in 0..BatchSize
    BY <1>3 DEF TypeOK, StepFails, Kill, vars
  <2>2. /\ UNCHANGED <<environment, seen, listed, results>> /\ (job' = job \/ job' = Nothing)
        /\ (directory' = directory \/ directory' = "processing")
        /\ (open' = open \/ open' = {}) /\ running' \in BOOLEAN
    BY <1>3 DEF TypeOK, StepFails, Kill, vars
  <2> QED
    BY <2>1, <2>2 DEF TypeOK
<1> QED
  BY <1>0, <1>1, <1>2, <1>3

\* Looking at a file keeps the types.
LEMMA TypeVisit ==
  ASSUME TypeOK, NEW i \in Files, Visit(i)
  PROVE  TypeOK'
<1>1. held' \in [Directories -> [Files -> States]]
  BY DEF TypeOK, Visit
<1>2. seen' \in [Directories -> [Files -> 0..2]]
  BY DEF TypeOK, Visit
<1>3. used' \in 0..BatchSize
  BY DEF TypeOK, Visit, BatchDone
<1>4. listed' \in [Directories -> SUBSET Files]
  <2>1. listed \in [Directories -> SUBSET Files] /\ listed' = [listed EXCEPT ![directory] = @ \ {i}]
    BY DEF TypeOK, Visit
  <2>2. listed[directory] \ {i} \in SUBSET Files
    BY <2>1 DEF TypeOK
  <2> QED
    BY <2>1, <2>2
<1>5. job' = Nothing \/ /\ job'.file \in Files /\ job'.read \in {"part", "whole"}
                        /\ job'.graced \in BOOLEAN
                        /\ job'.next \in {"read", "commit", "remove", "reject"}
  <2>1. directory \in Directories /\ held[directory][i] \in States
    BY DEF TypeOK
  <2>2. CASE job' # Nothing
    <3>1. /\ held[directory][i] # "none"
          /\ job' = [file |-> i, read |-> held[directory][i], graced |-> seen[directory][i] > 1,
                     next |-> "read"]
      BY <2>2 DEF Visit
    <3> QED
      BY <2>1, <3>1
  <2> QED
    BY <2>2
<1> QED
  BY <1>1, <1>2, <1>3, <1>4, <1>5 DEF TypeOK, Visit

\* Reading, committing and removing a file keep the types.
LEMMA TypeJob ==
  ASSUME TypeOK, Read \/ Commit \/ Remove
  PROVE  TypeOK'
<1>1. job # Nothing
  BY NothingFacts DEF Read, Commit, Remove
<1>2. CASE Read
  BY <1>1, <1>2 DEF TypeOK, Read
<1>3. CASE Commit
  BY <1>1, <1>3 DEF TypeOK, Commit
<1>4. CASE Remove
  <2>1. held' \in [Directories -> [Files -> States]] /\ seen' \in [Directories -> [Files -> 0..2]]
    BY <1>1, <1>4 DEF TypeOK, Remove, Forget
  <2> QED
    BY <1>1, <1>4, <2>1 DEF TypeOK, Remove
<1> QED
  BY <1>2, <1>3, <1>4

\* The steps that only the transfer or the clock takes.
LEMMA KeptDeliver ==
  ASSUME IInv, NEW i \in Files, Deliver(i) \/ BecomeOld(i) \/ \E d \in Directories : FinishWriting(d, i)
  PROVE  PartInv' /\ JobInv' /\ NoReportLost'
<1>0. /\ held \in [Directories -> [Files -> States]] /\ arrived \subseteq Files
      /\ PartInv /\ JobInv /\ NoReportLost
  BY DEF IInv, TypeOK
<1>1. CASE Deliver(i)
  <2>1. PICK s \in {"part", "whole"} :
          /\ held' = [held EXCEPT !["incoming"][i] = s]
          /\ transit' = transit \ {i}
          /\ s = "part" => i \in transit /\ arrived' = arrived
          /\ s = "whole" => arrived' = arrived \cup {i} /\ i \in transit \cup arrived
    <3>1. CASE i \in transit /\ transit' = transit \ {i} /\ \E s \in {"part", "whole"} :
             /\ held' = [held EXCEPT !["incoming"][i] = s]
             /\ arrived' = IF s = "whole" THEN arrived \cup {i} ELSE arrived
      BY <3>1
    <3>2. CASE i \in arrived /\ held' = [held EXCEPT !["incoming"][i] = "whole"]
               /\ UNCHANGED <<transit, arrived>>
      <4>1. transit' = transit \ {i}
        BY <1>0, <3>2 DEF PartInv
      <4> QED
        BY <3>2, <4>1
    <3> QED
      BY <1>1, <3>1, <3>2 DEF Deliver
  <2>2. /\ held'["incoming"][i] = s /\ held'["processing"] = held["processing"]
        /\ \A j \in Files \ {i} : held'["incoming"][j] = held["incoming"][j]
    BY <1>0, <2>1
  <2>3. /\ UNCHANGED <<old, job, results>>
    BY <1>1 DEF Deliver
  <2>4. PartInv'
    BY <1>0, <2>1, <2>2 DEF PartInv
  <2>5. NoReportLost'
    BY <1>0, <2>1, <2>2, <2>3 DEF NoReportLost, PartInv
  <2> QED
    BY <1>0, <2>3, <2>4, <2>5 DEF JobInv
<1>2. CASE BecomeOld(i)
  BY <1>0, <1>2 DEF BecomeOld, PartInv, JobInv, NoReportLost
<1>3. ASSUME NEW d \in Directories, FinishWriting(d, i)
      PROVE  PartInv' /\ JobInv' /\ NoReportLost'
  <2>1. /\ held[d][i] = "part" /\ arrived' = arrived \cup {i}
        /\ UNCHANGED <<transit, old, job, results>>
    BY <1>3 DEF FinishWriting
  <2>2. /\ held'[d][i] = "whole"
        /\ \A e \in Directories, j \in Files : e # d \/ j # i => held'[e][j] = held[e][j]
    BY <1>0, <1>3 DEF FinishWriting
  <2>3. \A e \in Directories \ {d} : held[e][i] = "none"
    BY <1>0, <2>1 DEF PartInv
  <2>4. PartInv'
    BY <1>0, <2>1, <2>2, <2>3 DEF PartInv
  <2>5. NoReportLost'
    BY <1>0, <2>1, <2>2 DEF NoReportLost
  <2> QED
    BY <1>0, <2>1, <2>4, <2>5 DEF JobInv
<1> QED
  BY <1>1, <1>2, <1>3

\* The beginning and the end of a round, a failure and a kill lose no report.
LEMMA KeptRound ==
  ASSUME IInv, Start \/ OpenDirectory \/ LeaveDirectory \/ StepFails \/ Kill \/ UNCHANGED vars
  PROVE  PartInv' /\ JobInv' /\ NoReportLost'
<1>1. UNCHANGED <<environment, results>> /\ (job' = job \/ job' = Nothing)
  BY DEF Start, OpenDirectory, LeaveDirectory, StepFails, Kill, vars
<1> QED
  BY <1>1, NothingFacts DEF IInv, PartInv, JobInv, NoReportLost

\* A claimed file is moved, and never onto another one.
LEMMA KeptVisit ==
  ASSUME IInv, NEW i \in Files, Visit(i)
  PROVE  PartInv' /\ JobInv' /\ NoReportLost'
<1>0. /\ held \in [Directories -> [Files -> States]] /\ arrived \subseteq Files
      /\ PartInv /\ NoReportLost
  BY DEF IInv, TypeOK
<1>1. UNCHANGED <<transit, arrived, old, results>> /\ job'.next \in {"idle", "read"}
  BY NothingFacts DEF Visit
<1>2. CASE held' = held
  BY <1>0, <1>1, <1>2 DEF PartInv, NoReportLost, JobInv
<1>3. CASE held' # held
  <2>1. /\ held["processing"][i] = "none"
        /\ held' = [held EXCEPT !["incoming"][i] = "none", !["processing"][i] = held["incoming"][i]]
    BY <1>3 DEF Visit, Claimable
  <2>2. /\ held'["incoming"][i] = "none" /\ held'["processing"][i] = held["incoming"][i]
        /\ \A d \in Directories, j \in Files \ {i} : held'[d][j] = held[d][j]
    BY <1>0, <2>1
  <2>3. PartInv'
    BY <1>0, <1>1, <2>1, <2>2 DEF PartInv
  <2>4. NoReportLost'
    BY <1>0, <1>1, <2>1, <2>2 DEF NoReportLost
  <2> QED
    BY <1>1, <2>3, <2>4 DEF JobInv
<1> QED
  BY <1>2, <1>3

\* Reading, committing and removing lose no report: a file is removed only once it is in
\* the database.
LEMMA KeptJob ==
  ASSUME IInv, Read \/ Commit \/ Remove
  PROVE  PartInv' /\ JobInv' /\ NoReportLost'
<1>0. /\ held \in [Directories -> [Files -> States]] /\ arrived \subseteq Files
      /\ PartInv /\ JobInv /\ NoReportLost
      /\ job.file \in Files /\ job.read \in {"part", "whole"}
  BY NothingFacts DEF IInv, TypeOK, Read, Commit, Remove
<1>1. CASE Read
  <2>1. JobInv'
    <3>1. job'.next = "reject" => job' = [job EXCEPT !.next = "reject"] /\ ~(job.read = "whole" /\ job.file \notin old)
      BY <1>1, NothingFacts DEF Read
    <3>2. job'.next # "remove"
      BY <1>1, NothingFacts DEF Read, IInv, TypeOK
    <3>3. job'.next = "reject" => job'.file = job.file /\ job'.read = job.read
      BY <3>1, <1>1, NothingFacts DEF IInv, TypeOK, Read
    <3> QED
      BY <1>1, <3>1, <3>2, <3>3 DEF JobInv, Read
  <2> QED
    BY <1>0, <1>1, <2>1 DEF Read, PartInv, NoReportLost
<1>2. CASE Commit
  <2>1. JobInv'
    <3>1. job'.next = "remove" /\ job'.file = job.file
      BY <1>2, NothingFacts DEF Commit, IInv, TypeOK
    <3> QED
      BY <1>2, <3>1 DEF Commit, JobInv
  <2> QED
    BY <1>0, <1>2, <2>1 DEF Commit, PartInv, NoReportLost
<1>3. CASE Remove
  <2>1. job' = Nothing /\ UNCHANGED <<transit, arrived, old, committed>>
    BY <1>3 DEF Remove
  <2>2. CASE ~Unchanged
    BY <1>0, <1>3, <2>1, <2>2, NothingFacts DEF Remove, PartInv, NoReportLost, JobInv
  <2>3. CASE Unchanged
    <3>1. /\ held'["processing"][job.file] = "none" /\ held'["incoming"] = held["incoming"]
          /\ \A j \in Files \ {job.file} : held'["processing"][j] = held["processing"][j]
          /\ expired' = IF job.next = "reject" /\ job.read = "whole"
                        THEN expired \cup {job.file} ELSE expired
          /\ held["processing"][job.file] = job.read
      BY <1>0, <1>3, <2>3 DEF Remove, Unchanged
    <3>2. job.file \in arrived => job.file \in committed \cup (expired' \cap old')
      <4>1. CASE job.next = "remove"
        BY <1>0, <2>1, <4>1 DEF JobInv
      <4>2. CASE job.next = "reject" /\ job.read = "whole"
        BY <1>0, <2>1, <3>1, <4>2 DEF JobInv
      <4>3. CASE job.next = "reject" /\ job.read = "part"
        BY <1>0, <3>1, <4>3 DEF PartInv
      <4> QED
        BY <1>0, <1>3, <4>1, <4>2, <4>3 DEF Remove
    <3>3. PartInv'
      BY <1>0, <2>1, <3>1 DEF PartInv
    <3>4. NoReportLost'
      BY <1>0, <2>1, <3>1, <3>2 DEF NoReportLost
    <3> QED
      BY <2>1, <3>3, <3>4, NothingFacts DEF JobInv
  <2> QED
    BY <2>2, <2>3
<1> QED
  BY <1>1, <1>2, <1>3

-----------------------------------------------------------------------------
(* The theorems                                                              *)

\* The inductive invariant holds initially.
LEMMA InvInit == Init => IInv
BY TypeInit, NothingFacts DEF Init, IInv, PartInv, JobInv, NoReportLost

\* Every step keeps the inductive invariant.
LEMMA InvNext == IInv /\ [Next]_vars => IInv'
<1> SUFFICES ASSUME IInv, [Next]_vars PROVE IInv'
  OBVIOUS
<1>0. TypeOK
  BY DEF IInv
<1>1. ASSUME NEW i \in Files, Deliver(i) \/ BecomeOld(i) \/ \E d \in Directories : FinishWriting(d, i)
      PROVE  IInv'
  BY <1>0, <1>1, TypeDeliver, KeptDeliver DEF IInv
<1>2. CASE Start \/ OpenDirectory \/ LeaveDirectory \/ StepFails \/ Kill \/ UNCHANGED vars
  BY <1>0, <1>2, TypeRound, KeptRound DEF IInv
<1>3. ASSUME NEW i \in Files, Visit(i) PROVE IInv'
  BY <1>0, <1>3, TypeVisit, KeptVisit DEF IInv
<1>4. CASE Read \/ Commit \/ Remove
  BY <1>0, <1>4, TypeJob, KeptJob DEF IInv
<1> QED
  BY <1>1, <1>2, <1>3, <1>4 DEF Next, IngestorStep

\* The invariant of the ingestor, from which the theorems below follow (ingest.py).
THEOREM Invariance == Spec => []IInv
<1> QED
  BY InvInit, InvNext, PTL DEF Spec

\* Every variable of the ingestor has the values the code gives it; a round never goes
\* over its batch.
THEOREM TypeCorrect == Spec => []TypeOK
<1>1. IInv => TypeOK
  BY DEF IInv
<1> QED
  BY <1>1, Invariance, PTL

\* A report that was whole on the disk stays there until monitor.db has it or it is too
\* old, however the transfer, the ingestor, kills and failures interleave (process,
\* remove, reject).
THEOREM NothingIsLost == Spec => []NoReportLost
<1>1. IInv => NoReportLost
  BY DEF IInv
<1> QED
  BY <1>1, Invariance, PTL
=============================================================================
