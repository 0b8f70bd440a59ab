---------------------------- MODULE MonitorIngest ----------------------------
(***************************************************************************)
(* How report files are taken from the incoming directory                  *)
(* (monitor/ingest.py). The transfer writes files there while the ingestor *)
(* looks at them, repeats them, and never says when one is complete; the   *)
(* ingestor claims a file that has settled by moving it into a private     *)
(* directory, reads it, commits it to monitor.db and removes it, in rounds *)
(* of a bounded number of files per directory. It may be killed between    *)
(* any two of these steps, and statements fail. What a commit does to the  *)
(* database is module MonitorReports.                                      *)
(*                                                                         *)
(* A file is its name, and a name is a report. Two locks keep a second     *)
(* ingestor out, so there is one here. Settling and the grace period are   *)
(* counted in visits: a file that a visit finds as the one before did has  *)
(* settled, and after one more the grace period is over.                   *)
(***************************************************************************)
EXTENDS Integers, FiniteSets

CONSTANTS
  Files,            \* names of report files
  Unreadable,       \* files that cannot be opened: every attempt is an OSError
  BatchSize,        \* batch_size: files a round visits in each directory
  MaxRedeliveries,  \* bound on files delivered again
  MaxKills,         \* bound on kills of the ingestor
  MaxFailures       \* bound on statements and calls that fail

ASSUME IngestAssumption ==
  /\ Unreadable \subseteq Files
  /\ BatchSize \in Nat \ {0}
  /\ MaxRedeliveries \in Nat /\ MaxKills \in Nat /\ MaxFailures \in Nat

VARIABLES
  transit,   \* files the transfer has not delivered yet
  held,      \* [Directories -> [Files -> "none", "part" or "whole"]]
  arrived,   \* files that were whole in one of the directories
  old,       \* reports that are not accepted: captured_at is outside the window
  running,   \* whether the ingestor holds its locks
  seen,      \* observations: [Directories -> [Files -> visits that found it unchanged]]
  directory, \* the directory the round is in
  open,      \* directories with an open iterator
  listed,    \* [Directories -> the names the iterator has still to return]
  used,      \* files visited in this directory in this round
  job,       \* the file in hand: what was read of it, whether its grace is over, what is next
  committed, \* reports in monitor.db
  expired,   \* whole files rejected because the report was outside the window
  redeliveries, kills, failures

environment == <<transit, held, arrived, old>>
round == <<directory, open, listed, used>>
results == <<committed, expired>>
counters == <<redeliveries, kills, failures>>
vars == <<environment, running, seen, round, job, results, counters>>

Directories == {"processing", "incoming"}
States == {"none", "part", "whole"}
Nothing == [file |-> "", read |-> "none", graced |-> FALSE, next |-> "idle"]
Idle == job.next = "idle"
Forget(d, i) == [seen EXCEPT ![d][i] = 0]

Init ==
  /\ transit = Files
  /\ held = [d \in Directories |-> [i \in Files |-> "none"]]
  /\ arrived = {} /\ old = {}
  /\ running = FALSE
  /\ seen = [d \in Directories |-> [i \in Files |-> 0]]
  /\ directory = "processing" /\ open = {} /\ listed = [d \in Directories |-> {}] /\ used = 0
  /\ job = Nothing
  /\ committed = {} /\ expired = {}
  /\ redeliveries = 0 /\ kills = 0 /\ failures = 0

-------------------------------------------------------------------------------
(* The transfer                                                              *)

\* A file arrives, half written or whole; what has arrived may arrive again, in place
\* of a file of its name. Either way its inode is a new one.
Deliver(i) ==
  /\ \/ /\ i \in transit
        /\ transit' = transit \ {i}
        /\ \E s \in {"part", "whole"} :
             /\ held' = [held EXCEPT !["incoming"][i] = s]
             /\ arrived' = IF s = "whole" THEN arrived \cup {i} ELSE arrived
        /\ UNCHANGED redeliveries
     \/ /\ i \in arrived
        /\ redeliveries < MaxRedeliveries
        /\ redeliveries' = redeliveries + 1
        /\ held' = [held EXCEPT !["incoming"][i] = "whole"]
        /\ UNCHANGED <<transit, arrived>>
  /\ seen' = Forget("incoming", i)
  /\ UNCHANGED <<old, running, round, job, results, kills, failures>>

\* The writer goes on with its open file, wherever it was moved to. Of a file that was
\* removed nothing is seen.
FinishWriting(d, i) ==
  /\ held[d][i] = "part"
  /\ held' = [held EXCEPT ![d][i] = "whole"]
  /\ arrived' = arrived \cup {i}
  /\ seen' = Forget(d, i)
  /\ UNCHANGED <<transit, old, running, round, job, results, counters>>

\* A report leaves the window of acceptance by growing old. One captured too far ahead is
\* outside it as well, and rejected in the same way when its grace is over.
BecomeOld(i) ==
  /\ i \notin old
  /\ old' = old \cup {i}
  /\ UNCHANGED <<transit, held, arrived, running, seen, round, job, results, counters>>

-------------------------------------------------------------------------------
(* The ingestor                                                              *)

Start ==
  /\ ~running
  /\ running' = TRUE
  /\ UNCHANGED <<environment, seen, round, job, results, counters>>

\* entries: the iterator is kept from round to round, so that a round goes on where the
\* last one stopped.
OpenDirectory ==
  /\ running /\ Idle
  /\ directory \notin open
  /\ open' = open \cup {directory}
  /\ listed' = [listed EXCEPT ![directory] = {i \in Files : held[directory][i] # "none"}]
  /\ UNCHANGED <<environment, running, seen, directory, used, job, results, counters>>

BatchDone_OneMore == used > BatchSize
BatchDone == used >= BatchSize

\* What becomes of an iterator when the round leaves its directory.
Kept_Never == {}
Kept == IF listed[directory] = {} /\ ~BatchDone THEN open \ {directory} ELSE open

LeaveDirectory ==
  /\ running /\ Idle
  /\ directory \in open
  /\ BatchDone \/ listed[directory] = {}
  /\ open' = Kept
  /\ directory' = IF directory = "processing" THEN "incoming" ELSE "processing"
  /\ used' = 0
  /\ UNCHANGED <<environment, running, seen, listed, job, results, counters>>

\* A pending claimed file is never replaced by a fresh delivery.
Claimable(i) == held["processing"][i] = "none"

\* process up to the open: the name may be gone, the file may not have settled, or one
\* of its name may be pending; a settled file is claimed.
Visit(i) ==
  /\ running /\ Idle
  /\ directory \in open /\ i \in listed[directory]
  /\ ~BatchDone
  /\ listed' = [listed EXCEPT ![directory] = @ \ {i}]
  /\ used' = used + 1
  /\ LET gone == held[directory][i] = "none"
         settled == ~gone /\ seen[directory][i] > 0
         claims == settled /\ directory = "incoming" /\ Claimable(i)
         taken == claims \/ (settled /\ directory = "processing")
         hand == [file |-> i, read |-> held[directory][i], graced |-> seen[directory][i] > 1,
                  next |-> "read"]
     IN /\ job' = IF taken THEN hand ELSE Nothing
        /\ held' = IF claims
                   THEN [held EXCEPT !["incoming"][i] = "none", !["processing"][i] = held["incoming"][i]]
                   ELSE held
        /\ seen' = IF gone THEN seen
                   ELSE IF claims THEN [seen EXCEPT !["incoming"][i] = 0, !["processing"][i] = 0]
                   ELSE [seen EXCEPT ![directory][i] = IF @ < 2 THEN @ + 1 ELSE @]
  /\ UNCHANGED <<transit, arrived, old, running, directory, open, results, counters>>

\* The file still is the one that was looked at.
Unchanged_ByName == held["processing"][job.file] # "none"
Unchanged == held["processing"][job.file] = job.read

\* open, read, decode and the window of captured_at.
Read ==
  /\ running /\ job.next = "read"
  /\ job' = IF job.file \in Unreadable \/ ~Unchanged THEN Nothing
            ELSE IF job.read = "whole" /\ job.file \notin old THEN [job EXCEPT !.next = "commit"]
            ELSE IF job.graced THEN [job EXCEPT !.next = "reject"]
            ELSE Nothing
  /\ UNCHANGED <<environment, running, seen, round, results, counters>>

Commit ==
  /\ running /\ job.next = "commit"
  /\ committed' = committed \cup {job.file}
  /\ job' = [job EXCEPT !.next = "remove"]
  /\ UNCHANGED <<environment, running, seen, round, expired, counters>>

\* The last step of an ingested and of a rejected file: remove, if it is unchanged.
Remove ==
  /\ running /\ job.next \in {"remove", "reject"}
  /\ job' = Nothing
  /\ IF Unchanged
     THEN /\ held' = [held EXCEPT !["processing"][job.file] = "none"]
          /\ seen' = Forget("processing", job.file)
          /\ expired' = IF job.next = "reject" /\ job.read = "whole"
                        THEN expired \cup {job.file} ELSE expired
     ELSE UNCHANGED <<held, seen, expired>>
  /\ UNCHANGED <<transit, arrived, old, running, round, committed, counters>>

\* A failing call ends the work on a file, not the round.
StepFails ==
  /\ running /\ ~Idle
  /\ failures < MaxFailures
  /\ failures' = failures + 1
  /\ job' = Nothing
  /\ UNCHANGED <<environment, running, seen, round, results, redeliveries, kills>>

\* A killed ingestor loses its iterators, but no file and no observation.
Kill ==
  /\ running
  /\ kills < MaxKills
  /\ kills' = kills + 1
  /\ running' = FALSE
  /\ job' = Nothing
  /\ directory' = "processing" /\ open' = {} /\ used' = 0
  /\ UNCHANGED <<environment, seen, listed, results, redeliveries, failures>>

IngestorStep ==
  \/ Start \/ OpenDirectory \/ LeaveDirectory
  \/ \E i \in Files : Visit(i)
  \/ Read \/ Commit \/ Remove

Next ==
  \/ \E i \in Files : Deliver(i) \/ BecomeOld(i) \/ \E d \in Directories : FinishWriting(d, i)
  \/ IngestorStep
  \/ StepFails \/ Kill

Spec == Init /\ [][Next]_vars
FairSpec == Spec /\ WF_vars(IngestorStep)

-------------------------------------------------------------------------------
(* Properties                                                                *)

TypeOK ==
  /\ transit \cup arrived \cup old \cup committed \cup expired \subseteq Files
  /\ held \in [Directories -> [Files -> States]]
  /\ running \in BOOLEAN
  /\ seen \in [Directories -> [Files -> 0..2]]
  /\ directory \in Directories /\ open \subseteq Directories
  /\ listed \in [Directories -> SUBSET Files]
  /\ used \in 0..BatchSize
  /\ job = Nothing \/ /\ job.file \in Files /\ job.read \in {"part", "whole"}
                      /\ job.graced \in BOOLEAN
                      /\ job.next \in {"read", "commit", "remove", "reject"}
  /\ redeliveries \in 0..MaxRedeliveries /\ kills \in 0..MaxKills /\ failures \in 0..MaxFailures

\* A report that was whole on the destination's disk still is there, or monitor.db has
\* it, or it was rejected and really is outside the window of acceptance, too old or
\* captured too far ahead: no file is removed unread because it was still being written
\* when it was read, because one of its name was in hand, or because the ingestor was
\* killed in the middle (process, remove, reject).
NoReportLost ==
  \A i \in arrived \ (committed \cup (expired \cap old)) : \E d \in Directories : held[d][i] = "whole"

\* Whatever arrives is taken out of both directories in the end, also what a killed
\* ingestor had claimed, and although files that cannot be read fill every round (tick,
\* entries).
EventuallyTaken ==
  <>[](\A i \in Files \ Unreadable : \A d \in Directories : held[d][i] = "none")
===============================================================================
