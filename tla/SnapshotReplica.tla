-------------------------- MODULE SnapshotReplica --------------------------
(***************************************************************************)
(* What the destination promises to the readers of its tables, without     *)
(* files, locks, staging tables or retries: a table serves one complete    *)
(* snapshot at a time, and a snapshot enters the version history only      *)
(* while it is the one being served and only if it is newer than every     *)
(* version before it.                                                      *)
(***************************************************************************)
EXTENDS Naturals

CONSTANTS Runs, Tables, TableOf, CreatedAt, Corrupt, None

VARIABLES
  served,    \* [Tables -> the run whose rows the table holds, None if none of ours]
  recorded   \* runs in the version history

ReplicaInit ==
  /\ served = [t \in Tables |-> None]
  /\ recorded = {}

\* A complete and verified snapshot replaces what the table served.
Serve(r) ==
  /\ r \notin Corrupt
  /\ served' = [served EXCEPT ![TableOf[r]] = r]
  /\ UNCHANGED recorded

\* The served snapshot becomes the newest version of its table.
Record(r) ==
  /\ served[TableOf[r]] = r
  /\ \A v \in recorded : TableOf[v] = TableOf[r] => CreatedAt[v] < CreatedAt[r]
  /\ recorded' = recorded \cup {r}
  /\ UNCHANGED served

ReplicaNext == \E r \in Runs : Serve(r) \/ Record(r)

ReplicaSpec == ReplicaInit /\ [][ReplicaNext]_<<served, recorded>>

=============================================================================
