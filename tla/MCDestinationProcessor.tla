----------------------- MODULE MCDestinationProcessor -----------------------
(***************************************************************************)
(* Instances of DestinationProcessor for TLC: one table, runs created at   *)
(* successive seconds.                                                     *)
(***************************************************************************)
EXTENDS DestinationProcessor, TLC

CONSTANTS r1, r2, r3, t1, p1, p2

MCTableOf == [r \in Runs |-> t1]
\* r1 was created before r2, r2 before r3.
MCCreatedAt == [r \in Runs |-> CASE r = r1 -> 1 [] r = r2 -> 2 [] r = r3 -> 3]

ProcSymmetry == Permutations(Procs)

\* A bound of the safety run: at most one crash, failing statement or repeated
\* delivery in a behaviour, anywhere.
OneDisturbance == crashes + faults + redeliveries <= 1
=============================================================================
