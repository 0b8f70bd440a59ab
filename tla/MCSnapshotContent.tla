-------------------------- MODULE MCSnapshotContent --------------------------
(***************************************************************************)
(* An instance of SnapshotContent for TLC: a row of one byte and a row     *)
(* that fills a chunk alone, and hashes that tell apart any two tables of  *)
(* the bounds with as many rows.                                           *)
(***************************************************************************)
EXTENDS SnapshotContent

CONSTANTS small, large

MCSize == [r \in Rows |-> IF r = small THEN 1 ELSE 4]
MCHashA == [r \in Rows |-> IF r = small THEN 1 ELSE 2]
MCHashB == [r \in Rows |-> IF r = small THEN 2 ELSE 1]

\* What the proofs say about a run that verifies holds of this instance's hashes.
ASSUME MCDigestTellsApart == DigestTellsApart
==============================================================================
