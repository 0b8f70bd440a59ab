--------------------------- MODULE MCSourceCycle ---------------------------
(***************************************************************************)
(* Instances of SourceCycle for TLC: one or two captured tables.           *)
(***************************************************************************)
EXTENDS SourceCycle

CONSTANTS t1, t2

MCOne == <<t1>>
MCTwo == <<t1, t2>>
=============================================================================
