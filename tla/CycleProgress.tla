--------------------------- MODULE CycleProgress ---------------------------
(***************************************************************************)
(* What a source cycle promises: one cycle at a time; its tables are       *)
(* delivered one after the other in the order in which they were captured; *)
(* a delivered table stays delivered; and the cycle completes exactly when *)
(* all are, unless an operator abandons it.                                *)
(***************************************************************************)
EXTENDS Naturals

CONSTANT NumTables

VARIABLES
  open,      \* a cycle has been opened and neither completed nor abandoned
  done,      \* tables the latest cycle has delivered
  completed  \* cycles completed so far

ProgressInit == open = FALSE /\ done = 0 /\ completed = 0

Open ==
  /\ ~open
  /\ open' = TRUE
  /\ done' = 0
  /\ UNCHANGED completed

DeliverNext ==
  /\ open
  /\ done < NumTables
  /\ done' = done + 1
  /\ UNCHANGED <<open, completed>>

Complete ==
  /\ open
  /\ done = NumTables
  /\ open' = FALSE
  /\ completed' = completed + 1
  /\ UNCHANGED done

Abandon ==
  /\ open
  /\ open' = FALSE
  /\ UNCHANGED <<done, completed>>

ProgressNext == Open \/ DeliverNext \/ Complete \/ Abandon

ProgressSpec == ProgressInit /\ [][ProgressNext]_<<open, done, completed>>

=============================================================================
