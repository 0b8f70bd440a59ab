-------------------------- MODULE SnapshotTransfer --------------------------
(***************************************************************************)
(* What the source promises to whoever reads the relay: the files of a run *)
(* arrive in any order, but the manifest, which makes the run visible,     *)
(* arrives only after all the others; a run is reported delivered only     *)
(* once the manifest is there; nothing arrives after the run is over; and  *)
(* a delivered run changes only by failing in the clean-up that follows. A *)
(* source whose bookkeeping broke promises only that files stay.           *)
(***************************************************************************)
CONSTANTS Artifacts, ManifestFile

VARIABLES
  arrived,  \* artifacts the relay has
  outcome   \* "open", "delivered", "failed" or "broken"

TransferInit == arrived = {} /\ outcome = "open"

Arrive(a) ==
  /\ outcome = "open"
  /\ a # ManifestFile
  /\ arrived' = arrived \cup {a}
  /\ UNCHANGED outcome

\* The commit point of a run.
Commit ==
  /\ outcome = "open"
  /\ arrived = Artifacts \ {ManifestFile}
  /\ arrived' = Artifacts
  /\ UNCHANGED outcome

Succeed ==
  /\ outcome = "open"
  /\ arrived = Artifacts
  /\ outcome' = "delivered"
  /\ UNCHANGED arrived

\* Also with the manifest there: the source may not have learnt that it arrived.
GiveUp ==
  /\ outcome = "open"
  /\ outcome' = "failed"
  /\ UNCHANGED arrived

Retract ==
  /\ outcome = "delivered"
  /\ outcome' = "failed"
  /\ UNCHANGED arrived

Break ==
  /\ outcome' = "broken"
  /\ arrived \subseteq arrived' /\ arrived' \subseteq Artifacts
  /\ outcome # "broken" => arrived' = arrived

TransferNext ==
  \/ Commit \/ Succeed \/ GiveUp \/ Retract \/ Break
  \/ \E a \in Artifacts : Arrive(a)

TransferSpec == TransferInit /\ [][TransferNext]_<<arrived, outcome>>

=============================================================================
