--------------------------- MODULE SnapshotContent ---------------------------
(***************************************************************************)
(* The rows of one run on their way: the scan of a table encodes them,     *)
(* cuts them into chunk files and keeps a digest (source/scanner.py,       *)
(* chunk_writer.py, common/verification.py); the manifest names the files  *)
(* (common/manifest.py); the transfer writes them into the incoming        *)
(* directory; the destination validates the set of files, imports it chunk *)
(* by chunk and reads the table back (destination/incoming.py,             *)
(* processor.py), while the orphan cleanup removes files (worker.py).      *)
(*                                                                         *)
(* A row is its encoding: two encodings are the same row exactly if they   *)
(* are equal. The sha256 of a file stands for its content. What surrounds  *)
(* this, locks, statuses, uploads and promotion, is in SourceDelivery and  *)
(* DestinationProcessor.                                                   *)
(***************************************************************************)
EXTENDS Integers, Sequences, SequencesExt

CONSTANTS
  Rows,         \* encoded rows
  Size,         \* [Rows -> bytes of the encoded line]
  HashA, HashB, \* [Rows -> the two hashes of an encoded row]
  Modulus,      \* 2^256 in the code
  MaxRows, MaxBytes,  \* max_rows and max_uncompressed_bytes of a chunk
  BatchRows,    \* insert_batch_rows
  MaxScan,      \* bound on the rows of the table
  MaxTroubles   \* bound on repeated deliveries, altered rows and crashes

ASSUME ContentAssumption ==
  /\ Size \in [Rows -> Nat \ {0}]
  /\ Modulus \in Nat \ {0}
  /\ {HashA, HashB} \subseteq [Rows -> 0..(Modulus - 1)]
  /\ MaxRows \in Nat \ {0} /\ MaxBytes \in Nat \ {0} /\ BatchRows \in Nat \ {0}
  /\ MaxScan \in Nat /\ MaxTroubles \in Nat

VARIABLES
  scanned,   \* the rows the table's SELECT returned
  current,   \* the rows of the open chunk, which has a .part name
  closed,    \* the rows of the chunk files with a final name
  digest,    \* of the rows scanned
  phase,     \* of the scan: "scanning", "finished" or "aborted"
  manifest,  \* NoManifest until the scan is finished
  sent,      \* chunk files the transfer has begun to write
  incoming,  \* [Sequences -> the file of a chunk in the incoming directory]
  announced, \* whether the manifest is in the incoming directory
  touched,   \* files changed since the processor first looked at them
  sweep,     \* of the orphan cleanup: "off", "listed" or "removing"
  pc,        \* of the processor
  at,        \* the chunk the processor is at
  decoded,   \* the rows it inserted of that chunk, not committed
  status,    \* runs.status, "none" if the run is not registered
  imported,  \* chunks whose status is IMPORTED
  staging,   \* the committed rows of the staging table
  troubles

source == <<scanned, current, closed, digest, phase, manifest>>
directory == <<sent, incoming, announced, touched, sweep>>
processor == <<pc, at, decoded, status, imported, staging>>
vars == <<source, directory, processor, troubles>>

Sequences == 1..MaxScan
NoManifest == [rows |-> 0, chunks |-> <<>>, verification |-> <<>>]
Absent == [kind |-> "absent", rows |-> 0]
EmptyDigest == [count |-> 0, a |-> 0, b |-> 0]
Total(f, rows) == FoldLeft(LAMBDA sum, r : sum + f[r], 0, rows)
Trouble == troubles < MaxTroubles /\ troubles' = troubles + 1

Init ==
  /\ scanned = <<>> /\ current = <<>> /\ closed = <<>> /\ digest = EmptyDigest
  /\ phase = "scanning" /\ manifest = NoManifest
  /\ sent = {} /\ incoming = [i \in Sequences |-> Absent] /\ announced = FALSE
  /\ touched = {} /\ sweep = "off"
  /\ pc = "idle" /\ at = 1 /\ decoded = <<>>
  /\ status = "none" /\ imported = {} /\ staging = <<>>
  /\ troubles = 0

-------------------------------------------------------------------------------
(* The scan                                                                  *)

AddHash(sum, h) == (sum + h) % Modulus

Updated(d, r) ==
  [count |-> d.count + 1, a |-> AddHash(d.a, HashA[r]), b |-> AddHash(d.b, HashB[r])]

Full_After(rows) == Len(rows) > MaxRows \/ Total(Size, rows) > MaxBytes
\* A chunk is closed by the row that reaches a limit, which may exceed it.
Full(rows) == Len(rows) >= MaxRows \/ Total(Size, rows) >= MaxBytes

WriteRow(r) ==
  /\ phase = "scanning"
  /\ Len(scanned) < MaxScan
  /\ LET rows == Append(current, r)
     IN IF Full(rows)
        THEN closed' = Append(closed, rows) /\ current' = <<>>
        ELSE current' = rows /\ UNCHANGED closed
  /\ scanned' = Append(scanned, r)
  /\ digest' = Updated(digest, r)
  /\ UNCHANGED <<phase, manifest, directory, processor, troubles>>

\* The query, the encoding or a write fails, or the upload was given up: the open chunk
\* is dropped, closed ones stay. When the callback of a closed chunk raises, its file
\* has its name already, be it of a chunk that a row filled or of the last one, which
\* finish() closes however short it is.
ScanFails ==
  /\ phase = "scanning"
  /\ phase' = "aborted"
  /\ current' = <<>>
  /\ \/ UNCHANGED closed
     \/ /\ current # <<>>
        /\ closed' = Append(closed, current)
     \/ /\ Len(scanned) < MaxScan
        /\ \E r \in Rows : /\ Full(Append(current, r))
                           /\ closed' = Append(closed, Append(current, r))
  /\ UNCHANGED <<scanned, digest, manifest, directory, processor, troubles>>

\* finish() closes the last chunk; the manifest is written if the rows add up.
FinishScan ==
  /\ phase = "scanning"
  /\ LET chunks == IF current = <<>> THEN closed ELSE Append(closed, current)
     IN /\ closed' = chunks
        /\ current' = <<>>
        /\ IF Len(FlattenSeq(chunks)) = digest.count
           THEN /\ phase' = "finished"
                /\ manifest' = [rows |-> digest.count, chunks |-> chunks, verification |-> digest]
           ELSE /\ phase' = "aborted"
                /\ UNCHANGED manifest
  /\ UNCHANGED <<scanned, digest, directory, processor, troubles>>

-------------------------------------------------------------------------------
(* The incoming directory                                                    *)

\* What a file of some rows is while it is written: all its rows may be there before it
\* is whole.
Written(rows) == {[kind |-> "part", rows |-> n] : n \in 0..Len(rows)} \cup
                 {[kind |-> "whole", rows |-> Len(rows)]}

\* A chunk is sent as soon as it is closed, also of a run that is aborted later; the
\* file grows; and it may be sent again.
Deliver(i) ==
  /\ i \in DOMAIN closed
  /\ \/ /\ i \notin sent
        /\ incoming' \in {[incoming EXCEPT ![i] = file] : file \in Written(closed[i])}
        /\ UNCHANGED troubles
     \/ /\ incoming[i].kind = "part"
        /\ incoming' = [incoming EXCEPT ![i] = [kind |-> "whole", rows |-> Len(closed[i])]]
        /\ UNCHANGED troubles
     \/ /\ i \in sent /\ incoming[i].kind # "part"
        /\ incoming' \in {[incoming EXCEPT ![i] = file] : file \in Written(closed[i])}
        /\ Trouble
  /\ sent' = sent \cup {i}
  /\ touched' = touched \cup {i}
  /\ UNCHANGED <<source, announced, sweep, processor>>

\* A manifest that is not whole is invalid.
DeliverManifest ==
  /\ manifest # NoManifest /\ ~announced
  /\ announced' = TRUE
  /\ UNCHANGED <<source, sent, incoming, touched, sweep, processor, troubles>>

ActiveStatuses == {"VALIDATED", "IMPORTING", "STAGED", "VERIFYING"}

\* cleanup_orphan_artifacts lists the manifests, asks for active runs, then removes the
\* old files of all other runs one by one. Any file may be old.
ListManifests ==
  /\ sweep = "off"
  /\ ~announced
  /\ sweep' = "listed"
  /\ UNCHANGED <<source, sent, incoming, announced, touched, processor, troubles>>

ReadActive ==
  /\ sweep = "listed"
  /\ sweep' = IF status \in ActiveStatuses THEN "off" ELSE "removing"
  /\ UNCHANGED <<source, sent, incoming, announced, touched, processor, troubles>>

RemoveOrphan(i) ==
  /\ sweep = "removing"
  /\ incoming[i] # Absent
  /\ incoming' = [incoming EXCEPT ![i] = Absent]
  /\ touched' = touched \cup {i}
  /\ UNCHANGED <<source, sent, announced, sweep, processor, troubles>>

SweepEnds ==
  /\ sweep = "removing"
  /\ sweep' = "off"
  /\ UNCHANGED <<source, sent, incoming, announced, touched, processor, troubles>>

-------------------------------------------------------------------------------
(* The destination's processor                                               *)

Chunks == DOMAIN manifest.chunks

\* validate_run: two looks at the set of files, with a pause between them.
Observe ==
  /\ pc = "idle" /\ announced
  /\ status \notin {"MISMATCH", "VERIFIED"}
  /\ \A i \in Chunks : incoming[i] # Absent
  /\ touched' = {}
  /\ pc' = "observed"
  /\ UNCHANGED <<source, sent, incoming, announced, sweep, at, decoded, status, imported,
                 staging, troubles>>

ObserveAgain ==
  /\ pc = "observed"
  /\ pc' = IF touched = {} THEN "hashing" ELSE "idle"
  /\ at' = 1
  /\ UNCHANGED <<source, directory, decoded, status, imported, staging, troubles>>

\* The size and the sha256 of one chunk file; the run is left alone if they differ.
HashFile ==
  /\ pc = "hashing" /\ at \in Chunks
  /\ IF incoming[at].kind = "whole"
     THEN at' = at + 1 /\ UNCHANGED pc
     ELSE pc' = "idle" /\ UNCHANGED at
  /\ UNCHANGED <<source, directory, decoded, status, imported, staging, troubles>>

\* register_validated_run, the dispatch on the run's status, begin_import.
Register ==
  /\ pc = "hashing" /\ at \notin Chunks
  /\ IF status \in {"STAGED", "VERIFYING"}
     THEN pc' = "verify" /\ UNCHANGED status
     ELSE pc' = "import" /\ status' = "IMPORTING"
  /\ at' = 1 /\ decoded' = <<>>
  /\ UNCHANGED <<source, directory, imported, staging, troubles>>

Remaining == Chunks \ imported

\* A chunk that is imported is skipped.
SkipImported ==
  /\ pc = "import" /\ at \in imported
  /\ at' = at + 1
  /\ UNCHANGED <<source, directory, pc, decoded, status, imported, staging, troubles>>

\* What can be read of a file that is open; one that is removed can still be read.
Readable == IF incoming[at] = Absent THEN Len(closed[at]) ELSE incoming[at].rows

\* insert_rows: MySQL may store a row as another one.
InsertBatch ==
  /\ pc = "import" /\ at \in Remaining
  /\ decoded # <<>> \/ incoming[at] # Absent
  /\ Len(decoded) < Readable
  /\ LET upto == IF Len(decoded) + BatchRows < Readable THEN Len(decoded) + BatchRows ELSE Readable
         batch == SubSeq(closed[at], Len(decoded) + 1, upto)
     IN \/ decoded' = decoded \o batch /\ UNCHANGED troubles
        \/ /\ \E n \in DOMAIN batch, r \in Rows :
                /\ r # batch[n]
                /\ decoded' = decoded \o [batch EXCEPT ![n] = r]
           /\ Trouble
  /\ UNCHANGED <<source, directory, pc, at, status, imported, staging>>

\* The chunk's transaction commits if as many rows were decoded as the manifest says. A
\* file that was removed may have been a part: it can end after any row.
EndChunk ==
  /\ pc = "import" /\ at \in Remaining
  /\ Len(decoded) >= Readable \/ incoming[at] = Absent
  /\ IF Len(decoded) = Len(manifest.chunks[at])
     THEN /\ staging' = staging \o decoded
          /\ imported' = imported \cup {at}
          /\ at' = at + 1
          /\ UNCHANGED <<pc, status>>
     ELSE /\ pc' = "idle" /\ status' = "FAILED"
          /\ UNCHANGED <<staging, imported, at>>
  /\ decoded' = <<>>
  /\ UNCHANGED <<source, directory, troubles>>

CompleteStaged ==
  /\ pc = "import" /\ Remaining = {} /\ at \notin Chunks
  /\ status' = "STAGED"
  /\ pc' = "verify"
  /\ UNCHANGED <<source, directory, at, decoded, imported, staging, troubles>>

SetVerifying ==
  /\ pc = "verify" /\ status # "VERIFYING"
  /\ status' = "VERIFYING"
  /\ UNCHANGED <<source, directory, pc, at, decoded, imported, staging, troubles>>

Summary(rows) == FoldLeft(Updated, EmptyDigest, rows)

\* As if the number of rows were enough.
Verify_RowCount ==
  /\ pc = "verify" /\ status = "VERIFYING"
  /\ status' = IF Len(staging) = manifest.rows THEN "VERIFIED" ELSE "MISMATCH"
  /\ pc' = "idle"
  /\ UNCHANGED <<source, directory, at, decoded, imported, staging, troubles>>

\* The staging table is read back; if it matches, the run is promoted.
Verify ==
  /\ pc = "verify" /\ status = "VERIFYING"
  /\ status' = IF Summary(staging) = manifest.verification THEN "VERIFIED" ELSE "MISMATCH"
  /\ pc' = "idle"
  /\ UNCHANGED <<source, directory, at, decoded, imported, staging, troubles>>

\* The processor dies; the transaction of its chunk is rolled back.
Crash ==
  /\ pc # "idle"
  /\ Trouble
  /\ pc' = "idle" /\ decoded' = <<>>
  /\ UNCHANGED <<source, directory, at, status, imported, staging>>

Next ==
  \/ \E r \in Rows : WriteRow(r)
  \/ ScanFails \/ FinishScan
  \/ \E i \in Sequences : Deliver(i) \/ RemoveOrphan(i)
  \/ DeliverManifest \/ ListManifests \/ ReadActive \/ SweepEnds
  \/ Observe \/ ObserveAgain \/ HashFile \/ Register
  \/ SkipImported \/ InsertBatch \/ EndChunk \/ CompleteStaged \/ SetVerifying \/ Verify
  \/ Crash

Spec == Init /\ [][Next]_vars

-------------------------------------------------------------------------------
(* Properties                                                                *)

\* The chunks of a manifest are the scan: every row once, in order, in as few chunks as
\* the limits allow. No chunk but the last of a scan that ended is short, none has a row
\* more than it takes to reach a limit, and a row larger than the limit is no exception
\* (write_row, finish).
ChunksHoldTheScan ==
  /\ phase = "finished" => FlattenSeq(manifest.chunks) = scanned
  /\ \A i \in DOMAIN closed :
       /\ closed[i] # <<>>
       /\ ~(LET but_last == Front(closed[i])
            IN Len(but_last) >= MaxRows \/ Total(Size, but_last) >= MaxBytes)
       /\ phase = "scanning" \/ i < Len(closed) =>
            Len(closed[i]) >= MaxRows \/ Total(Size, closed[i]) >= MaxBytes

Times(rows, r) == Cardinality({i \in DOMAIN rows : rows[i] = r})

\* What the digest is trusted with: tables within the bound that have the same digest have
\* the same rows, each as often (the comment of MultisetDigest).
DigestTellsApart ==
  \A s, t \in BoundedSeq(Rows, MaxScan) :
    Summary(s) = Summary(t) => \A r \in Rows : Times(s, r) = Times(t, r)

\* A run that verifies has exactly the rows that were scanned, each as often as it was
\* scanned, although files are half written, sent again or removed after they were
\* validated, the import is interrupted and resumed, and the database alters rows
\* (_matches, MultisetDigest).
VerifiedIsScanned == status = "VERIFIED" => \A r \in Rows : Times(staging, r) = Times(scanned, r)
===============================================================================
