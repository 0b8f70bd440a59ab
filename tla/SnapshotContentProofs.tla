----------------------- MODULE SnapshotContentProofs -----------------------
(***************************************************************************)
(* The chunks of a run are its scan, and a run that verifies has the       *)
(* digest of the scan, for tables of any rows, chunks of any limits,       *)
(* batches of any size and any number of troubles: the safety properties   *)
(* of SnapshotContent. Two things are assumed nowhere: that the transfer   *)
(* is reliable, and that the digest tells tables apart, unless a theorem   *)
(* says so. That the digest does not tell the orders of the rows apart is  *)
(* proved.                                                                 *)
(***************************************************************************)
EXTENDS SnapshotContent, FoldLemmas, SequenceTheorems, FiniteSetTheorems

-------------------------------------------------------------------------------
(* The digest                                                                *)

Digest == [count : Nat, a : 0..(Modulus - 1), b : 0..(Modulus - 1)]

\* Adding a row to a digest gives a digest.
LEMMA UpdatedType ==
  ASSUME NEW d \in Digest, NEW r \in Rows
  PROVE  Updated(d, r) \in Digest
<1>1. HashA[r] \in 0..(Modulus - 1) /\ HashB[r] \in 0..(Modulus - 1)
  BY ContentAssumption
<1>2. ASSUME NEW sum \in 0..(Modulus - 1), NEW h \in 0..(Modulus - 1)
      PROVE  AddHash(sum, h) \in 0..(Modulus - 1)
  BY ContentAssumption DEF AddHash
<1>3. d.count \in Nat /\ d.a \in 0..(Modulus - 1) /\ d.b \in 0..(Modulus - 1)
  BY DEF Digest
<1>4. AddHash(d.a, HashA[r]) \in 0..(Modulus - 1) /\ AddHash(d.b, HashB[r]) \in 0..(Modulus - 1)
  BY <1>1, <1>2, <1>3
<1> QED
  BY <1>3, <1>4 DEF Updated, Digest

\* Summary follows the rows in order.
LEMMA SummaryRuns ==
  ASSUME NEW s \in Seq(Rows), NEW P \in [0..Len(s) -> Digest],
         P[0] = EmptyDigest, \A i \in 1..Len(s) : P[i] = Updated(P[i-1], s[i])
  PROVE  Summary(s) = P[Len(s)]
<1> DEFINE n == Len(s)
           Body(f) == [u \in SUBSET DOMAIN s |-> IF u = {} THEN EmptyDigest ELSE Updated(f[u \ {Max(u)}], s[Max(u)])]
           g == CHOOSE f : f = Body(f)
<1>1. Summary(s) = g[DOMAIN s]
  BY Zenon DEF Summary, FoldLeft, MapThenFoldSet
<1>2. n \in Nat /\ DOMAIN s = 1..n /\ EmptyDigest \in Digest
  BY ContentAssumption DEF Digest, EmptyDigest
<1>3. ASSUME NEW i \in 1..n, NEW d \in Digest PROVE Updated(d, s[i]) \in Digest
  <2>1. s[i] \in Rows
    BY <1>2
  <2> QED
    BY <2>1, UpdatedType
<1>4. \E f : f = Body(f)
  <2> DEFINE step == [i \in 1..n |-> [d \in Digest |-> Updated(d, s[i])]]
  <2>1. step \in [1..n -> [Digest -> Digest]]
    BY <1>3
  <2>2. PICK f : Folds(f, Digest, n, EmptyDigest, step)
    <3>1. n \in Nat /\ EmptyDigest \in Digest
      BY <1>2
    <3> HIDE DEF step, n
    <3> QED
      BY <2>1, <3>1, FoldingFunction, Zenon
  <2>3. ASSUME NEW u \in SUBSET (1..n), u # {} PROVE f[u] = Updated(f[u \ {Max(u)}], s[Max(u)])
    <3>1. Max(u) \in 1..n
      <4> HIDE DEF n
      <4>1. Max(u) \in u
        BY <1>2, <2>3, GreatestOfSegment, Zenon
      <4> QED
        BY <4>1
    <3>2. f[u] = step[Max(u)][f[u \ {Max(u)}]]
      BY <2>2, <2>3 DEF Folds
    <3>3. f[u \ {Max(u)}] \in Digest
      BY <2>2 DEF Folds
    <3> QED
      BY <3>1, <3>2, <3>3
  <2>4. f = Body(f)
    <3>1. \A u \in SUBSET (1..n) : f[u] = IF u = {} THEN EmptyDigest ELSE Updated(f[u \ {Max(u)}], s[Max(u)])
      BY <2>2, <2>3 DEF Folds
    <3>2. f \in [SUBSET (1..n) -> Digest]
      BY <2>2 DEF Folds
    <3> QED
      BY <1>2, <3>1, <3>2
  <2> QED
    BY <2>4
<1>5. g = Body(g)
  <2> HIDE DEF Body
  <2> QED
    BY <1>4
<1> DEFINE T == {k \in Nat : k <= n => g[1..k] = P[k]}
<1>6. ASSUME NEW u \in SUBSET (1..n)
      PROVE  g[u] = IF u = {} THEN EmptyDigest ELSE Updated(g[u \ {Max(u)}], s[Max(u)])
  <2> HIDE DEF g
  <2> QED
    BY <1>2, <1>5
<1> HIDE DEF g
<1>7. 0 \in T
  <2>1. (1..0) = {}
    OBVIOUS
  <2> QED
    BY <1>6, <2>1
<1>8. ASSUME NEW k \in Nat, k \in T PROVE k + 1 \in T
  <2>1. ASSUME k + 1 <= n PROVE g[1..(k+1)] = P[k+1]
    <3>1. (1..(k+1)) \in SUBSET (1..n) /\ (1..(k+1)) # {} /\ k + 1 \in 1..n
      <4>1. k + 1 \in 1..n /\ k + 1 \in 1..(k+1)
        BY <1>2, <2>1
      <4>2. \A i \in 1..(k+1) : i \in 1..n
        BY <1>2, <2>1
      <4> QED
        BY <4>1, <4>2
    <3>2. Max(1..(k+1)) = k + 1 /\ (1..(k+1)) \ {k+1} = 1..k
      <4>1. k + 1 \in Nat \ {0} /\ (k + 1) - 1 = k
        OBVIOUS
      <4> QED
        BY <4>1, SegmentWithoutLast
    <3>3. g[1..(k+1)] = Updated(g[1..k], s[k+1])
      BY <1>6, <3>1, <3>2
    <3>4. g[1..k] = P[k]
      BY <1>2, <1>8, <2>1
    <3> QED
      BY <3>1, <3>3, <3>4
  <2> QED
    BY <2>1
<1> HIDE DEF T
<1>9. \A k \in Nat : k \in T
  BY <1>7, <1>8, NaturalInduction, Zenon
<1>10. g[1..n] = P[n]
  <2>1. n \in T /\ n <= n
    BY <1>2, <1>9
  <2> QED
    BY <2>1 DEF T
<1> QED
  BY <1>1, <1>2, <1>10

\* The digests of the beginnings of some rows.
LEMMA DigestsOfPrefixes ==
  ASSUME NEW s \in Seq(Rows)
  PROVE  \E P \in [0..Len(s) -> Digest] :
           P[0] = EmptyDigest /\ \A i \in 1..Len(s) : P[i] = Updated(P[i-1], s[i])
<1> DEFINE n == Len(s)
           step == [i \in 1..n |-> [d \in Digest |-> Updated(d, s[i])]]
<1>1. n \in Nat /\ EmptyDigest \in Digest
  BY ContentAssumption DEF Digest, EmptyDigest
<1>2. step \in [1..n -> [Digest -> Digest]]
  BY UpdatedType
<1>3. PICK P : Follows(P, Digest, n, EmptyDigest, step)
  <2> HIDE DEF n, step
  <2> QED
    BY <1>1, <1>2, PrefixFunction, Zenon
<1>4. P \in [0..n -> Digest] /\ P[0] = EmptyDigest
  BY <1>3 DEF Follows
<1>5. ASSUME NEW i \in 1..n PROVE P[i] = Updated(P[i-1], s[i])
  <2>1. P[i] = step[i][P[i-1]]
    BY <1>3 DEF Follows
  <2>2. i - 1 \in 0..n
    BY <1>1
  <2>3. P[i-1] \in Digest
    BY <1>4, <2>2
  <2> QED
    BY <2>1, <2>3
<1> QED
  BY <1>4, <1>5

\* The digest of no rows is the one MultisetDigest begins with.
LEMMA SummaryOfNone == Summary(<<>>) = EmptyDigest
<1>1. PICK s \in Seq(Rows) : s = <<>> /\ Len(s) = 0
  <2>1. <<>> \in Seq(Rows) /\ Len(<<>>) = 0
    OBVIOUS
  <2> QED
    BY <2>1, Zenon
<1>2. PICK P \in [0..Len(s) -> Digest] : P[0] = EmptyDigest /\ \A i \in 1..Len(s) : P[i] = Updated(P[i-1], s[i])
  BY DigestsOfPrefixes
<1>3. Summary(s) = P[Len(s)]
  BY <1>2, SummaryRuns
<1> QED
  BY <1>1, <1>2, <1>3

\* The digest of rows and one more is the digest of the rows, updated (add_row).
LEMMA SummaryOfAppend ==
  ASSUME NEW s \in Seq(Rows), NEW r \in Rows
  PROVE  Summary(Append(s, r)) = Updated(Summary(s), r)
<1> DEFINE n == Len(s)
           t == Append(s, r)
<1>1. n \in Nat /\ t \in Seq(Rows) /\ Len(t) = n + 1 /\ t[n+1] = r /\ \A i \in 1..n : t[i] = s[i]
  OBVIOUS
<1> HIDE DEF t
<1>2. PICK P \in [0..n+1 -> Digest] : P[0] = EmptyDigest /\ \A i \in 1..n+1 : P[i] = Updated(P[i-1], t[i])
  BY <1>1, DigestsOfPrefixes, SMTT(30)
<1> DEFINE Q == [i \in 0..n |-> P[i]]
<1>3. Q \in [0..n -> Digest] /\ Q[0] = EmptyDigest
  BY <1>1, <1>2
<1>4. ASSUME NEW i \in 1..n PROVE Q[i] = Updated(Q[i-1], s[i])
  <2>1. i \in 1..n+1 /\ i \in 0..n /\ i - 1 \in 0..n
    BY <1>1
  <2>2. P[i] = Updated(P[i-1], t[i])
    BY <1>2, <2>1
  <2> QED
    BY <1>1, <2>1, <2>2
<1>5. Summary(s) = P[n]
  <2>1. Q[n] = P[n]
    BY <1>1
  <2> HIDE DEF Q
  <2>2. Summary(s) = Q[n]
    BY <1>3, <1>4, SummaryRuns
  <2> QED
    BY <2>1, <2>2
<1>6. Summary(t) = P[n+1]
  <2> HIDE DEF n
  <2> QED
    BY <1>1, <1>2, SummaryRuns
<1>7. P[n+1] = Updated(P[n], r)
  <2>1. n + 1 \in 1..n+1 /\ (n + 1) - 1 = n
    BY <1>1
  <2> QED
    BY <1>1, <1>2, <2>1
<1> QED
  BY <1>5, <1>6, <1>7 DEF t

\* A digest knows the number of the rows.
LEMMA SummaryType ==
  ASSUME NEW s \in Seq(Rows)
  PROVE  Summary(s) \in Digest /\ Summary(s).count = Len(s)
<1> DEFINE n == Len(s)
<1>1. n \in Nat
  OBVIOUS
<1>2. PICK P \in [0..n -> Digest] : P[0] = EmptyDigest /\ \A i \in 1..n : P[i] = Updated(P[i-1], s[i])
  BY DigestsOfPrefixes
<1> DEFINE T == {k \in Nat : k <= n => P[k].count = k}
<1> HIDE DEF n
<1>3. 0 \in T
  BY <1>2 DEF EmptyDigest
<1>4. ASSUME NEW k \in Nat, k \in T PROVE k + 1 \in T
  <2>1. ASSUME k + 1 <= n PROVE P[k+1].count = k + 1
    <3>1. k + 1 \in 1..n /\ (k + 1) - 1 = k
      BY <1>1, <2>1
    <3>2. P[k+1] = Updated(P[k], s[k+1])
      BY <1>2, <3>1
    <3>3. P[k].count = k
      BY <1>1, <1>4, <2>1
    <3> QED
      BY <3>2, <3>3 DEF Updated
  <2> QED
    BY <2>1
<1> HIDE DEF T
<1>5. \A k \in Nat : k \in T
  BY <1>3, <1>4, NaturalInduction, Zenon
<1>6. P[n].count = n
  <2>1. n \in T /\ n <= n
    BY <1>1, <1>5
  <2> QED
    BY <2>1 DEF T
<1>7. Summary(s) = P[n]
  BY <1>2, SummaryRuns DEF n
<1> QED
  BY <1>1, <1>2, <1>6, <1>7 DEF n

-------------------------------------------------------------------------------
(* The digest and the order of the rows                                      *)

\* How often a row is among no rows.
LEMMA TimesOfNone ==
  ASSUME NEW r
  PROVE  Times(<<>>, r) = 0
<1>1. {i \in DOMAIN <<>> : <<>>[i] = r} = {}
  OBVIOUS
<1> QED
  BY <1>1, FS_EmptySet, Zenon DEF Times

\* And among some rows and one more.
LEMMA TimesOfAppend ==
  ASSUME NEW s \in Seq(Rows), NEW q \in Rows, NEW r
  PROVE  /\ Times(s, r) \in Nat
         /\ Times(Append(s, q), r) = IF q = r THEN Times(s, r) + 1 ELSE Times(s, r)
<1> DEFINE n == Len(s)
           T == {i \in DOMAIN s : s[i] = r}
           t == Append(s, q)
           U == {i \in DOMAIN t : t[i] = r}
<1>1. /\ n \in Nat /\ DOMAIN s = 1..n /\ DOMAIN t = 1..(n+1)
      /\ t[n+1] = q /\ \A i \in 1..n : t[i] = s[i]
  OBVIOUS
<1>2. IsFiniteSet(T) /\ Cardinality(T) \in Nat
  <2>1. IsFiniteSet(1..n)
    BY <1>1, FS_Interval
  <2>2. T \subseteq 1..n
    BY <1>1
  <2>3. IsFiniteSet(T)
    BY <2>1, <2>2, FS_Subset, Zenon
  <2> QED
    BY <2>3, FS_CardinalityType, Zenon
<1>3. n + 1 \notin T
  BY <1>1
<1>4. U = IF q = r THEN T \cup {n+1} ELSE T
  <2> HIDE DEF t
  <2>1. ASSUME NEW i \in 1..(n+1) PROVE i \in 1..n \/ i = n + 1
    BY <1>1
  <2> QED
    BY <1>1, <2>1
<1>5. Times(s, r) = Cardinality(T) /\ Times(t, r) = Cardinality(U)
  BY DEF Times
<1> HIDE DEF T, U
<1>6. Cardinality(T \cup {n+1}) = Cardinality(T) + 1
  BY <1>2, <1>3, FS_AddElement
<1> QED
  BY <1>2, <1>4, <1>5, <1>6

\* Two rows may be added to a digest in either order: addition is modulo 2^256 (update).
LEMMA UpdatedCommutes ==
  ASSUME NEW d \in Digest, NEW q \in Rows, NEW r \in Rows
  PROVE  Updated(Updated(d, q), r) = Updated(Updated(d, r), q)
<1>1. ASSUME NEW x \in 0..(Modulus - 1), NEW h \in 0..(Modulus - 1), NEW k \in 0..(Modulus - 1)
      PROVE  AddHash(AddHash(x, h), k) = AddHash(AddHash(x, k), h)
  <2>1. ASSUME NEW m \in Nat \ {0}, x \in 0..(m - 1), h \in 0..(m - 1), k \in 0..(m - 1)
        PROVE  (((x + h) % m) + k) % m = (((x + k) % m) + h) % m
    BY <2>1
  <2>2. Modulus \in Nat \ {0}
    BY ContentAssumption
  <2> QED
    BY <2>1, <2>2 DEF AddHash
<1>2. /\ HashA[q] \in 0..(Modulus - 1) /\ HashA[r] \in 0..(Modulus - 1)
      /\ HashB[q] \in 0..(Modulus - 1) /\ HashB[r] \in 0..(Modulus - 1)
  BY ContentAssumption
<1>3. d.count \in Nat /\ d.a \in 0..(Modulus - 1) /\ d.b \in 0..(Modulus - 1)
  BY DEF Digest
<1>4. AddHash(AddHash(d.a, HashA[q]), HashA[r]) = AddHash(AddHash(d.a, HashA[r]), HashA[q])
  BY <1>1, <1>2, <1>3
<1>5. AddHash(AddHash(d.b, HashB[q]), HashB[r]) = AddHash(AddHash(d.b, HashB[r]), HashB[q])
  BY <1>1, <1>2, <1>3
<1> QED
  BY <1>4, <1>5 DEF Updated

\* Rows that are not none are some rows and one more.
LEMMA LastRow ==
  ASSUME NEW n \in Nat, NEW s \in Seq(Rows), Len(s) = n + 1
  PROVE  \E w \in Seq(Rows), q \in Rows : Len(w) = n /\ s = Append(w, q)
<1> DEFINE w == [i \in 1..n |-> s[i]]
<1>1. s[n+1] \in Rows /\ \A i \in 1..n : s[i] \in Rows
  OBVIOUS
<1>2. w \in Seq(Rows) /\ Len(w) = n
  BY <1>1
<1>3. s = Append(w, s[n+1])
  <2>1. DOMAIN s = 1..(n+1) /\ DOMAIN Append(w, s[n+1]) = 1..(n+1)
    BY <1>2
  <2>2. ASSUME NEW i \in 1..(n+1) PROVE s[i] = Append(w, s[n+1])[i]
    BY <1>2
  <2>3. Append(w, s[n+1]) \in Seq(Rows)
    BY <1>1, <1>2
  <2> QED
    BY <2>1, <2>2, <2>3
<1> QED
  BY <1>1, <1>2, <1>3

\* t is w and one more row r, up to the order.
Extends(t, w, r) ==
  /\ Len(t) = Len(w) + 1
  /\ Summary(t) = Updated(Summary(w), r)
  /\ \A q \in Rows : Times(t, q) = IF q = r THEN Times(w, q) + 1 ELSE Times(w, q)

\* A row that is there may be taken for the last one.
LEMMA Extract ==
  ASSUME NEW r \in Rows
  PROVE  \A t \in Seq(Rows) : Times(t, r) > 0 => \E w \in Seq(Rows) : Extends(t, w, r)
<1> DEFINE P(t) == Times(t, r) > 0 => \E w \in Seq(Rows) : Extends(t, w, r)
           T == {n \in Nat : \A t \in Seq(Rows) : Len(t) = n => P(t)}
<1>1. 0 \in T
  <2>1. ASSUME NEW t \in Seq(Rows), Len(t) = 0 PROVE ~(Times(t, r) > 0)
    <3>1. t = <<>>
      BY <2>1
    <3> QED
      BY <3>1, TimesOfNone
  <2> QED
    BY <2>1
<1>2. ASSUME NEW n \in Nat, n \in T PROVE n + 1 \in T
  <2>1. ASSUME NEW t \in Seq(Rows), Len(t) = n + 1, Times(t, r) > 0
        PROVE  \E w \in Seq(Rows) : Extends(t, w, r)
    <3>1. PICK v \in Seq(Rows), q \in Rows : Len(v) = n /\ t = Append(v, q)
      BY <2>1, LastRow
    <3>2. Summary(t) = Updated(Summary(v), q) /\ Summary(v) \in Digest
      BY <3>1, SummaryOfAppend, SummaryType
    <3>3. CASE q = r
      <4>1. Extends(t, v, r)
        BY <2>1, <3>1, <3>2, <3>3, TimesOfAppend DEF Extends
      <4> QED
        BY <4>1
    <3>4. CASE q # r
      <4>1. Times(v, r) > 0
        BY <2>1, <3>1, <3>4, TimesOfAppend
      <4>2. PICK u \in Seq(Rows) : Extends(v, u, r)
        BY <1>2, <3>1, <4>1
      <4> DEFINE w == Append(u, q)
      <4>3. w \in Seq(Rows) /\ Len(w) = Len(u) + 1 /\ Len(u) \in Nat
        OBVIOUS
      <4>4. Summary(t) = Updated(Summary(w), r)
        <5>1. Summary(u) \in Digest /\ Summary(w) = Updated(Summary(u), q)
          BY SummaryType, SummaryOfAppend
        <5>2. Summary(v) = Updated(Summary(u), r)
          BY <4>2 DEF Extends
        <5> QED
          BY <3>2, <5>1, <5>2, UpdatedCommutes
      <4>5. ASSUME NEW p \in Rows
            PROVE  Times(t, p) = IF p = r THEN Times(w, p) + 1 ELSE Times(w, p)
        <5>1. /\ Times(t, p) = IF q = p THEN Times(v, p) + 1 ELSE Times(v, p)
              /\ Times(w, p) = IF q = p THEN Times(u, p) + 1 ELSE Times(u, p)
              /\ Times(u, p) \in Nat
          BY <3>1, TimesOfAppend
        <5>2. Times(v, p) = IF p = r THEN Times(u, p) + 1 ELSE Times(u, p)
          BY <4>2 DEF Extends
        <5> QED
          BY <3>4, <5>1, <5>2
      <4>6. Len(t) = Len(w) + 1
        BY <2>1, <3>1, <4>2, <4>3 DEF Extends
      <4>7. Extends(t, w, r)
        BY <4>4, <4>5, <4>6 DEF Extends
      <4> QED
        BY <4>3, <4>7
    <3> QED
      BY <3>3, <3>4
  <2> QED
    BY <2>1
<1> HIDE DEF T
<1>3. \A n \in Nat : n \in T
  BY <1>1, <1>2, NaturalInduction, Zenon
<1>4. ASSUME NEW t \in Seq(Rows) PROVE P(t)
  <2>1. Len(t) \in Nat
    OBVIOUS
  <2> QED
    BY <1>3, <2>1 DEF T
<1> QED
  BY <1>4

\* The digest does not depend on the order of the rows: tables that have the same rows, each
\* as often, have the same digest, whatever the rows and hashes. The destination may read its
\* table back in any order (MultisetDigest, DestinationVerifier.verify).
THEOREM DigestIgnoresOrder ==
  \A s, t \in Seq(Rows) : (\A r \in Rows : Times(s, r) = Times(t, r)) => Summary(s) = Summary(t)
<1> DEFINE Same(s, t) == \A r \in Rows : Times(s, r) = Times(t, r)
           T == {n \in Nat : \A s, t \in Seq(Rows) : Len(s) = n /\ Same(s, t) => Summary(s) = Summary(t)}
<1>1. 0 \in T
  <2>1. ASSUME NEW s \in Seq(Rows), NEW t \in Seq(Rows), Len(s) = 0, Same(s, t)
        PROVE  Summary(s) = Summary(t)
    <3>1. s = <<>>
      BY <2>1
    <3>2. t = <<>>
      <4>1. CASE Len(t) # 0
        <5>1. Len(t) \in Nat /\ Len(t) - 1 \in Nat /\ Len(t) = (Len(t) - 1) + 1
          BY <4>1
        <5> PICK n \in Nat : Len(t) = n + 1
          BY <5>1
        <5>2. PICK v \in Seq(Rows), q \in Rows : t = Append(v, q)
          BY LastRow, SMTT(30)
        <5>3. Times(t, q) = Times(v, q) + 1 /\ Times(v, q) \in Nat
          BY <5>2, TimesOfAppend
        <5>4. Times(t, q) = 0
          BY <2>1, <3>1, TimesOfNone
        <5> QED
          BY <5>3, <5>4
      <4> QED
        BY <4>1
    <3> QED
      BY <3>1, <3>2
  <2> QED
    BY <2>1
<1>2. ASSUME NEW n \in Nat, n \in T PROVE n + 1 \in T
  <2>1. ASSUME NEW s \in Seq(Rows), NEW t \in Seq(Rows), Len(s) = n + 1, Same(s, t)
        PROVE  Summary(s) = Summary(t)
    <3>1. PICK v \in Seq(Rows), q \in Rows : Len(v) = n /\ s = Append(v, q)
      BY <2>1, LastRow
    <3>2. \A r \in Rows : /\ Times(v, r) \in Nat
                          /\ Times(s, r) = IF r = q THEN Times(v, r) + 1 ELSE Times(v, r)
      BY <3>1, TimesOfAppend
    <3>3. Times(t, q) > 0
      BY <2>1, <3>2
    <3>4. PICK w \in Seq(Rows) : Extends(t, w, q)
      BY <3>3, Extract
    <3>5. Same(v, w)
      <4>1. ASSUME NEW r \in Rows PROVE Times(v, r) = Times(w, r)
        <5>1. Times(w, r) \in Nat /\ Times(v, r) \in Nat
          BY <3>2, TimesOfAppend
        <5>2. Times(s, r) = Times(t, r)
          BY <2>1
        <5>3. Times(t, r) = IF r = q THEN Times(w, r) + 1 ELSE Times(w, r)
          BY <3>4 DEF Extends
        <5> QED
          BY <3>2, <5>1, <5>2, <5>3
      <4> QED
        BY <4>1
    <3>6. Summary(v) = Summary(w)
      BY <1>2, <3>1, <3>5
    <3> QED
      BY <3>1, <3>4, <3>6, SummaryOfAppend DEF Extends
  <2> QED
    BY <2>1
<1> HIDE DEF T
<1>3. \A n \in Nat : n \in T
  BY <1>1, <1>2, NaturalInduction, Zenon
<1>4. ASSUME NEW s \in Seq(Rows), NEW t \in Seq(Rows), Same(s, t) PROVE Summary(s) = Summary(t)
  <2>1. Len(s) \in Nat
    OBVIOUS
  <2> QED
    BY <1>3, <1>4, <2>1 DEF T
<1> QED
  BY <1>4

-------------------------------------------------------------------------------
(* Chunks and their limits                                                   *)

\* No rows have no bytes.
LEMMA TotalOfNone ==
  ASSUME NEW f
  PROVE  Total(f, <<>>) = 0
<1> DEFINE s == <<>>
           Body(g) == [u \in SUBSET DOMAIN s |-> IF u = {} THEN 0 ELSE g[u \ {Max(u)}] + f[s[Max(u)]]]
           h == CHOOSE g : g = Body(g)
<1>1. Total(f, s) = h[DOMAIN s]
  BY Zenon DEF Total, FoldLeft, MapThenFoldSet
<1>2. DOMAIN s = {}
  OBVIOUS
<1>3. \E g : g = Body(g)
  <2> DEFINE g == [u \in SUBSET DOMAIN s |-> 0]
  <2>1. g = Body(g)
    BY <1>2
  <2> QED
    BY <2>1
<1>4. h = Body(h)
  <2> HIDE DEF Body
  <2> QED
    BY <1>3
<1>5. h[DOMAIN s] = 0
  <2> HIDE DEF h
  <2> QED
    BY <1>2, <1>4
<1> QED
  BY <1>1, <1>5

-------------------------------------------------------------------------------
(* The scan                                                                  *)

\* A chunk that was closed in time: not before it had a row, and not a row too late.
Cut(chunk) == chunk # <<>> /\ ~Full(Front(chunk))

\* Closed and open chunk hold what was scanned, once and in order, and the digest is of it;
\* of the closed chunks all but the last of a scan that ended were full, and the manifest says what there is.
ScanInv ==
  /\ scanned \in Seq(Rows) /\ Len(scanned) <= MaxScan
  /\ current \in Seq(Rows) /\ closed \in Seq(Seq(Rows))
  /\ Len(closed) + Len(current) <= MaxScan
  /\ digest = Summary(scanned)
  /\ ~Full(current) /\ (current # <<>> => Cut(current))
  /\ \A i \in DOMAIN closed : Cut(closed[i]) /\ (phase = "scanning" \/ i < Len(closed) => Full(closed[i]))
  /\ phase = "scanning" => /\ FlattenSeq(closed) \o current = scanned
                           /\ Len(closed) + Len(current) <= Len(scanned)
  /\ phase = "finished" => /\ FlattenSeq(closed) = scanned
                           /\ manifest = [rows |-> Len(scanned), chunks |-> closed, verification |-> Summary(scanned)]
  /\ phase # "finished" => manifest = NoManifest

\* An empty chunk is not full.
LEMMA FullOfNone == ~Full(<<>>)
BY TotalOfNone, ContentAssumption DEF Full

\* Without its last row, a chunk is as it was before that row was written.
LEMMA FrontOfAppend ==
  ASSUME NEW A, NEW s \in Seq(A), NEW x \in A
  PROVE  Front(Append(s, x)) = s
<1> DEFINE t == Append(s, x)
<1>1. t \in Seq(A) /\ Len(t) = Len(s) + 1 /\ \A i \in 1..Len(s) : t[i] = s[i]
  OBVIOUS
<1>2. Front(t) = SubSeq(t, 1, Len(s))
  BY <1>1 DEF Front
<1> HIDE DEF t
<1>3. SubSeq(t, 1, Len(s)) = s
  BY <1>1
<1> QED
  BY <1>2, <1>3 DEF t

\* The scan begins with nothing.
LEMMA ScanInvInit ==
  ASSUME Init
  PROVE  ScanInv
<1>1. <<>> \in Seq(Rows) /\ <<>> \in Seq(Seq(Rows)) /\ Len(<<>>) = 0 /\ DOMAIN <<>> = {}
  OBVIOUS
<1>2. FlattenSeq(<<>>) \o <<>> = <<>>
  BY FlattenOfNone
<1>3. MaxScan \in Nat
  BY ContentAssumption
<1> QED
  BY <1>1, <1>2, <1>3, SummaryOfNone, FullOfNone DEF Init, ScanInv

\* Writing a row keeps ScanInv, whether or not it closes the chunk.
LEMMA ScanInvWrite ==
  ASSUME ScanInv, NEW r \in Rows, WriteRow(r)
  PROVE  ScanInv'
<1> DEFINE rows == Append(current, r)
<1>1. phase = "scanning" /\ phase' = phase /\ manifest' = manifest /\ Len(scanned) < MaxScan
      /\ scanned' = Append(scanned, r) /\ digest' = Updated(digest, r)
  BY DEF WriteRow
<1>2. scanned \in Seq(Rows) /\ current \in Seq(Rows) /\ closed \in Seq(Seq(Rows)) /\ MaxScan \in Nat
  BY ContentAssumption DEF ScanInv
<1>3. /\ FlattenSeq(closed) \o current = scanned
      /\ Len(closed) + Len(current) <= Len(scanned)
  BY <1>1 DEF ScanInv
<1>4. /\ rows \in Seq(Rows) /\ rows # <<>> /\ Len(rows) = Len(current) + 1
      /\ scanned' \in Seq(Rows) /\ Len(scanned') = Len(scanned) + 1
      /\ Len(current) \in Nat /\ Len(closed) \in Nat /\ Len(scanned) \in Nat
  <2>1. rows \in Seq(Rows) /\ rows # <<>> /\ Len(rows) = Len(current) + 1 /\ Len(current) \in Nat
    BY <1>2, AppendFacts
  <2>2. scanned' \in Seq(Rows) /\ Len(scanned') = Len(scanned) + 1 /\ Len(scanned) \in Nat
    BY <1>1, <1>2, AppendFacts
  <2>3. Len(closed) \in Nat
    BY <1>2, LenProperties
  <2> QED
    BY <2>1, <2>2, <2>3
<1>5. Cut(rows)
  <2>1. Front(rows) = current
    BY <1>2, FrontOfAppend
  <2> QED
    BY <1>4, <2>1 DEF Cut, ScanInv
<1>6. digest' = Summary(scanned')
  BY <1>1, <1>2, SummaryOfAppend DEF ScanInv
<1>7. FlattenSeq(closed) \in Seq(Rows) /\ FlattenSeq(closed) \o rows = scanned'
  <2>1. FlattenSeq(closed) \in Seq(Rows)
    BY <1>2, FlattenType
  <2>2. FlattenSeq(closed) \o rows = Append(FlattenSeq(closed) \o current, r)
    <3>1. current \in Seq(Rows)
      BY <1>2, Zenon
    <3> QED
      <4> DEFINE all == FlattenSeq(closed)
      <4>1. all \in Seq(Rows)
        BY <2>1
      <4> HIDE DEF all
      <4>2. all \o Append(current, r) = Append(all \o current, r)
        BY <3>1, <4>1, JoinAppend
      <4> QED
        BY <4>2 DEF all
  <2> QED
    BY <1>1, <1>3, <2>1, <2>2
<1>8. \A i \in DOMAIN closed : Cut(closed[i]) /\ Full(closed[i])
  BY <1>1 DEF ScanInv
<1>9. manifest' = NoManifest
  BY <1>1 DEF ScanInv
<1>10. CASE Full(rows)
  <2>1. closed' = Append(closed, rows) /\ current' = <<>>
    BY <1>10 DEF WriteRow
  <2> HIDE DEF rows
  <2>2. closed' \in Seq(Seq(Rows)) /\ Len(closed') = Len(closed) + 1
        /\ \A i \in DOMAIN closed' : IF i = Len(closed) + 1 THEN closed'[i] = rows ELSE i \in DOMAIN closed /\ closed'[i] = closed[i]
    <3>1. rows \in Seq(Rows) /\ closed \in Seq(Seq(Rows))
      BY <1>2, <1>4, Zenon
    <3>2. /\ Append(closed, rows) \in Seq(Seq(Rows)) /\ Len(Append(closed, rows)) = Len(closed) + 1
          /\ \A i \in DOMAIN Append(closed, rows) :
               IF i = Len(closed) + 1 THEN Append(closed, rows)[i] = rows
               ELSE i \in DOMAIN closed /\ Append(closed, rows)[i] = closed[i]
      BY <3>1, AppendFacts
    <3> QED
      BY <2>1, <3>2
  <2>3. FlattenSeq(closed') = FlattenSeq(closed) \o rows
    BY <1>2, <1>4, <2>1, FlattenOfAppend
  <2>4. \A i \in DOMAIN closed' : Cut(closed'[i]) /\ Full(closed'[i])
    BY <1>5, <1>8, <1>10, <2>2
  <2>5. FlattenSeq(closed') \o current' = scanned'
    BY <1>4, <1>7, <2>1, <2>3, ConcatEmptySeq
  <2>6. current' \in Seq(Rows) /\ Len(current') = 0 /\ ~Full(current')
    BY <2>1, FullOfNone
  <2>7. Len(closed') + Len(current') <= Len(scanned') /\ Len(closed') + Len(current') <= MaxScan /\ Len(scanned') <= MaxScan
    <3>1. Len(closed') + Len(current') = Len(closed) + 1
      BY <1>4, <2>2, <2>6
    <3>2. /\ Len(current) \in Nat /\ Len(closed) \in Nat /\ Len(scanned) \in Nat /\ MaxScan \in Nat
          /\ Len(closed) + Len(current) <= Len(scanned) /\ Len(scanned) < MaxScan
      BY <1>1, <1>2, <1>3, <1>4, Zenon
    <3>3. Len(scanned') = Len(scanned) + 1
      BY <1>4, Zenon
    <3> QED
      BY <3>1, <3>2, <3>3
  <2> QED
    BY <1>1, <1>4, <1>6, <1>9, <2>1, <2>2, <2>4, <2>5, <2>6, <2>7 DEF ScanInv, Cut, Full
<1>11. CASE ~Full(rows)
  <2>1. current' = rows /\ closed' = closed
    BY <1>11 DEF WriteRow
  <2> HIDE DEF rows
  <2>2. Len(closed') + Len(current') <= Len(scanned') /\ Len(closed') + Len(current') <= MaxScan /\ Len(scanned') <= MaxScan
    BY <1>1, <1>2, <1>3, <1>4, <2>1
  <2> QED
    BY <1>1, <1>2, <1>4, <1>5, <1>6, <1>7, <1>8, <1>9, <1>11, <2>1, <2>2 DEF ScanInv, Cut, Full
<1> QED
  BY <1>10, <1>11

\* A scan that fails, also in the callback of a chunk that a row or finish() closed, keeps
\* ScanInv.
LEMMA ScanInvFails ==
  ASSUME ScanInv, ScanFails
  PROVE  ScanInv'
<1>1. /\ phase = "scanning" /\ phase' = "aborted" /\ current' = <<>>
      /\ scanned' = scanned /\ digest' = digest /\ manifest' = manifest /\ manifest = NoManifest
  BY DEF ScanFails, ScanInv
<1>2. /\ scanned \in Seq(Rows) /\ current \in Seq(Rows) /\ closed \in Seq(Seq(Rows)) /\ MaxScan \in Nat
      /\ Len(scanned) <= MaxScan /\ digest = Summary(scanned)
      /\ Len(closed) + Len(current) <= MaxScan /\ Len(closed) + Len(current) <= Len(scanned)
  BY <1>1, ContentAssumption DEF ScanInv
<1>3. \A i \in DOMAIN closed : Cut(closed[i]) /\ Full(closed[i])
  BY <1>1 DEF ScanInv
<1>4. current' \in Seq(Rows) /\ Len(current') = 0 /\ ~Full(current')
  BY <1>1, FullOfNone
<1>5. Len(current) \in Nat /\ Len(closed) \in Nat /\ Len(scanned) \in Nat
  BY <1>2, LenProperties
<1>6. CASE closed' = closed
  <2>1. Len(closed') + Len(current') <= MaxScan
    BY <1>2, <1>4, <1>5, <1>6
  <2> QED
    BY <1>1, <1>2, <1>3, <1>4, <1>6, <2>1 DEF ScanInv, Cut, Full
<1>7. ASSUME NEW chunk \in Seq(Rows), Cut(chunk), Len(closed) + 1 <= MaxScan,
             closed' = Append(closed, chunk)
      PROVE  ScanInv'
  <2>1. /\ Append(closed, chunk) \in Seq(Seq(Rows)) /\ Len(Append(closed, chunk)) = Len(closed) + 1
        /\ \A i \in DOMAIN Append(closed, chunk) :
             IF i = Len(closed) + 1 THEN Append(closed, chunk)[i] = chunk
             ELSE i \in DOMAIN closed /\ Append(closed, chunk)[i] = closed[i]
    BY <1>2, AppendFacts
  <2>2. /\ closed' \in Seq(Seq(Rows)) /\ Len(closed') = Len(closed) + 1
        /\ \A i \in DOMAIN closed' : Cut(closed'[i]) /\ (i < Len(closed') => Full(closed'[i]))
    <3>1. ASSUME NEW i \in DOMAIN closed'
          PROVE  Cut(closed'[i]) /\ (i < Len(closed) + 1 => Full(closed'[i]))
      <4>1. CASE i = Len(closed) + 1
        BY <1>5, <1>7, <2>1, <4>1
      <4>2. CASE i # Len(closed) + 1
        BY <1>3, <1>7, <2>1, <4>2
      <4> QED
        BY <4>1, <4>2
    <3> QED
      BY <1>7, <2>1, <3>1
  <2>3. Len(closed') + Len(current') <= MaxScan
    BY <1>2, <1>4, <1>5, <1>7, <2>2
  <2> QED
    BY <1>1, <1>2, <1>4, <2>2, <2>3 DEF ScanInv, Cut, Full
<1>8. ASSUME current # <<>>, closed' = Append(closed, current)
      PROVE  ScanInv'
  <2>1. Cut(current)
    BY <1>8 DEF ScanInv
  <2>2. Len(current) # 0
    BY <1>2, <1>8
  <2>3. Len(closed) + 1 <= MaxScan
    BY <1>2, <1>5, <2>2
  <2> QED
    BY <1>2, <1>7, <1>8, <2>1, <2>3
<1>9. ASSUME Len(scanned) < MaxScan, NEW r \in Rows, closed' = Append(closed, Append(current, r))
      PROVE  ScanInv'
  <2> DEFINE rows == Append(current, r)
  <2>1. rows \in Seq(Rows) /\ rows # <<>>
    BY <1>2, AppendFacts
  <2>2. Cut(rows)
    <3>1. Front(rows) = current
      BY <1>2, FrontOfAppend
    <3> QED
      BY <2>1, <3>1 DEF Cut, ScanInv
  <2>3. Len(closed) + 1 <= MaxScan
    BY <1>2, <1>5, <1>9
  <2>4. closed' = Append(closed, rows)
    BY <1>9
  <2> HIDE DEF rows
  <2> QED
    BY <1>7, <2>1, <2>2, <2>3, <2>4
<1> QED
  BY <1>6, <1>8, <1>9 DEF ScanFails

\* The end of the scan keeps ScanInv: what is left becomes the last chunk, if it is
\* anything.
LEMMA ScanInvFinish ==
  ASSUME ScanInv, FinishScan
  PROVE  ScanInv'
<1> DEFINE chunks == IF current = <<>> THEN closed ELSE Append(closed, current)
<1>1. /\ phase = "scanning" /\ current' = <<>> /\ closed' = chunks
      /\ scanned' = scanned /\ digest' = digest
  BY DEF FinishScan
<1>2. /\ scanned \in Seq(Rows) /\ current \in Seq(Rows) /\ closed \in Seq(Seq(Rows)) /\ MaxScan \in Nat
      /\ Len(scanned) <= MaxScan /\ digest = Summary(scanned)
      /\ Len(closed) + Len(current) <= MaxScan
      /\ FlattenSeq(closed) \o current = scanned
  BY <1>1, ContentAssumption DEF ScanInv
<1>3. \A i \in DOMAIN closed : Cut(closed[i]) /\ Full(closed[i])
  BY <1>1 DEF ScanInv
<1>4. current' \in Seq(Rows) /\ Len(current') = 0 /\ ~Full(current')
  BY <1>1, FullOfNone
<1>5. Len(current) \in Nat /\ Len(closed) \in Nat /\ Len(scanned) \in Nat
  BY <1>2, LenProperties
<1>6. /\ chunks \in Seq(Seq(Rows)) /\ FlattenSeq(chunks) = scanned /\ Len(chunks) <= MaxScan
      /\ \A i \in DOMAIN chunks : Cut(chunks[i]) /\ (i < Len(chunks) => Full(chunks[i]))
  <2>1. CASE current = <<>>
    <3>1. FlattenSeq(closed) \in Seq(Rows)
      BY <1>2, FlattenType
    <3>2. FlattenSeq(closed) \o <<>> = FlattenSeq(closed)
      BY <3>1, ConcatEmptySeq
    <3> QED
      BY <1>2, <1>3, <1>5, <2>1, <3>2
  <2>2. CASE current # <<>>
    <3>1. FlattenSeq(Append(closed, current)) = FlattenSeq(closed) \o current
      BY <1>2, FlattenOfAppend
    <3>2. /\ Append(closed, current) \in Seq(Seq(Rows)) /\ Len(Append(closed, current)) = Len(closed) + 1
          /\ \A i \in DOMAIN Append(closed, current) :
               IF i = Len(closed) + 1 THEN Append(closed, current)[i] = current
               ELSE i \in DOMAIN closed /\ Append(closed, current)[i] = closed[i]
      BY <1>2, AppendFacts
    <3>3. Cut(current)
      BY <2>2 DEF ScanInv
    <3>4. Len(current) # 0
      BY <1>2, <2>2
    <3>5. Len(closed) + 1 <= MaxScan
      BY <1>2, <1>5, <3>4
    <3>6. ASSUME NEW i \in DOMAIN Append(closed, current)
          PROVE  /\ Cut(Append(closed, current)[i])
                 /\ i < Len(closed) + 1 => Full(Append(closed, current)[i])
      <4>1. CASE i = Len(closed) + 1
        BY <1>5, <3>2, <3>3, <4>1
      <4>2. CASE i # Len(closed) + 1
        BY <1>3, <3>2, <4>2
      <4> QED
        BY <4>1, <4>2
    <3> QED
      BY <1>2, <2>2, <3>1, <3>2, <3>5, <3>6
  <2> QED
    BY <2>1, <2>2
<1> HIDE DEF chunks
<1>7. digest.count = Len(scanned)
  BY <1>2, SummaryType
<1>8. phase' = "finished" /\ manifest' = [rows |-> digest.count, chunks |-> chunks, verification |-> digest]
  BY <1>6, <1>7 DEF FinishScan, chunks
<1>9. Len(chunks) + Len(current') <= MaxScan
  <2>1. Len(chunks) \in Nat
    BY <1>6, LenProperties
  <2> QED
    BY <1>4, <1>6, <2>1
<1> QED
  BY <1>1, <1>2, <1>4, <1>6, <1>7, <1>8, <1>9 DEF ScanInv, Cut, Full

\* Every step keeps ScanInv.
LEMMA ScanInvStep ==
  ASSUME ScanInv, [Next]_vars
  PROVE  ScanInv'
<1>1. ASSUME NEW r \in Rows, WriteRow(r) PROVE ScanInv'
  BY <1>1, ScanInvWrite
<1>2. CASE ScanFails
  BY <1>2, ScanInvFails
<1>3. CASE FinishScan
  BY <1>3, ScanInvFinish
<1>4. ASSUME UNCHANGED source PROVE ScanInv'
  BY <1>4 DEF source, ScanInv, Cut, Full
<1>5. Next => UNCHANGED source \/ ScanFails \/ FinishScan \/ \E r \in Rows : WriteRow(r)
  BY Zenon DEF Next, Deliver, RemoveOrphan, DeliverManifest, ListManifests, ReadActive, SweepEnds, Observe,
         ObserveAgain, HashFile, Register, SkipImported, InsertBatch, EndChunk, CompleteStaged,
         SetVerifying, Verify, Crash
<1>6. UNCHANGED vars => UNCHANGED source
  BY DEF vars
<1> QED
  BY <1>1, <1>2, <1>3, <1>4, <1>5, <1>6, Zenon

\* The scan's part of the invariant, for tables of any rows and chunks of any limits.
THEOREM ScanInvariance == Spec => []ScanInv
<1>1. Init => ScanInv
  BY ScanInvInit
<1>2. ScanInv /\ [Next]_vars => ScanInv'
  BY ScanInvStep
<1> QED
  BY <1>1, <1>2, PTL DEF Spec

\* The chunks of a manifest are the scan: every row once, in order, in as few chunks as
\* the limits allow (write_row, finish), for tables of any rows and any limits.
THEOREM ChunksRight == Spec => []ChunksHoldTheScan
<1>1. ASSUME ScanInv PROVE ChunksHoldTheScan
  <2>1. phase = "finished" => FlattenSeq(manifest.chunks) = scanned
    BY <1>1 DEF ScanInv
  <2>2. ASSUME NEW i \in DOMAIN closed
        PROVE  /\ closed[i] # <<>> /\ ~Full(Front(closed[i]))
               /\ phase = "scanning" \/ i < Len(closed) => Full(closed[i])
    BY <1>1 DEF ScanInv, Cut
  <2> QED
    BY <2>1, <2>2 DEF ChunksHoldTheScan, Full
<1> QED
  BY <1>1, ScanInvariance, PTL

-------------------------------------------------------------------------------
(* The incoming directory and the processor                                  *)

\* A file holds the beginning of the chunk it is named for, and the manifest comes last.
DirectoryInv ==
  /\ incoming \in [Sequences -> [kind : {"absent", "part", "whole"}, rows : Nat]]
  /\ \A i \in Sequences : incoming[i] # Absent => i \in DOMAIN closed /\ incoming[i].rows <= Len(closed[i])
  /\ announced => phase = "finished"

\* The processor works on what was announced; what it decoded are rows of the chunk it is
\* at, and it says VERIFIED only if what it read back has the digest of the manifest.
ProcessorInv ==
  /\ pc \in {"idle", "observed", "hashing", "import", "verify"}
  /\ pc # "idle" => announced /\ status # "VERIFIED"
  /\ at \in Nat \ {0}
  /\ decoded \in Seq(Rows) /\ staging \in Seq(Rows)
  /\ status = "VERIFIED" => phase = "finished" /\ Summary(staging) = Summary(scanned)

Inv == ScanInv /\ DirectoryInv /\ ProcessorInv

\* Chunk files are written once, and a scan that is finished is over.
LEMMA ClosedGrows ==
  ASSUME ScanInv, [Next]_vars
  PROVE  /\ \A i \in DOMAIN closed : i \in DOMAIN closed' /\ closed'[i] = closed[i]
         /\ phase = "finished" => UNCHANGED source
<1> DEFINE Grown(c) == \A i \in DOMAIN closed : i \in DOMAIN c /\ c[i] = closed[i]
<1>1. current \in Seq(Rows) /\ closed \in Seq(Seq(Rows))
  BY DEF ScanInv
<1>2. Grown(closed)
  OBVIOUS
<1>3. ASSUME NEW x \in Seq(Rows) PROVE Grown(Append(closed, x))
  <2>1. /\ \A i \in 1..Len(closed) : Append(closed, x)[i] = closed[i]
        /\ DOMAIN Append(closed, x) = 1..(Len(closed) + 1) /\ DOMAIN closed = 1..Len(closed)
    BY <1>1, AppendProperties, AppendFacts
  <2>2. Len(closed) \in Nat
    BY <1>1, LenProperties
  <2> QED
    BY <2>1, <2>2
<1> HIDE DEF Grown
<1>4. ASSUME NEW r \in Rows, WriteRow(r) PROVE Grown(closed') /\ phase = "scanning"
  <2>1. Append(current, r) \in Seq(Rows)
    BY <1>1, AppendFacts
  <2>2. closed' = closed \/ closed' = Append(closed, Append(current, r))
    BY <1>4 DEF WriteRow
  <2> QED
    BY <1>2, <1>3, <1>4, <2>1, <2>2 DEF WriteRow
<1>5. CASE ScanFails
  <2>1. \/ closed' = closed \/ closed' = Append(closed, current)
        \/ \E r \in Rows : closed' = Append(closed, Append(current, r))
    BY <1>5 DEF ScanFails
  <2>2. \A r \in Rows : Append(current, r) \in Seq(Rows)
    BY <1>1, AppendFacts
  <2>3. Grown(closed')
    BY <1>1, <1>2, <1>3, <2>1, <2>2
  <2> QED
    BY <1>5, <2>3 DEF ScanFails, Grown
<1>6. CASE FinishScan
  <2>1. closed' = closed \/ closed' = Append(closed, current)
    BY <1>6 DEF FinishScan
  <2>2. Grown(closed')
    BY <1>1, <1>2, <1>3, <2>1
  <2> QED
    BY <1>6, <2>2 DEF FinishScan, Grown
<1>7. CASE UNCHANGED source
  BY <1>7 DEF source
<1>8. Next => UNCHANGED source \/ ScanFails \/ FinishScan \/ \E r \in Rows : WriteRow(r)
  BY Zenon DEF Next, Deliver, RemoveOrphan, DeliverManifest, ListManifests, ReadActive, SweepEnds, Observe,
         ObserveAgain, HashFile, Register, SkipImported, InsertBatch, EndChunk, CompleteStaged,
         SetVerifying, Verify, Crash
<1>9. UNCHANGED vars => UNCHANGED source
  BY DEF vars
<1> QED
  BY <1>4, <1>5, <1>6, <1>7, <1>8, <1>9 DEF Grown

File == [kind : {"absent", "part", "whole"}, rows : Nat]

\* Every step keeps DirectoryInv: files that are sent again or are still written hold
\* rows of the chunk they carry.
LEMMA DirectoryInvStep ==
  ASSUME Inv, [Next]_vars
  PROVE  DirectoryInv'
<1>1. /\ incoming \in [Sequences -> File]
      /\ \A i \in Sequences : incoming[i] # Absent => i \in DOMAIN closed /\ incoming[i].rows <= Len(closed[i])
      /\ announced => phase = "finished"
      /\ \A i \in DOMAIN closed : Len(closed[i]) \in Nat
  BY LenProperties DEF Inv, DirectoryInv, File, ScanInv
<1>2. /\ \A i \in DOMAIN closed : i \in DOMAIN closed' /\ closed'[i] = closed[i]
      /\ phase = "finished" => phase' = "finished"
  BY ClosedGrows DEF Inv, source
<1>3. ASSUME NEW j \in Sequences, NEW file \in File, incoming' = [incoming EXCEPT ![j] = file], announced' = announced,
             file # Absent => j \in DOMAIN closed /\ file.rows <= Len(closed[j])
      PROVE  DirectoryInv'
  <2>1. incoming' \in [Sequences -> File]
    BY <1>1, <1>3
  <2>2. \A i \in Sequences : incoming'[i] # Absent => i \in DOMAIN closed' /\ incoming'[i].rows <= Len(closed'[i])
    BY <1>1, <1>2, <1>3
  <2> QED
    BY <1>1, <1>2, <1>3, <2>1, <2>2 DEF DirectoryInv, File
<1>4. ASSUME incoming' = incoming, announced' => announced \/ phase = "finished" PROVE DirectoryInv'
  BY <1>1, <1>2, <1>4 DEF DirectoryInv, File
<1>5. ASSUME NEW j \in Sequences, Deliver(j) PROVE DirectoryInv'
  <2>1. j \in DOMAIN closed /\ announced' = announced
    BY <1>5 DEF Deliver
  <2> DEFINE Sent(file) == file \in Written(closed[j]) /\ incoming' = [incoming EXCEPT ![j] = file]
  <2>2. \E file : Sent(file)
    BY <1>5 DEF Deliver, Written
  <2>3. PICK file : Sent(file)
    BY <2>2
  <2>4. file \in File /\ file.rows <= Len(closed[j])
    BY <1>1, <2>1, <2>3 DEF Written, File
  <2> QED
    BY <1>3, <2>1, <2>3, <2>4
<1>6. ASSUME NEW j \in Sequences, RemoveOrphan(j) PROVE DirectoryInv'
  <2>1. incoming' = [incoming EXCEPT ![j] = Absent] /\ announced' = announced /\ Absent \in File
    BY <1>6 DEF RemoveOrphan, Absent, File
  <2> QED
    BY <1>3, <2>1
<1>7. CASE DeliverManifest
  <2>1. phase = "finished" /\ incoming' = incoming
    BY <1>7 DEF DeliverManifest, Inv, ScanInv
  <2> QED
    BY <1>4, <2>1
<1>8. ASSUME UNCHANGED <<incoming, announced>> PROVE DirectoryInv'
  BY <1>4, <1>8
<1>9. Next => \/ UNCHANGED <<incoming, announced>> \/ DeliverManifest
              \/ \E j \in Sequences : Deliver(j) \/ RemoveOrphan(j)
  BY Zenon DEF Next, directory, WriteRow, ScanFails, FinishScan, ListManifests, ReadActive, SweepEnds, Observe,
         ObserveAgain, HashFile, Register, SkipImported, InsertBatch, EndChunk, CompleteStaged,
         SetVerifying, Verify, Crash
<1>10. UNCHANGED vars => UNCHANGED <<incoming, announced>>
  BY DEF vars, directory
<1> QED
  BY <1>5, <1>6, <1>7, <1>8, <1>9, <1>10, Zenon

\* What a batch adds to the rows that are not committed.
LEMMA InsertedRows ==
  ASSUME Inv, InsertBatch
  PROVE  /\ pc = "import" /\ at \in DOMAIN closed /\ at \notin imported
         /\ \E upto \in (Len(decoded) + 1)..Len(closed[at]) :
              LET batch == SubSeq(closed[at], Len(decoded) + 1, upto)
              IN  \/ decoded' = decoded \o batch
                  \/ \E n \in DOMAIN batch, r \in Rows : decoded' = decoded \o [batch EXCEPT ![n] = r]
<1>1. pc = "import" /\ at \in DOMAIN manifest.chunks /\ at \notin imported /\ Len(decoded) < Readable
  BY DEF InsertBatch, Remaining, Chunks
<1>2. announced /\ phase = "finished"
  BY <1>1 DEF Inv, ProcessorInv, DirectoryInv
<1>3. manifest.chunks = closed
  BY <1>2 DEF Inv, ScanInv
<1>4. closed \in Seq(Seq(Rows)) /\ Len(closed) <= MaxScan /\ at \in DOMAIN closed /\ decoded \in Seq(Rows)
  <2>1. Len(closed) + Len(current) <= MaxScan /\ closed \in Seq(Seq(Rows)) /\ current \in Seq(Rows)
    BY DEF Inv, ScanInv
  <2>2. Len(closed) \in Nat /\ Len(current) \in Nat
    BY <2>1, LenProperties
  <2> QED
    BY <1>1, <1>3, <2>1, <2>2, ContentAssumption DEF Inv, ProcessorInv
<1>5. at \in Sequences
  BY <1>4, ContentAssumption DEF Sequences
<1>6. Len(closed[at]) \in Nat /\ Len(decoded) \in Nat
  BY <1>4, LenProperties
<1>7. Readable \in Nat /\ Readable <= Len(closed[at])
  <2>1. CASE incoming[at] = Absent
    BY <1>6, <2>1 DEF Readable
  <2>2. CASE incoming[at] # Absent
    BY <1>5, <1>6, <2>2 DEF Readable, Inv, DirectoryInv
  <2> QED
    BY <2>1, <2>2
<1> DEFINE end == IF Len(decoded) + BatchRows < Readable THEN Len(decoded) + BatchRows ELSE Readable
<1>8. end \in (Len(decoded) + 1)..Len(closed[at])
  BY <1>1, <1>6, <1>7, ContentAssumption
<1>9. LET batch == SubSeq(closed[at], Len(decoded) + 1, end)
      IN  \/ decoded' = decoded \o batch
          \/ \E n \in DOMAIN batch, r \in Rows : decoded' = decoded \o [batch EXCEPT ![n] = r]
  BY Zenon DEF InsertBatch
<1> HIDE DEF end
<1> QED
  BY <1>1, <1>4, <1>8, <1>9, Zenon

\* A batch of rows, with at most one of them altered by the database, has as many rows as
\* it should.
LEMMA BatchType ==
  ASSUME NEW A, NEW s \in Seq(A), NEW m \in Nat, NEW n \in (m+1)..Len(s)
  PROVE  /\ SubSeq(s, m+1, n) \in Seq(A) /\ Len(SubSeq(s, m+1, n)) = n - m
         /\ \A k \in DOMAIN SubSeq(s, m+1, n), r \in A :
              /\ [SubSeq(s, m+1, n) EXCEPT ![k] = r] \in Seq(A)
              /\ Len([SubSeq(s, m+1, n) EXCEPT ![k] = r]) = n - m
<1> DEFINE b == SubSeq(s, m+1, n)
<1>1. b \in Seq(A) /\ Len(b) = n - m
  <2>1. \A i \in m+1..n : s[i] \in A
    OBVIOUS
  <2>2. m + 1 \in Int /\ n \in Int /\ m + 1 <= n /\ n - (m+1) + 1 = n - m
    OBVIOUS
  <2> QED
    BY <2>1, <2>2, SubSeqProperties
<1> HIDE DEF b
<1>2. ASSUME NEW k \in DOMAIN b, NEW r \in A PROVE [b EXCEPT ![k] = r] \in Seq(A) /\ Len([b EXCEPT ![k] = r]) = Len(b)
  <2>1. k \in 1..Len(b)
    BY <1>1
  <2> QED
    BY <1>1, <2>1, ExceptSeq
<1> QED
  BY <1>1, <1>2 DEF b

\* A batch brings at least one row, and no more than the chunk holds.
LEMMA DecodedType ==
  ASSUME Inv, InsertBatch
  PROVE  decoded' \in Seq(Rows) /\ Len(decoded') > Len(decoded) /\ Len(decoded') <= Len(closed[at])
<1>1. closed \in Seq(Seq(Rows)) /\ decoded \in Seq(Rows)
  BY DEF Inv, ScanInv, ProcessorInv
<1>2. at \in DOMAIN closed
  BY InsertedRows
<1>3. closed[at] \in Seq(Rows) /\ Len(decoded) \in Nat
  BY <1>1, <1>2, LenProperties
<1>4. PICK upto \in (Len(decoded) + 1)..Len(closed[at]) :
        LET batch == SubSeq(closed[at], Len(decoded) + 1, upto)
        IN  \/ decoded' = decoded \o batch
            \/ \E n \in DOMAIN batch, r \in Rows : decoded' = decoded \o [batch EXCEPT ![n] = r]
  BY InsertedRows, Zenon
<1> DEFINE batch == SubSeq(closed[at], Len(decoded) + 1, upto)
<1>5. /\ batch \in Seq(Rows) /\ Len(batch) = upto - Len(decoded)
      /\ \A n \in DOMAIN batch, r \in Rows : [batch EXCEPT ![n] = r] \in Seq(Rows) /\ Len([batch EXCEPT ![n] = r]) = upto - Len(decoded)
  BY <1>3, BatchType
<1>6. \/ decoded' = decoded \o batch
      \/ \E n \in DOMAIN batch, r \in Rows : decoded' = decoded \o [batch EXCEPT ![n] = r]
  BY <1>4
<1> HIDE DEF batch
<1>7. PICK added \in Seq(Rows) : decoded' = decoded \o added /\ Len(added) = upto - Len(decoded)
  BY <1>5, <1>6
<1>8. decoded \o added \in Seq(Rows) /\ Len(decoded \o added) = Len(decoded) + Len(added)
  BY <1>1, ConcatProperties
<1>9. Len(closed[at]) \in Nat /\ Len(decoded') = upto
  BY <1>3, <1>7, <1>8, LenProperties
<1> QED
  BY <1>3, <1>7, <1>8, <1>9

\* Every step keeps ProcessorInv.
LEMMA ProcessorInvStep ==
  ASSUME Inv, [Next]_vars
  PROVE  ProcessorInv'
<1>1. ProcessorInv /\ (announced => phase = "finished") /\ (phase = "finished" => UNCHANGED source)
  BY ClosedGrows DEF Inv, DirectoryInv
<1>2. announced => announced'
  BY Zenon DEF vars, directory, Next, Deliver, RemoveOrphan, DeliverManifest, WriteRow, ScanFails, FinishScan, ListManifests, ReadActive, SweepEnds, Observe,
         ObserveAgain, HashFile, Register, SkipImported, InsertBatch, EndChunk, CompleteStaged,
         SetVerifying, Verify, Crash
<1>3. CASE UNCHANGED processor
  BY <1>1, <1>2, <1>3 DEF processor, ProcessorInv, source
<1>4. CASE Observe
  BY <1>1, <1>2, <1>4 DEF Observe, ProcessorInv, source
<1>5. CASE ObserveAgain
  BY <1>1, <1>2, <1>5 DEF ObserveAgain, ProcessorInv, source
<1>6. CASE HashFile
  BY <1>1, <1>2, <1>6 DEF HashFile, ProcessorInv, source
<1>7. CASE Register
  <2>1. <<>> \in Seq(Rows)
    OBVIOUS
  <2> QED
    BY <1>1, <1>2, <1>7, <2>1 DEF Register, ProcessorInv, source
<1>8. CASE SkipImported
  BY <1>1, <1>2, <1>8 DEF SkipImported, ProcessorInv, source
<1>9. CASE InsertBatch
  BY <1>1, <1>2, <1>9, DecodedType DEF InsertBatch, ProcessorInv, source
<1>10. CASE EndChunk
  <2>1. <<>> \in Seq(Rows)
    OBVIOUS
  <2>2. staging \o decoded \in Seq(Rows)
    BY <1>1, ConcatProperties DEF ProcessorInv
  <2>3. pc = "import" /\ decoded' = <<>> /\ UNCHANGED source
    BY <1>10 DEF EndChunk
  <2>4. CASE Len(decoded) = Len(manifest.chunks[at])
    <3>1. staging' = staging \o decoded /\ at' = at + 1 /\ UNCHANGED <<pc, status>>
      BY <1>10, <2>4 DEF EndChunk
    <3> QED
      BY <1>1, <1>2, <2>1, <2>2, <2>3, <3>1 DEF ProcessorInv, source
  <2>5. CASE Len(decoded) # Len(manifest.chunks[at])
    <3>1. pc' = "idle" /\ status' = "FAILED" /\ UNCHANGED <<staging, at>>
      BY <1>10, <2>5 DEF EndChunk
    <3> QED
      BY <1>1, <1>2, <2>1, <2>3, <3>1 DEF ProcessorInv, source
  <2> QED
    BY <2>4, <2>5
<1>11. CASE CompleteStaged
  BY <1>1, <1>2, <1>11 DEF CompleteStaged, ProcessorInv, source
<1>12. CASE SetVerifying
  BY <1>1, <1>2, <1>12 DEF SetVerifying, ProcessorInv, source
<1>13. CASE Verify
  <2>1. phase = "finished"
    BY <1>1, <1>13 DEF Verify, ProcessorInv
  <2>2. manifest.verification = Summary(scanned)
    BY <2>1 DEF Inv, ScanInv
  <2>3. UNCHANGED <<source, at, decoded, imported, staging>> /\ pc' = "idle"
        /\ status' = IF Summary(staging) = Summary(scanned) THEN "VERIFIED" ELSE "MISMATCH"
    BY <1>13, <2>2 DEF Verify
  <2> QED
    BY <1>1, <2>1, <2>3 DEF ProcessorInv, source
<1>14. CASE Crash
  <2>1. <<>> \in Seq(Rows)
    OBVIOUS
  <2> QED
    BY <1>1, <1>2, <1>14, <2>1 DEF Crash, ProcessorInv, source
<1>15. Next => \/ UNCHANGED processor \/ Observe \/ ObserveAgain \/ HashFile \/ Register \/ SkipImported \/ InsertBatch
               \/ EndChunk \/ CompleteStaged \/ SetVerifying \/ Verify \/ Crash
  BY Zenon DEF Next, directory, WriteRow, ScanFails, FinishScan, Deliver, RemoveOrphan, DeliverManifest, ListManifests,
               ReadActive, SweepEnds
<1>16. UNCHANGED vars => UNCHANGED processor
  BY DEF vars
<1> QED
  BY <1>3, <1>4, <1>5, <1>6, <1>7, <1>8, <1>9, <1>10, <1>11, <1>12, <1>13, <1>14, <1>15, <1>16, Zenon

\* The invariant holds at first.
LEMMA InvInit ==
  ASSUME Init
  PROVE  Inv
<1>1. ScanInv
  BY ScanInvInit
<1>2. <<>> \in Seq(Rows) /\ Absent \in File
  BY DEF Absent, File
<1>3. DirectoryInv
  BY <1>2 DEF Init, DirectoryInv, File
<1>4. ProcessorInv
  BY <1>2 DEF Init, ProcessorInv
<1> QED
  BY <1>1, <1>3, <1>4 DEF Inv

\* The invariant of scan, directory and processor.
THEOREM Invariance == Spec => []Inv
<1>1. Init => Inv
  BY InvInit
<1>2. Inv /\ [Next]_vars => Inv'
  BY ScanInvStep, DirectoryInvStep, ProcessorInvStep DEF Inv
<1> QED
  BY <1>1, <1>2, PTL DEF Spec

\* A run that verifies has the digest of the scan (_matches), whatever the rows and hashes.
THEOREM DigestsMatch == Spec => [](status = "VERIFIED" => Summary(staging) = Summary(scanned))
<1>1. Inv => (status = "VERIFIED" => Summary(staging) = Summary(scanned))
  BY DEF Inv, ProcessorInv
<1> QED
  BY <1>1, Invariance, PTL

\* A run that verifies has exactly the rows that were scanned, each as often as it was
\* scanned, as far as the digest tells tables apart.
THEOREM VerifiedRight ==
  ASSUME DigestTellsApart
  PROVE  Spec => []VerifiedIsScanned
<1>1. ASSUME Inv PROVE VerifiedIsScanned
  <2> SUFFICES ASSUME status = "VERIFIED" PROVE \A r \in Rows : Times(staging, r) = Times(scanned, r)
    BY DEF VerifiedIsScanned
  <2>1. scanned \in Seq(Rows) /\ staging \in Seq(Rows) /\ Len(scanned) <= MaxScan /\ Summary(staging) = Summary(scanned)
    BY <1>1 DEF Inv, ScanInv, ProcessorInv
  <2>2. Len(staging) = Len(scanned)
    BY <2>1, SummaryType
  <2>3. ASSUME NEW s \in Seq(Rows), Len(s) <= MaxScan PROVE s \in BoundedSeq(Rows, MaxScan)
    <3>1. Len(s) \in 0..MaxScan /\ s \in [1..Len(s) -> Rows]
      BY <2>3, LenProperties, ContentAssumption
    <3> QED
      BY <3>1 DEF BoundedSeq, SeqOf
  <2>4. scanned \in BoundedSeq(Rows, MaxScan) /\ staging \in BoundedSeq(Rows, MaxScan)
    BY <2>1, <2>2, <2>3
  <2> QED
    BY <2>1, <2>4, Zenon DEF DigestTellsApart
<1> QED
  BY <1>1, Invariance, PTL

-------------------------------------------------------------------------------
(* When the database stores what it is given                                 *)

\* A batch in which a row became another one.
RowAltered == Len(decoded') > Len(decoded) /\ decoded' # SubSeq(closed[at], 1, Len(decoded'))

\* The first k chunks are in the staging table, in order.
Staged(k) ==
  /\ imported = 1..k
  /\ staging = FlattenSeq(SubSeq(closed, 1, k))
  /\ pc = "import" => at <= k + 1
  /\ status \in {"STAGED", "VERIFYING", "VERIFIED"} => k = Len(closed)

\* If the database altered no row: the staging table is the first chunks, and what is
\* decoded is the beginning of the chunk the processor is at.
FaithfulInv ==
  /\ \E k \in 0..Len(closed) : Staged(k)
  /\ imported # {} => phase = "finished"
  /\ decoded # <<>> => /\ pc = "import" /\ at \in DOMAIN closed \ imported
                       /\ decoded = SubSeq(closed[at], 1, Len(decoded))
  /\ pc = "import" => status = "IMPORTING"
  /\ pc = "verify" => status \in {"STAGED", "VERIFYING"}
  /\ status \in {"STAGED", "VERIFYING"} => phase = "finished"
  /\ status # "MISMATCH"

\* Without a chunk there are no rows.
LEMMA StagedNone ==
  ASSUME NEW ss
  PROVE  FlattenSeq(SubSeq(ss, 1, 0)) = <<>>
<1>1. SubSeq(ss, 1, 0) = <<>>
  BY SubSeqEmpty
<1> QED
  BY <1>1, FlattenOfNone

\* A step of the scan or of the directory.
LEMMA FaithfulOutside ==
  ASSUME Inv, FaithfulInv, [Next]_vars, UNCHANGED processor
  PROVE  FaithfulInv'
<1>1. /\ announced => phase = "finished"
      /\ phase = "finished" => UNCHANGED source
      /\ pc # "idle" => announced
      /\ status = "VERIFIED" => phase = "finished"
  BY ClosedGrows DEF Inv, DirectoryInv, ProcessorInv
<1>2. UNCHANGED <<pc, at, decoded, status, imported, staging>>
  BY DEF processor
<1>3. CASE phase = "finished"
  <2>1. UNCHANGED <<closed, phase>>
    BY <1>1, <1>3 DEF source
  <2> QED
    BY <1>2, <2>1 DEF FaithfulInv, Staged
<1>4. CASE phase # "finished"
  <2>1. /\ pc = "idle" /\ decoded = <<>> /\ imported = {} /\ status # "MISMATCH"
        /\ status \notin {"STAGED", "VERIFYING", "VERIFIED"}
    BY <1>1, <1>4 DEF FaithfulInv
  <2>2. PICK k \in 0..Len(closed) : Staged(k)
    BY DEF FaithfulInv
  <2>3. k = 0
    <3>1. k \in Nat /\ 1..k = {}
      BY <2>1, <2>2 DEF Staged
    <3> QED
      BY <3>1
  <2>4. staging = <<>>
    BY <2>2, <2>3, StagedNone DEF Staged
  <2>5. Staged(0)'
    <3>1. (1..0) = {} /\ FlattenSeq(SubSeq(closed', 1, 0)) = <<>>
      BY StagedNone
    <3> QED
      BY <1>2, <2>1, <2>4, <3>1 DEF Staged
  <2>6. 0 \in 0..Len(closed')
    <3>1. closed' \in Seq(Seq(Rows))
      BY ScanInvStep DEF ScanInv, Inv
    <3>2. Len(closed') \in Nat
      BY <3>1, LenProperties
    <3> QED
      BY <3>2
  <2> QED
    BY <1>2, <2>1, <2>5, <2>6 DEF FaithfulInv
<1> QED
  BY <1>3, <1>4

\* The chunk that is committed is the next one, whole.
LEMMA FaithfulCommit ==
  ASSUME Inv, FaithfulInv, EndChunk
  PROVE  FaithfulInv'
<1>1. /\ pc = "import" /\ at \in DOMAIN manifest.chunks /\ at \notin imported
      /\ decoded' = <<>> /\ UNCHANGED source
  BY DEF EndChunk, Remaining, Chunks
<1>2. phase = "finished" /\ manifest.chunks = closed /\ UNCHANGED <<closed, phase>>
  BY <1>1 DEF Inv, ScanInv, DirectoryInv, ProcessorInv, source
<1>3. PICK k \in 0..Len(closed) : Staged(k)
  BY DEF FaithfulInv
<1>4. closed \in Seq(Seq(Rows)) /\ Len(closed) \in Nat /\ DOMAIN closed = 1..Len(closed) /\ decoded \in Seq(Rows)
  BY LenProperties DEF Inv, ScanInv, ProcessorInv
<1>5. at = k + 1 /\ at \in DOMAIN closed /\ k + 1 \in 0..Len(closed)
  <2>1. at \in 1..Len(closed) /\ at <= k + 1 /\ at \notin 1..k
    BY <1>1, <1>2, <1>3, <1>4 DEF Staged
  <2> QED
    BY <1>4, <2>1
<1>6. CASE Len(decoded) = Len(manifest.chunks[at])
  <2>1. /\ staging' = staging \o decoded /\ imported' = imported \cup {at}
        /\ at' = at + 1 /\ pc' = pc /\ status' = status
    BY <1>6 DEF EndChunk
  <2>2. decoded = closed[at]
    <3>1. closed[at] \in Seq(Rows) /\ Len(decoded) = Len(closed[at])
      BY <1>2, <1>4, <1>5, <1>6
    <3>2. CASE decoded = <<>>
      BY <3>1, <3>2
    <3>3. CASE decoded # <<>>
      <4>1. decoded = SubSeq(closed[at], 1, Len(closed[at]))
        BY <3>1, <3>3 DEF FaithfulInv
      <4>2. SubSeq(closed[at], 1, Len(closed[at])) = closed[at]
        BY <3>1, SubSeqFull
      <4> QED
        BY <4>1, <4>2
    <3> QED
      BY <3>2, <3>3
  <2>3. FlattenSeq(SubSeq(closed, 1, k + 1)) = FlattenSeq(SubSeq(closed, 1, k)) \o closed[k+1]
    <3>1. SubSeq(closed, 1, k) \in Seq(Seq(Rows)) /\ closed[k+1] \in Seq(Rows)
      BY <1>3, <1>4, <1>5
    <3>2. SubSeq(closed, 1, k + 1) = SubSeq(closed, 1, (k + 1) - 1) \o <<closed[k+1]>>
      <4>1. 1 \in 1..Len(closed) /\ k + 1 \in 1..Len(closed)
        BY <1>4, <1>5
      <4> QED
        BY <1>4, <4>1, SubSeqRecursiveSecond
    <3>3. (k + 1) - 1 = k
      OBVIOUS
    <3>4. Append(SubSeq(closed, 1, k), closed[k+1]) = SubSeq(closed, 1, k) \o <<closed[k+1]>>
      BY <3>1, AppendIsConcat
    <3>5. FlattenSeq(Append(SubSeq(closed, 1, k), closed[k+1])) = FlattenSeq(SubSeq(closed, 1, k)) \o closed[k+1]
      BY <3>1, FlattenOfAppend
    <3> QED
      BY <3>2, <3>3, <3>4, <3>5
  <2>4. Staged(k + 1)'
    <3>1. imported' = 1..(k+1)
      <4>1. imported' = (1..k) \cup {k + 1} /\ k \in Nat
        <5>1. imported = 1..k /\ k \in Nat
          <6>1. k \in Nat
            BY <1>4
          <6> QED
            BY <1>3, <6>1 DEF Staged
        <5>2. at = k + 1 /\ imported' = imported \cup {at}
          BY <1>5, <2>1, Zenon
        <5> QED
          BY <5>1, <5>2, Zenon
      <4> QED
        BY <4>1
    <3>2. staging' = FlattenSeq(SubSeq(closed', 1, k + 1))
      BY <1>2, <1>3, <1>5, <2>1, <2>2, <2>3 DEF Staged
    <3>3. at' <= (k + 1) + 1
      BY <1>3, <1>5, <2>1
    <3>4. status' = "IMPORTING"
      BY <1>1, <2>1 DEF FaithfulInv
    <3> QED
      BY <3>1, <3>2, <3>3, <3>4 DEF Staged
  <2> QED
    BY <1>1, <1>2, <1>5, <2>1, <2>4 DEF FaithfulInv
<1>7. CASE Len(decoded) # Len(manifest.chunks[at])
  <2>1. pc' = "idle" /\ status' = "FAILED" /\ UNCHANGED <<staging, imported, at>>
    BY <1>7 DEF EndChunk
  <2>2. Staged(k)'
    BY <1>2, <1>3, <2>1 DEF Staged
  <2> QED
    BY <1>1, <1>2, <1>3, <2>1, <2>2 DEF FaithfulInv
<1> QED
  BY <1>6, <1>7

\* A batch that is not altered continues the chunk.
LEMMA FaithfulInsert ==
  ASSUME Inv, FaithfulInv, InsertBatch, ~RowAltered
  PROVE  FaithfulInv'
<1>1. /\ UNCHANGED <<source, pc, at, status, imported, staging>>
      /\ pc = "import" /\ at \in DOMAIN closed \ imported
  BY InsertedRows DEF InsertBatch
<1>2. decoded' = SubSeq(closed[at], 1, Len(decoded'))
  BY DecodedType DEF RowAltered
<1>3. UNCHANGED <<closed, phase>>
  BY <1>1 DEF source
<1>4. \E k \in 0..Len(closed') : Staged(k)'
  <2>1. PICK k \in 0..Len(closed) : Staged(k)
    BY DEF FaithfulInv
  <2>2. Staged(k)'
    BY <1>1, <1>3, <2>1 DEF Staged
  <2> QED
    BY <1>3, <2>1, <2>2
<1> QED
  BY <1>1, <1>2, <1>3, <1>4 DEF FaithfulInv

\* Every step that alters no row keeps FaithfulInv.
LEMMA FaithfulInvStep ==
  ASSUME Inv, FaithfulInv, [Next]_vars, [~RowAltered]_vars
  PROVE  FaithfulInv'
<1>1. /\ announced => phase = "finished"
      /\ pc # "idle" => announced
      /\ at \in Nat \ {0}
  BY DEF Inv, DirectoryInv, ProcessorInv
<1>2. PICK k \in 0..Len(closed) : Staged(k)
  BY DEF FaithfulInv
<1>3. closed \in Seq(Seq(Rows)) /\ Len(closed) \in Nat /\ DOMAIN closed = 1..Len(closed)
  BY LenProperties DEF Inv, ScanInv
<1>4. ASSUME UNCHANGED source, Staged(k)', imported' = imported,
             decoded' # <<>> => decoded' = decoded /\ pc' = "import" /\ at' = at,
             pc' = "import" => status' = "IMPORTING",
             pc' = "verify" => status' \in {"STAGED", "VERIFYING"},
             status' \in {"STAGED", "VERIFYING"} => phase = "finished",
             status' # "MISMATCH"
      PROVE  FaithfulInv'
  <2>1. closed' = closed /\ phase' = phase
    BY <1>4 DEF source
  <2>2. \E j \in 0..Len(closed') : Staged(j)'
    BY <1>2, <1>4, <2>1
  <2> QED
    BY <1>4, <2>1, <2>2 DEF FaithfulInv
<1>5. CASE UNCHANGED processor
  BY <1>5, FaithfulOutside
<1>6. CASE Observe \/ ObserveAgain \/ HashFile
  <2>1. /\ pc # "import" /\ pc # "verify" /\ pc' \in {"idle", "observed", "hashing"}
        /\ UNCHANGED <<source, decoded, status, imported, staging>>
    BY <1>6 DEF Observe, ObserveAgain, HashFile
  <2>2. Staged(k)'
    BY <1>2, <2>1 DEF Staged, source
  <2> QED
    BY <1>4, <2>1, <2>2 DEF FaithfulInv
<1>7. CASE Register
  <2>1. /\ decoded' = <<>> /\ at' = 1 /\ UNCHANGED <<source, imported, staging>>
        /\ \/ status \in {"STAGED", "VERIFYING"} /\ pc' = "verify" /\ status' = status
           \/ pc' = "import" /\ status' = "IMPORTING"
    BY <1>7 DEF Register
  <2>2. Staged(k)'
    BY <1>2, <2>1 DEF Staged, source
  <2> QED
    BY <1>4, <2>1, <2>2 DEF FaithfulInv
<1>8. CASE SkipImported
  <2>1. pc = "import" /\ at \in imported /\ at' = at + 1 /\ UNCHANGED <<source, pc, decoded, status, imported, staging>>
    BY <1>8 DEF SkipImported
  <2>2. Staged(k)'
    <3>1. at' <= k + 1
      BY <1>2, <2>1 DEF Staged
    <3> QED
      BY <1>2, <2>1, <3>1 DEF Staged, source
  <2> QED
    BY <1>4, <2>1, <2>2 DEF FaithfulInv
<1>9. CASE InsertBatch
  <2>1. decoded' # decoded
    BY <1>9, DecodedType
  <2>2. ~RowAltered
    BY <2>1 DEF vars, processor
  <2> QED
    BY <1>9, <2>2, FaithfulInsert
<1>10. CASE EndChunk
  BY <1>10, FaithfulCommit
<1>11. CASE CompleteStaged
  <2>1. /\ pc = "import" /\ pc' = "verify" /\ status' = "STAGED" /\ DOMAIN manifest.chunks \subseteq imported
        /\ at \notin DOMAIN manifest.chunks
        /\ UNCHANGED <<source, at, decoded, imported, staging>>
    BY <1>11 DEF CompleteStaged, Remaining, Chunks
  <2>2. phase = "finished" /\ manifest.chunks = closed
    BY <1>1, <2>1 DEF Inv, ScanInv
  <2>3. k = Len(closed)
    <3>1. 1..Len(closed) \subseteq 1..k
      BY <1>2, <1>3, <2>1, <2>2 DEF Staged
    <3>2. Len(closed) \in Nat /\ k \in Nat /\ k <= Len(closed)
      BY <1>3
    <3>3. CASE Len(closed) # 0
      <4>1. Len(closed) \in 1..k
        BY <3>1, <3>3, <3>2
      <4> QED
        BY <3>2, <4>1
    <3> QED
      BY <3>3, <3>2
  <2>4. Staged(k)'
    BY <1>2, <2>1, <2>3 DEF Staged, source
  <2>5. decoded = <<>>
    BY <2>1, <2>2 DEF FaithfulInv
  <2> QED
    BY <1>4, <2>1, <2>2, <2>4, <2>5 DEF FaithfulInv
<1>12. CASE SetVerifying
  <2>1. pc = "verify" /\ status' = "VERIFYING" /\ UNCHANGED <<source, pc, at, decoded, imported, staging>>
    BY <1>12 DEF SetVerifying
  <2>2. status \in {"STAGED", "VERIFYING"} /\ phase = "finished" /\ decoded = <<>>
    BY <2>1 DEF FaithfulInv
  <2>3. Staged(k)'
    BY <1>2, <2>1, <2>2 DEF Staged, source
  <2> QED
    BY <1>4, <2>1, <2>2, <2>3 DEF FaithfulInv
<1>13. CASE Verify
  <2>1. pc = "verify" /\ pc' = "idle" /\ UNCHANGED <<source, at, decoded, imported, staging>>
    BY <1>13 DEF Verify
  <2>2. status \in {"STAGED", "VERIFYING"} /\ phase = "finished" /\ decoded = <<>>
    BY <2>1 DEF FaithfulInv
  <2>3. staging = scanned
    <3>1. SubSeq(closed, 1, Len(closed)) = closed
      BY <1>3, SubSeqFull
    <3>2. FlattenSeq(closed) = scanned
      BY <2>2 DEF Inv, ScanInv
    <3> QED
      BY <1>2, <2>2, <3>1, <3>2 DEF Staged
  <2>4. status' = "VERIFIED"
    BY <1>13, <2>2, <2>3 DEF Verify, Inv, ScanInv
  <2>5. Staged(k)'
    BY <1>2, <2>1, <2>2 DEF Staged, source
  <2> QED
    BY <1>4, <2>1, <2>2, <2>4, <2>5 DEF FaithfulInv
<1>14. CASE Crash
  <2>1. pc' = "idle" /\ decoded' = <<>> /\ UNCHANGED <<source, at, status, imported, staging>>
    BY <1>14 DEF Crash
  <2>2. Staged(k)'
    BY <1>2, <2>1 DEF Staged, source
  <2> QED
    BY <1>4, <2>1, <2>2 DEF FaithfulInv
<1>15. Next => \/ UNCHANGED processor \/ Observe \/ ObserveAgain \/ HashFile \/ Register \/ SkipImported \/ InsertBatch
               \/ EndChunk \/ CompleteStaged \/ SetVerifying \/ Verify \/ Crash
  BY Zenon DEF Next, directory, WriteRow, ScanFails, FinishScan, Deliver, RemoveOrphan, DeliverManifest, ListManifests,
               ReadActive, SweepEnds
<1>16. UNCHANGED vars => UNCHANGED processor
  BY DEF vars
<1> QED
  BY <1>5, <1>6, <1>7, <1>8, <1>9, <1>10, <1>11, <1>12, <1>13, <1>14, <1>15, <1>16, Zenon

\* While the database stores every row as it was given, no run ends in MISMATCH, and the
\* table of a run that verifies is the scan, row by row in its order, whatever is sent again,
\* half written or removed and however often the import is cut short and resumed: a mismatch
\* is the database's doing, never the transport's or the importer's (_import_chunk, _verify).
THEOREM FaithfulRunsVerify ==
  Spec /\ [][~RowAltered]_vars => [](status # "MISMATCH" /\ (status = "VERIFIED" => staging = scanned))
<1>1. Init => FaithfulInv
  <2>1. ASSUME Init PROVE Staged(0) /\ 0 \in 0..Len(closed)
    <3>1. (1..0) = {} /\ FlattenSeq(SubSeq(closed, 1, 0)) = <<>> /\ Len(<<>>) = 0
      BY StagedNone
    <3> QED
      BY <2>1, <3>1 DEF Init, Staged
  <2> QED
    BY <2>1 DEF Init, FaithfulInv
<1>2. Inv /\ FaithfulInv /\ [Next]_vars /\ [~RowAltered]_vars => FaithfulInv'
  BY FaithfulInvStep
<1>3. ASSUME Inv, FaithfulInv
      PROVE  status # "MISMATCH" /\ (status = "VERIFIED" => staging = scanned)
  <2>1. status = "VERIFIED" => phase = "finished"
    BY <1>3 DEF Inv, ProcessorInv
  <2>2. ASSUME status = "VERIFIED" PROVE staging = scanned
    <3>1. PICK k \in 0..Len(closed) : Staged(k)
      BY <1>3 DEF FaithfulInv
    <3>2. closed \in Seq(Seq(Rows)) /\ FlattenSeq(closed) = scanned
      BY <1>3, <2>1, <2>2 DEF Inv, ScanInv
    <3>3. SubSeq(closed, 1, Len(closed)) = closed
      BY <3>2, SubSeqFull
    <3> QED
      BY <2>2, <3>1, <3>2, <3>3 DEF Staged
  <2> QED
    BY <1>3, <2>2 DEF FaithfulInv
<1> QED
  BY <1>1, <1>2, <1>3, Invariance, PTL DEF Spec
=============================================================================
