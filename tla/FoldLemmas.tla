----------------------------- MODULE FoldLemmas -----------------------------
(***************************************************************************)
(* What the folds of the community modules compute. FoldLeft and           *)
(* FlattenSeq are defined by CHOOSE over functions on sets or intervals,   *)
(* so that a fact about them is proved in two parts: the function that     *)
(* follows the sequence exists, and any function that satisfies the        *)
(* definition agrees with it. Induction is over the elements of a set of   *)
(* natural numbers, by the well-foundedness of <.                          *)
(***************************************************************************)
EXTENDS Integers, Sequences, SequencesExt, SequenceTheorems, WellFoundedInduction, TLAPS

-------------------------------------------------------------------------------
(* Natural numbers                                                           *)

\* A set of natural numbers that is not empty has a least element.
LEMMA LeastNatural ==
  ASSUME NEW T \in SUBSET Nat, T # {}
  PROVE  \E m \in T : \A n \in T : m <= n
<1> DEFINE R == {ss \in Nat \X Nat : ss[1] < ss[2]}
<1>1. IsWellFoundedOn(R, Nat)
  BY NatLessThanWellFounded DEF OpToRel
<1>2. PICK m \in T : \A n \in T : <<n, m>> \notin R
  BY <1>1, WFMin, Zenon
<1>3. \A n \in T : ~(n < m)
  BY <1>2
<1> QED
  BY <1>2, <1>3

\* Induction, as a fact about sets: what holds of 0 and of the next number holds of all.
LEMMA NaturalInduction ==
  ASSUME NEW T, 0 \in T, \A n \in Nat : n \in T => n + 1 \in T
  PROVE  \A n \in Nat : n \in T
<1> DEFINE U == {n \in Nat : n \notin T}
<1> SUFFICES ASSUME U # {} PROVE FALSE
  OBVIOUS
<1>1. U \in SUBSET Nat
  OBVIOUS
<1>2. PICK m \in U : \A k \in U : m <= k
  BY <1>1, LeastNatural, Zenon
<1>3. m # 0 /\ m - 1 \in Nat
  BY <1>2
<1>4. m - 1 \in T
  BY <1>2, <1>3
<1> QED
  BY <1>2, <1>3, <1>4

\* A set of natural numbers with a bound that is not empty has a greatest element, and it
\* is what Max chooses.
LEMMA GreatestNatural ==
  ASSUME NEW T \in SUBSET Nat, T # {}, NEW b \in Nat, \A n \in T : n <= b
  PROVE  Max(T) \in T /\ \A n \in T : n <= Max(T)
<1> DEFINE U == {b - n : n \in T}
<1>1. U \in SUBSET Nat /\ U # {}
  <2>1. \A n \in T : n \in Nat /\ b - n \in Nat
    OBVIOUS
  <2> QED
    BY <2>1
<1>2. PICK u \in U : \A v \in U : u <= v
  BY <1>1, LeastNatural, Zenon
<1>3. PICK m \in T : u = b - m
  BY <1>2
<1>4. ASSUME NEW n \in T PROVE m >= n
  <2>1. b - n \in U
    OBVIOUS
  <2> QED
    BY <1>2, <1>3, <2>1
<1>5. \E x \in T : \A y \in T : x >= y
  BY <1>4
<1> QED
  BY <1>5 DEF Max

\* A function that is defined by recursion over 1..n exists.
Follows(P, A, n, base, step) ==
  /\ P \in [0..n -> A]
  /\ P[0] = base
  /\ \A i \in 1..n : P[i] = step[i][P[i-1]]

\* Such a function exists, for any steps.
LEMMA PrefixFunction ==
  ASSUME NEW A, NEW n \in Nat, NEW base \in A, NEW step \in [1..n -> [A -> A]]
  PROVE  \E P : Follows(P, A, n, base, step)
<1> DEFINE Defined(P, k) == P[0] = base /\ \A i \in 1..k : P[i] = step[i][P[i-1]]
           T == {k \in Nat : k <= n => \E P \in [0..k -> A] : Defined(P, k)}
<1>1. 0 \in T
  <2>1. [i \in 0..0 |-> base] \in [0..0 -> A]
    OBVIOUS
  <2>2. Defined([i \in 0..0 |-> base], 0)
    OBVIOUS
  <2> QED
    BY <2>1, <2>2
<1>2. ASSUME NEW k \in Nat, k \in T PROVE k + 1 \in T
  <2> SUFFICES ASSUME k + 1 <= n PROVE \E P \in [0..k+1 -> A] : Defined(P, k+1)
    OBVIOUS
  <2>1. PICK P \in [0..k -> A] : Defined(P, k)
    BY <1>2
  <2> DEFINE Q == [i \in 0..k+1 |-> IF i = k + 1 THEN step[k+1][P[k]] ELSE P[i]]
  <2>2. step[k+1][P[k]] \in A
    <3>1. step[k+1] \in [A -> A] /\ P[k] \in A
      OBVIOUS
    <3> QED
      BY <3>1
  <2>3. Q \in [0..k+1 -> A]
    BY <2>2
  <2>4. Q[0] = base
    BY <2>1
  <2>5. ASSUME NEW i \in 1..k+1 PROVE Q[i] = step[i][Q[i-1]]
    <3>1. CASE i = k + 1
      BY <3>1
    <3>2. CASE i # k + 1
      BY <3>2, <2>1
    <3> QED
      BY <3>1, <3>2
  <2> QED
    BY <2>3, <2>4, <2>5
<1> HIDE DEF T
<1>3. \A k \in Nat : k \in T
  BY <1>1, <1>2, NaturalInduction, Zenon
<1>4. n \in T
  BY <1>3
<1>5. PICK P \in [0..n -> A] : Defined(P, n)
  BY <1>4 DEF T
<1>6. Follows(P, A, n, base, step)
  BY <1>5 DEF Follows
<1> QED
  BY <1>6
\* The greatest element of an initial segment.
LEMMA GreatestOfSegment ==
  ASSUME NEW k \in Nat, NEW s \in SUBSET (1..k), s # {}
  PROVE  /\ Max(s) \in s
         /\ s \ {Max(s)} \in SUBSET (1..(Max(s) - 1))
<1>1. s \in SUBSET Nat /\ \A i \in s : i <= k
  OBVIOUS
<1>2. Max(s) \in s /\ \A i \in s : i <= Max(s)
  BY <1>1, GreatestNatural, Zenon
<1>3. ASSUME NEW i \in s \ {Max(s)} PROVE i \in 1..(Max(s) - 1)
  <2>1. i \in 1..k /\ Max(s) \in 1..k /\ i <= Max(s) /\ i # Max(s)
    BY <1>2
  <2> QED
    BY <2>1
<1> QED
  BY <1>2, <1>3

\* The recursive function on subsets that the folds of the community modules choose, taking
\* the greatest index first, exists.
Folds(g, A, n, base, step) ==
  /\ g \in [SUBSET (1..n) -> A]
  /\ \A s \in SUBSET (1..n) : g[s] = IF s = {} THEN base ELSE step[Max(s)][g[s \ {Max(s)}]]

\* The function with which the community modules define a fold exists, for any steps.
LEMMA FoldingFunction ==
  ASSUME NEW A, NEW n \in Nat, NEW base \in A, NEW step \in [1..n -> [A -> A]]
  PROVE  \E g : Folds(g, A, n, base, step)
<1> DEFINE Value(f, u) == IF u = {} THEN base ELSE step[Max(u)][f[u \ {Max(u)}]]
           Defined(f, j) == f \in [SUBSET (1..j) -> A] /\ \A u \in SUBSET (1..j) : f[u] = Value(f, u)
           Exists(j) == \E f : Defined(f, j)
           T == {k \in Nat : k <= n => Exists(k)}
<1>1. Exists(0)
  <2> DEFINE g == [s \in SUBSET (1..0) |-> base]
  <2>1. g \in [SUBSET (1..0) -> A]
    OBVIOUS
  <2>2. \A s \in SUBSET (1..0) : s = {}
    OBVIOUS
  <2>3. Defined(g, 0)
    BY <2>1, <2>2
  <2> HIDE DEF Defined, g
  <2> QED
    BY <2>3
<1>2. ASSUME NEW k \in Nat, k + 1 <= n, Exists(k) PROVE Exists(k + 1)
  <2>1. PICK g : Defined(g, k)
    <3> HIDE DEF Defined
    <3> QED
      BY <1>2
  <2> DEFINE h == [s \in SUBSET (1..(k+1)) |->
                     IF k + 1 \in s THEN step[k+1][g[s \ {k+1}]] ELSE g[s]]
  <2>2. step[k+1] \in [A -> A]
    BY <1>2
  <2>3. ASSUME NEW s \in SUBSET (1..(k+1))
        PROVE  /\ s \ {k+1} \in SUBSET (1..k)
               /\ k + 1 \notin s => s \in SUBSET (1..k)
    OBVIOUS
  <2>4. h \in [SUBSET (1..(k+1)) -> A]
    <3> SUFFICES ASSUME NEW s \in SUBSET (1..(k+1))
                 PROVE  (IF k + 1 \in s THEN step[k+1][g[s \ {k+1}]] ELSE g[s]) \in A
      OBVIOUS
    <3>1. CASE k + 1 \in s
      <4>1. g[s \ {k+1}] \in A
        BY <2>1, <2>3
      <4> QED
        BY <3>1, <4>1, <2>2
    <3>2. CASE k + 1 \notin s
      BY <3>2, <2>1, <2>3
    <3> QED
      BY <3>1, <3>2
  <2>5. ASSUME NEW s \in SUBSET (1..(k+1)) PROVE h[s] = Value(h, s)
    <3>1. CASE k + 1 \in s
      <4>1. s # {} /\ Max(s) \in s /\ s \ {Max(s)} \in SUBSET (1..(Max(s) - 1))
        <5>1. k + 1 \in Nat /\ s # {}
          BY <3>1
        <5> QED
          BY <5>1, GreatestOfSegment, Zenon
      <4>2. Max(s) = k + 1
        <5>1. Max(s) \in 1..(k+1)
          BY <4>1
        <5>2. CASE Max(s) # k + 1
          <6>1. k + 1 \in s \ {Max(s)}
            BY <3>1, <5>2
          <6>2. k + 1 \in 1..(Max(s) - 1)
            BY <4>1, <6>1, Zenon
          <6> QED
            BY <5>1, <6>2
        <5> QED
          BY <5>2
      <4>3. h[s \ {k+1}] = g[s \ {k+1}]
        BY <2>3
      <4> QED
        BY <3>1, <4>1, <4>2, <4>3
    <3>2. CASE k + 1 \notin s
      <4>1. s \in SUBSET (1..k) /\ h[s] = g[s]
        BY <3>2, <2>3
      <4>2. CASE s = {}
        BY <2>1, <4>1, <4>2
      <4>3. CASE s # {}
        <5>1. Max(s) \in s /\ s \ {Max(s)} \in SUBSET (1..k)
          <6>1. Max(s) \in s
            BY <4>1, <4>3, GreatestOfSegment
          <6> QED
            BY <4>1, <6>1
        <5>2. h[s \ {Max(s)}] = g[s \ {Max(s)}]
          BY <5>1, <2>3
        <5>3. g[s] = step[Max(s)][g[s \ {Max(s)}]]
          BY <2>1, <4>1, <4>3
        <5> QED
          BY <4>1, <4>3, <5>2, <5>3
      <4> QED
        BY <4>2, <4>3
    <3> QED
      BY <3>1, <3>2
  <2>6. Defined(h, k+1)
    BY <2>4, <2>5
  <2> HIDE DEF Defined, h
  <2> QED
    BY <2>6
<1> HIDE DEF Defined, Exists
<1>3. ASSUME NEW k \in Nat, k \in T PROVE k + 1 \in T
  <2>1. k + 1 <= n => Exists(k + 1)
    BY <1>2, <1>3
  <2> QED
    BY <2>1
<1>4. 0 \in T
  BY <1>1
<1> HIDE DEF T
<1>5. \A k \in Nat : k \in T
  BY <1>3, <1>4, NaturalInduction, Zenon
<1>6. Exists(n)
  BY <1>5 DEF T
<1>7. PICK h : Defined(h, n)
  BY <1>6 DEF Exists
<1>8. Folds(h, A, n, base, step)
  BY <1>7 DEF Defined, Folds
<1> QED
  BY <1>8

\* What is left of an initial segment without its greatest element.
LEMMA SegmentWithoutLast ==
  ASSUME NEW k \in Nat \ {0}
  PROVE  Max(1..k) = k /\ (1..k) \ {k} = 1..(k-1)
<1> DEFINE s == 1..k
<1>1. s \in SUBSET (1..k) /\ s # {} /\ k \in s
  OBVIOUS
<1>2. Max(s) \in s /\ s \ {Max(s)} \in SUBSET (1..(Max(s) - 1))
  <2> HIDE DEF s
  <2>1. k \in Nat
    OBVIOUS
  <2> QED
    BY <1>1, <2>1, GreatestOfSegment, Zenon
<1>3. CASE Max(s) # k
  <2>1. k \in s \ {Max(s)}
    BY <1>1, <1>3
  <2>2. k \in 1..(Max(s) - 1)
    BY <1>2, <2>1
  <2> QED
    BY <1>2, <2>2
<1> QED
  BY <1>3

-------------------------------------------------------------------------------
(* Sequences that grow                                                       *)

\* A sequence with one more element.
LEMMA AppendFacts ==
  ASSUME NEW A, NEW s \in Seq(A), NEW x \in A
  PROVE  /\ Len(s) \in Nat
         /\ Append(s, x) \in Seq(A) /\ Append(s, x) # <<>>
         /\ Len(Append(s, x)) = Len(s) + 1
         /\ \A i \in DOMAIN Append(s, x) :
              IF i = Len(s) + 1 THEN Append(s, x)[i] = x
              ELSE i \in DOMAIN s /\ Append(s, x)[i] = s[i]
<1>1. Len(s) \in Nat /\ DOMAIN s = 1..Len(s)
  OBVIOUS
<1>2. /\ Append(s, x) \in Seq(A) /\ Append(s, x) # <<>> /\ Len(Append(s, x)) = Len(s) + 1
      /\ \A i \in 1..Len(s) : Append(s, x)[i] = s[i]
      /\ Append(s, x)[Len(s) + 1] = x
  BY AppendProperties
<1>3. DOMAIN Append(s, x) = 1..(Len(s) + 1)
  BY <1>2
<1>4. ASSUME NEW i \in 1..(Len(s) + 1), i # Len(s) + 1 PROVE i \in 1..Len(s)
  BY <1>1, <1>4
<1> QED
  BY <1>1, <1>2, <1>3, <1>4

\* Joining to a longer sequence is joining and then appending.
LEMMA JoinAppend ==
  ASSUME NEW A, NEW s \in Seq(A), NEW t \in Seq(A), NEW x \in A
  PROVE  s \o Append(t, x) = Append(s \o t, x)
<1>1. s \o t \in Seq(A) /\ <<x>> \in Seq(A)
  OBVIOUS
<1>2. Append(t, x) = t \o <<x>> /\ Append(s \o t, x) = (s \o t) \o <<x>>
  BY <1>1, AppendIsConcat
<1>3. (s \o t) \o <<x>> = s \o (t \o <<x>>)
  BY <1>1, ConcatAssociative
<1> QED
  BY <1>2, <1>3

-------------------------------------------------------------------------------
(* Concatenations                                                            *)

Joins(P, ss) ==
  /\ P[0] = <<>>
  /\ \A i \in 1..Len(ss) : P[i] = P[i-1] \o ss[i]

\* The concatenations of the beginnings of some sequences.
LEMMA JoinsOfPrefixes ==
  ASSUME NEW A, NEW ss \in Seq(Seq(A))
  PROVE  \E P \in [0..Len(ss) -> Seq(A)] : Joins(P, ss)
<1> DEFINE n == Len(ss)
           step == [i \in 1..n |-> [s \in Seq(A) |-> s \o ss[i]]]
<1>1. n \in Nat /\ <<>> \in Seq(A)
  OBVIOUS
<1>2. step \in [1..n -> [Seq(A) -> Seq(A)]]
  <2>1. \A i \in 1..n : ss[i] \in Seq(A)
    OBVIOUS
  <2>2. \A i \in 1..n, s \in Seq(A) : s \o ss[i] \in Seq(A)
    BY <2>1
  <2> QED
    BY <2>2
<1>3. PICK P : Follows(P, Seq(A), n, <<>>, step)
  <2> HIDE DEF n, step
  <2> QED
    BY <1>1, <1>2, PrefixFunction, Zenon
<1>4. P \in [0..n -> Seq(A)] /\ P[0] = <<>>
  BY <1>3 DEF Follows
<1>5. ASSUME NEW i \in 1..n PROVE P[i] = P[i-1] \o ss[i]
  <2>1. P[i] = step[i][P[i-1]]
    BY <1>3 DEF Follows
  <2>2. i - 1 \in 0..n
    BY <1>1
  <2>3. P[i-1] \in Seq(A)
    BY <1>4, <2>2
  <2> QED
    BY <2>1, <2>3
<1> QED
  BY <1>4, <1>5 DEF Joins

\* FlattenSeq is the last of these concatenations.
LEMMA FlattenJoins ==
  ASSUME NEW A, NEW ss \in Seq(Seq(A)), NEW P \in [0..Len(ss) -> Seq(A)], Joins(P, ss)
  PROVE  FlattenSeq(ss) = P[Len(ss)]
<1> DEFINE n == Len(ss)
           Body(f) == [i \in 1..Len(ss) |-> IF i = 1 THEN ss[i] ELSE f[i-1] \o ss[i]]
           g == CHOOSE f : f = Body(f)
<1>1. n \in Nat
  OBVIOUS
<1>2. CASE n = 0
  BY <1>2 DEF FlattenSeq, Joins
<1>3. CASE n # 0
  <2>1. FlattenSeq(ss) = g[n]
    <3>1. FlattenSeq(ss) = IF n = 0 THEN ss ELSE g[n]
      BY Zenon DEF FlattenSeq
    <3> QED
      BY <1>3, <3>1, Zenon
  <2>2. \E f : f = Body(f)
    <3> DEFINE f == [i \in 1..Len(ss) |-> P[i]]
    <3>1. ASSUME NEW i \in 1..n PROVE f[i] = IF i = 1 THEN ss[i] ELSE f[i-1] \o ss[i]
      <4>1. P[i] = P[i-1] \o ss[i] /\ ss[i] \in Seq(A)
        BY DEF Joins
      <4>2. CASE i = 1
        <5>1. P[i-1] = <<>>
          BY <4>2 DEF Joins
        <5>2. <<>> \o ss[i] = ss[i]
          BY <4>1, ConcatEmptySeq
        <5> QED
          BY <4>1, <4>2, <5>1, <5>2
      <4>3. CASE i # 1
        <5>1. i - 1 \in 1..n
          BY <1>1, <4>3
        <5> QED
          BY <4>1, <4>3, <5>1
      <4> QED
        BY <4>2, <4>3
    <3>2. f = Body(f)
      BY <3>1
    <3> QED
      BY <3>2
  <2>3. g = Body(g)
    <3> HIDE DEF Body
    <3> QED
      BY <2>2
  <2>4. ASSUME NEW i \in 1..n PROVE g[i] = IF i = 1 THEN ss[i] ELSE g[i-1] \o ss[i]
    <3> HIDE DEF g
    <3> QED
      BY <2>3
  <2> HIDE DEF g
  <2> DEFINE T == {k \in Nat : k + 1 <= n => g[k+1] = P[k+1]}
  <2>5. 0 \in T
    <3>1. 1 \in 1..n /\ ss[1] \in Seq(A)
      BY <1>1, <1>3
    <3>2. P[1] = P[0] \o ss[1] /\ P[0] = <<>>
      <4>1. P[1] = P[1-1] \o ss[1] /\ P[0] = <<>>
        BY <3>1, Zenon DEF Joins
      <4>2. 1 - 1 = 0
        OBVIOUS
      <4> QED
        BY <4>1, <4>2
    <3>3. P[1] = ss[1]
      BY <3>1, <3>2, ConcatEmptySeq
    <3> QED
      BY <2>4, <3>1, <3>3
  <2>6. ASSUME NEW k \in Nat, k \in T PROVE k + 1 \in T
    <3>1. ASSUME (k + 1) + 1 <= n PROVE g[(k+1)+1] = P[(k+1)+1]
      <4>1. (k + 1) + 1 \in 1..n /\ (k + 1) + 1 # 1 /\ ((k + 1) + 1) - 1 = k + 1
        BY <1>1, <3>1
      <4>2. g[k+1] = P[k+1]
        BY <1>1, <2>6, <3>1
      <4>3. g[(k+1)+1] = g[k+1] \o ss[(k+1)+1]
        BY <2>4, <4>1
      <4>4. P[(k+1)+1] = P[k+1] \o ss[(k+1)+1]
        BY <4>1 DEF Joins
      <4> QED
        BY <4>2, <4>3, <4>4
    <3> QED
      BY <3>1
  <2> HIDE DEF T
  <2>7. \A k \in Nat : k \in T
    BY <2>5, <2>6, NaturalInduction, Zenon
  <2>8. g[n] = P[n]
    <3>1. n - 1 \in T /\ (n - 1) + 1 = n /\ n <= n
      BY <1>1, <1>3, <2>7
    <3> QED
      BY <3>1 DEF T
  <2> QED
    BY <2>1, <2>8
<1> QED
  BY <1>2, <1>3

\* The concatenation of sequences over a set is a sequence over it.
LEMMA FlattenType ==
  ASSUME NEW A, NEW ss \in Seq(Seq(A))
  PROVE  FlattenSeq(ss) \in Seq(A)
<1>1. PICK P \in [0..Len(ss) -> Seq(A)] : Joins(P, ss)
  BY JoinsOfPrefixes, Zenon
<1>2. FlattenSeq(ss) = P[Len(ss)]
  BY <1>1, FlattenJoins
<1> QED
  BY <1>2

\* The concatenation of sequences and one more ends in that one.
LEMMA FlattenOfAppend ==
  ASSUME NEW A, NEW ss \in Seq(Seq(A)), NEW s \in Seq(A)
  PROVE  FlattenSeq(Append(ss, s)) = FlattenSeq(ss) \o s
<1> DEFINE n == Len(ss)
           tt == Append(ss, s)
<1>1. n \in Nat /\ tt \in Seq(Seq(A)) /\ Len(tt) = n + 1 /\ tt[n+1] = s /\ \A i \in 1..n : tt[i] = ss[i]
  BY AppendProperties
<1> HIDE DEF tt
<1>2. PICK P \in [0..Len(tt) -> Seq(A)] : Joins(P, tt)
  BY <1>1, JoinsOfPrefixes, Zenon
<1> DEFINE Q == [i \in 0..n |-> P[i]]
<1>3. Q \in [0..n -> Seq(A)]
  BY <1>1
<1>4. Joins(Q, ss)
  <2>1. Q[0] = <<>>
    BY <1>1, <1>2 DEF Joins
  <2>2. ASSUME NEW i \in 1..n PROVE Q[i] = Q[i-1] \o ss[i]
    <3>1. i \in 1..Len(tt) /\ i \in 0..n /\ i - 1 \in 0..n
      BY <1>1
    <3>2. P[i] = P[i-1] \o tt[i]
      BY <1>2, <3>1 DEF Joins
    <3> QED
      BY <1>1, <3>1, <3>2
  <2> HIDE DEF Q
  <2> QED
    BY <2>1, <2>2 DEF Joins
<1>5. FlattenSeq(ss) = P[n]
  <2>1. Q[n] = P[n]
    BY <1>1
  <2> HIDE DEF Q
  <2> QED
    BY <1>3, <1>4, <2>1, FlattenJoins
<1>6. FlattenSeq(tt) = P[n+1]
  BY <1>1, <1>2, FlattenJoins
<1>7. P[n+1] = P[n] \o s
  <2>1. n + 1 \in 1..Len(tt) /\ (n + 1) - 1 = n
    BY <1>1
  <2> QED
    BY <1>1, <1>2, <2>1 DEF Joins
<1> QED
  BY <1>5, <1>6, <1>7 DEF tt

\* The concatenation of no sequences is empty.
LEMMA FlattenOfNone == FlattenSeq(<<>>) = <<>>
  BY DEF FlattenSeq
=============================================================================
