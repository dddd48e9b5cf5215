--------------------------- MODULE CountingLemmas ---------------------------
(***************************************************************************)
(* Facts on sequences and finite sets that the proofs about the pools'     *)
(* priorities (PoolControlProofs), the queue of works (StagedWorkProofs)   *)
(* and the quotas (PoolQuotaProofs) need.                                  *)
(***************************************************************************)
EXTENDS Integers, SequencesExt, FiniteSetTheorems, SequenceTheorems, TLAPS

\* The least of a set of natural numbers is one of them (the searches of the
\* code for the first pool or work that will do).
LEMMA MinInSet ==
  ASSUME NEW S \in SUBSET Nat, S # {}
  PROVE  Min(S) \in S
<1>1. PICK m \in S : \A k \in S : <<k, m>> \notin OpToRel(<, Nat)
  BY WFMin, NatLessThanWellFounded, Zenon
<1>2. \A k \in S : ~(k < m)
  BY <1>1 DEF OpToRel
<1>3. \E m_1 \in S : \A k \in S : m_1 <= k
  BY <1>2
<1>. QED BY <1>3 DEF Min

-----------------------------------------------------------------------------
(* Ranks.                                                                  *)

\* For each p of R, how many of the others come before it by pr.
Rank(R, pr) == [p \in R |-> Cardinality({q \in R : pr[q] < pr[p]})]

\* When no two have the same number, these are the numbers from 0 on.
LEMMA Ranks ==
  ASSUME NEW R, IsFiniteSet(R), NEW pr, \A p \in R : pr[p] \in Int,
         \A p, q \in R : pr[p] = pr[q] => p = q
  PROVE  /\ \A p \in R : Rank(R, pr)[p] \in 0 .. Cardinality(R) - 1
         /\ \A i \in 0 .. Cardinality(R) - 1 : \E p \in R : Rank(R, pr)[p] = i
<1>. DEFINE before(p) == {q \in R : pr[q] < pr[p]}
<1>1. PICK n \in Nat : n = Cardinality(R)
  BY FS_CardinalityType
<1>2. PICK rank : rank = Rank(R, pr)
  OBVIOUS
<1>3. ASSUME NEW p \in R
      PROVE  /\ IsFiniteSet(before(p)) /\ rank[p] = Cardinality(before(p))
             /\ rank[p] \in 0 .. n - 1
  <2>1. before(p) \subseteq R \ {p}
    OBVIOUS
  <2>2. IsFiniteSet(R \ {p}) /\ Cardinality(R \ {p}) = n - 1
    BY <1>1, FS_RemoveElement
  <2>3. IsFiniteSet(before(p)) /\ Cardinality(before(p)) <= n - 1
    BY <2>1, <2>2, FS_Subset
  <2>4. Cardinality(before(p)) \in Nat
    BY <2>3, FS_CardinalityType
  <2>5. rank[p] = Cardinality(before(p))
    BY <1>2 DEF Rank
  <2>. HIDE DEF before
  <2>. QED BY ONLY <2>3, <2>4, <2>5, n \in Nat
<1>4. ASSUME NEW p \in R, NEW q \in R, pr[p] < pr[q]
      PROVE  rank[p] < rank[q]
  <2>1. before(p) \cup {p} \subseteq before(q) /\ p \notin before(p)
    BY <1>4
  <2>2. Cardinality(before(p) \cup {p}) = Cardinality(before(p)) + 1
    BY <1>3, <2>1, FS_AddElement
  <2>3. Cardinality(before(p) \cup {p}) <= Cardinality(before(q))
    BY <1>3, <2>1, FS_Subset
  <2>4. /\ rank[p] \in 0 .. n - 1 /\ rank[p] = Cardinality(before(p))
        /\ rank[q] \in 0 .. n - 1 /\ rank[q] = Cardinality(before(q))
    BY <1>3
  <2>. HIDE DEF before
  <2>. QED BY ONLY <2>2, <2>3, <2>4, n \in Nat
<1>5. ASSUME NEW p \in R, NEW q \in R, rank[p] = rank[q]
      PROVE  p = q
  <2>1. rank[p] \in 0 .. n - 1 /\ rank[q] \in 0 .. n - 1
    BY <1>3
  <2>2. \A x, y \in R : pr[x] < pr[y] => rank[x] < rank[y]
    BY <1>4
  <2>3. ~(pr[p] < pr[q]) /\ ~(pr[q] < pr[p])
    BY ONLY <1>5, <2>1, <2>2, p \in R, q \in R, n \in Nat
  <2>. QED BY <2>3
<1>6. rank \in Injection(R, 0 .. n - 1)
  <2>1. rank \in [R -> 0 .. n - 1]
    <3>1. /\ \A p \in R : rank[p] \in 0 .. n - 1
          /\ rank = [p \in R |-> rank[p]]
      BY <1>2, <1>3 DEF Rank
    <3>. QED BY <3>1
  <2>. QED BY <1>5, <2>1 DEF Injection, IsInjective
<1>7. IsFiniteSet(0 .. n - 1) /\ Cardinality(0 .. n - 1) = n
  BY ONLY n \in Nat, FS_Interval
<1>8. rank \in Surjection(R, 0 .. n - 1)
  BY <1>1, <1>6, <1>7, FS_Injection
<1>9. /\ \A p \in R : rank[p] \in 0 .. n - 1
      /\ \A i \in 0 .. n - 1 : \E p \in R : rank[p] = i
  BY <1>3, <1>8 DEF Surjection
<1>. QED BY <1>1, <1>2, <1>9

-----------------------------------------------------------------------------
(* Counting the entries of a sequence.                                     *)

At(s, P, K) == {i \in P : s[i] \in K}
Positions(s, K) == At(s, DOMAIN s, K)
Count(s, K) == Cardinality(Positions(s, K))

\* The places of a sequence can be counted.
LEMMA PositionsFinite ==
  ASSUME NEW S, NEW s \in Seq(S), NEW P \in SUBSET DOMAIN s
  PROVE  IsFiniteSet(P) /\ Cardinality(P) \in Nat
<1>1. DOMAIN s = 1 .. Len(s) /\ Len(s) \in Nat
  BY LenProperties
<1>2. IsFiniteSet(1 .. Len(s))
  BY <1>1, FS_Interval
<1>. QED BY <1>1, <1>2, FS_Subset, FS_CardinalityType

\* So can the entries of a kind.
LEMMA CountType ==
  ASSUME NEW S, NEW s \in Seq(S), NEW K
  PROVE  /\ IsFiniteSet(Positions(s, K))
         /\ Count(s, K) \in Nat /\ Count(s, K) <= Len(s)
         /\ (Count(s, K) = 0 <=> \A i \in DOMAIN s : s[i] \notin K)
<1>1. DOMAIN s = 1 .. Len(s) /\ Len(s) \in Nat
  BY LenProperties
<1>2. IsFiniteSet(1 .. Len(s)) /\ Cardinality(1 .. Len(s)) = Len(s)
  BY <1>1, FS_Interval
<1>3. Positions(s, K) \subseteq 1 .. Len(s)
  BY <1>1 DEF Positions, At
<1>4. /\ IsFiniteSet(Positions(s, K)) /\ Cardinality(Positions(s, K)) \in Nat
      /\ Cardinality(Positions(s, K)) <= Len(s)
  BY <1>2, <1>3, FS_Subset, FS_CardinalityType
<1>5. Cardinality(Positions(s, K)) = 0 <=> Positions(s, K) = {}
  BY <1>4, FS_EmptySet
<1>. QED BY <1>4, <1>5 DEF Count, Positions, At

\* An entry put in at place i: what is where.
LEMMA Inserted ==
  ASSUME NEW S, NEW s \in Seq(S), NEW e \in S, NEW i \in 1 .. Len(s) + 1
  PROVE  /\ InsertAt(s, i, e) \in Seq(S)
         /\ Len(InsertAt(s, i, e)) = Len(s) + 1
         /\ DOMAIN InsertAt(s, i, e) = 1 .. Len(s) + 1
         /\ \A k \in 1 .. Len(s) + 1 :
              InsertAt(s, i, e)[k] = IF k < i THEN s[k]
                                     ELSE IF k = i THEN e ELSE s[k - 1]
<1>1. Len(s) \in Nat /\ DOMAIN s = 1 .. Len(s)
  BY LenProperties
<1>2. PICK a : a = SubSeq(s, 1, i - 1)
  OBVIOUS
<1>3. PICK b : b = SubSeq(s, i, Len(s))
  OBVIOUS
<1>4. /\ a \in Seq(S) /\ Len(a) = i - 1 /\ \A k \in 1 .. i - 1 : a[k] = s[k]
  BY <1>1, <1>2, SubSeqProperties
<1>5. /\ b \in Seq(S) /\ Len(b) = Len(s) - i + 1
      /\ \A k \in 1 .. Len(s) - i + 1 : b[k] = s[i + k - 1]
  BY <1>1, <1>3, SubSeqProperties
<1>6. PICK c : c = a \o <<e>>
  OBVIOUS
<1>7. <<e>> \in Seq(S) /\ Len(<<e>>) = 1 /\ <<e>>[1] = e
  OBVIOUS
<1>8. /\ c \in Seq(S) /\ Len(c) = i
      /\ \A k \in 1 .. i - 1 : c[k] = s[k]
      /\ c[i] = e
  <2>1. /\ c \in Seq(S) /\ Len(c) = Len(a) + 1
        /\ \A k \in 1 .. Len(a) + 1 : c[k] = IF k <= Len(a) THEN a[k] ELSE <<e>>[k - Len(a)]
    BY <1>4, <1>6, <1>7, ConcatProperties
  <2>. QED BY <1>4, <1>7, <2>1
<1>9. PICK d : d = c \o b
  OBVIOUS
<1>10. /\ d \in Seq(S) /\ Len(d) = Len(c) + Len(b)
       /\ \A k \in 1 .. Len(c) + Len(b) : d[k] = IF k <= Len(c) THEN c[k] ELSE b[k - Len(c)]
  BY <1>5, <1>8, <1>9, ConcatProperties
<1>11. d = InsertAt(s, i, e)
  BY <1>2, <1>3, <1>6, <1>9 DEF InsertAt
<1>12. Len(d) = Len(s) + 1 /\ DOMAIN d = 1 .. Len(s) + 1
  BY <1>1, <1>5, <1>8, <1>10, LenProperties
<1>13. ASSUME NEW k \in 1 .. Len(s) + 1
       PROVE  d[k] = IF k < i THEN s[k] ELSE IF k = i THEN e ELSE s[k - 1]
  <2>1. CASE k < i
    BY <1>1, <1>5, <1>8, <1>10, <2>1
  <2>2. CASE k = i
    BY <1>1, <1>5, <1>8, <1>10, <2>2
  <2>3. CASE k > i
    <3>1. d[k] = b[k - i] /\ k - i \in 1 .. Len(s) - i + 1
      BY <1>1, <1>5, <1>8, <1>10, <2>3
    <3>2. b[k - i] = s[i + (k - i) - 1]
      BY <1>5, <3>1
    <3>. QED BY <1>1, <2>3, <3>1, <3>2
  <2>. QED BY <1>1, <2>1, <2>2, <2>3
<1>. QED BY <1>10, <1>11, <1>12, <1>13

\* A sequence whose entries are those of s at the places P counts as many.
LEMMA CountMoved ==
  ASSUME NEW S, NEW s \in Seq(S), NEW P \in SUBSET DOMAIN s,
         NEW t, NEW from \in Bijection(DOMAIN t, P),
         \A k \in DOMAIN t : t[k] = s[from[k]], NEW K
  PROVE  Count(t, K) = Cardinality(At(s, P, K))
<1>. DEFINE A == At(s, P, K)
            B == Positions(t, K)
<1>1. IsFiniteSet(A)
  BY PositionsFinite DEF At
<1>2. PICK g : g = [k \in B |-> from[k]]
  OBVIOUS
<1>3. /\ from \in [DOMAIN t -> P]
      /\ \A j, k \in DOMAIN t : from[j] = from[k] => j = k
      /\ \A i \in P : \E k \in DOMAIN t : from[k] = i
  BY DEF Bijection, Injection, Surjection, IsInjective
<1>4. g \in [B -> A]
  BY <1>2, <1>3 DEF Positions, At
<1>5. \A j, k \in B : g[j] = g[k] => j = k
  BY <1>2, <1>3 DEF Positions, At
<1>6. \A i \in A : \E k \in B : g[k] = i
  BY <1>2, <1>3 DEF Positions, At
<1>7. g \in Bijection(B, A)
  BY <1>4, <1>5, <1>6 DEF Bijection, Injection, Surjection, IsInjective
<1>8. g \in Injection(B, A)
  BY <1>7 DEF Bijection
<1>9. IsFiniteSet(B) /\ Cardinality(B) = Cardinality(A)
  BY <1>1, <1>7, <1>8, FS_Injection DEF Bijection
<1>. QED BY <1>9 DEF Count

\* An entry that is put in counts for one.
LEMMA CountInserted ==
  ASSUME NEW S, NEW s \in Seq(S), NEW e \in S, NEW i \in 1 .. Len(s) + 1, NEW K
  PROVE  Count(InsertAt(s, i, e), K) = Count(s, K) + (IF e \in K THEN 1 ELSE 0)
<1>1. PICK n \in Nat : n = Len(s)
  BY LenProperties
<1>2. PICK t : t = InsertAt(s, i, e)
  OBVIOUS
<1>3. /\ t \in Seq(S) /\ DOMAIN t = 1 .. n + 1 /\ DOMAIN s = 1 .. n /\ i \in 1 .. n + 1
      /\ \A k \in 1 .. n + 1 : t[k] = IF k < i THEN s[k] ELSE IF k = i THEN e ELSE s[k - 1]
  <2>1. /\ InsertAt(s, i, e) \in Seq(S)
        /\ DOMAIN InsertAt(s, i, e) = 1 .. Len(s) + 1
        /\ \A k \in 1 .. Len(s) + 1 :
             InsertAt(s, i, e)[k] = IF k < i THEN s[k] ELSE IF k = i THEN e ELSE s[k - 1]
    BY Inserted
  <2>2. DOMAIN s = 1 .. Len(s)
    BY LenProperties
  <2>. QED BY <1>1, <1>2, <2>1, <2>2
<1>4. PICK from : from = [k \in 1 .. n |-> IF k < i THEN k ELSE k + 1]
  OBVIOUS
<1>5. PICK P : P = (1 .. n + 1) \ {i}
  OBVIOUS
<1>6. from \in Bijection(1 .. n, P)
  <2>1. from \in [1 .. n -> P]
    BY <1>3, <1>4, <1>5
  <2>2. \A j, k \in 1 .. n : from[j] = from[k] => j = k
    BY <1>3, <1>4
  <2>3. ASSUME NEW l \in P PROVE \E k \in 1 .. n : from[k] = l
    <3>1. CASE l < i
      <4>1. l \in 1 .. n
        BY <1>3, <1>5, <3>1
      <4>. QED BY <1>4, <3>1, <4>1
    <3>2. CASE ~(l < i)
      <4>1. l - 1 \in 1 .. n /\ ~(l - 1 < i) /\ (l - 1) + 1 = l
        BY <1>3, <1>5, <3>2
      <4>. QED BY <1>4, <4>1
    <3>. QED BY <3>1, <3>2
  <2>. QED BY <2>1, <2>2, <2>3 DEF Bijection, Injection, Surjection, IsInjective
<1>7. \A k \in 1 .. n : s[k] = t[from[k]]
  <2>. TAKE k \in 1 .. n
  <2>1. CASE k < i
    BY <1>3, <1>4, <2>1
  <2>2. CASE ~(k < i)
    <3>1. k + 1 \in 1 .. n + 1 /\ ~(k + 1 < i) /\ k + 1 # i /\ (k + 1) - 1 = k
      BY <1>3, <2>2
    <3>2. t[k + 1] = s[(k + 1) - 1]
      BY <1>3, <3>1
    <3>. QED BY <1>4, <2>2, <3>1, <3>2
  <2>. QED BY <2>1, <2>2
<1>8. Count(s, K) = Cardinality(At(t, P, K))
  <2>1. P \in SUBSET DOMAIN t /\ from \in Bijection(DOMAIN s, P)
    BY <1>3, <1>5, <1>6
  <2>2. \A k \in DOMAIN s : s[k] = t[from[k]]
    BY <1>3, <1>7
  <2>3. t \in Seq(S)
    BY <1>3
  <2>. QED BY ONLY <2>1, <2>2, <2>3, CountMoved, Zenon
<1>9. t[i] = e
  BY <1>3
<1>10. IsFiniteSet(At(t, P, K)) /\ Cardinality(At(t, P, K)) \in Nat
  <2>1. At(t, P, K) \in SUBSET DOMAIN t
    BY <1>3, <1>5 DEF At
  <2>. QED BY <1>3, <2>1, PositionsFinite
<1>11. CASE e \in K
  <2>1. Positions(t, K) = At(t, P, K) \cup {i}
    BY <1>3, <1>5, <1>9, <1>11 DEF Positions, At
  <2>2. i \notin At(t, P, K)
    BY <1>5 DEF At
  <2>3. Count(t, K) = Cardinality(At(t, P, K)) + 1
    BY <1>10, <2>1, <2>2, FS_AddElement DEF Count
  <2>. QED BY <1>2, <1>8, <1>11, <2>3
<1>12. CASE e \notin K
  <2>1. Positions(t, K) = At(t, P, K)
    BY <1>3, <1>5, <1>9, <1>12 DEF Positions, At
  <2>2. Count(t, K) = Cardinality(At(t, P, K))
    BY <2>1 DEF Count
  <2>. QED BY <1>2, <1>8, <1>10, <1>12, <2>2
<1>. QED BY <1>11, <1>12

\* Where the entries of a sequence come from when only those at the places P are left.
LEMMA LeftOver ==
  ASSUME NEW P \in SUBSET Nat, IsFiniteSet(P),
         NEW from, from = [k \in 1 .. Cardinality(P) |->
                             CHOOSE i \in P : Cardinality({j \in P : j < i}) = k - 1]
  PROVE  from \in Bijection(1 .. Cardinality(P), P)
<1>1. PICK n \in Nat : n = Cardinality(P)
  BY FS_CardinalityType
<1>2. PICK id : id = [i \in P |-> i]
  OBVIOUS
<1>3. PICK rank : rank = Rank(P, id)
  OBVIOUS
<1>4. ASSUME NEW i \in P
      PROVE  rank[i] = Cardinality({j \in P : j < i})
  <2>1. {j \in P : id[j] < id[i]} = {j \in P : j < i}
    BY <1>2
  <2>. QED BY <1>3, <2>1 DEF Rank
<1>5. /\ \A i \in P : rank[i] \in 0 .. n - 1
      /\ \A k \in 0 .. n - 1 : \E i \in P : rank[i] = k
  <2>1. \A i \in P : id[i] \in Int
    BY <1>2
  <2>2. \A i, j \in P : id[i] = id[j] => i = j
    BY <1>2
  <2>3. /\ \A i \in P : Rank(P, id)[i] \in 0 .. Cardinality(P) - 1
        /\ \A k \in 0 .. Cardinality(P) - 1 : \E i \in P : Rank(P, id)[i] = k
    <3>1. PICK R : R = P
      OBVIOUS
    <3>2. IsFiniteSet(R) /\ \A i \in R : id[i] \in Int
      BY <2>1, <3>1
    <3>3. \A i, j \in R : id[i] = id[j] => i = j
      BY <2>2, <3>1
    <3>4. /\ \A i \in R : Rank(R, id)[i] \in 0 .. Cardinality(R) - 1
          /\ \A k \in 0 .. Cardinality(R) - 1 : \E i \in R : Rank(R, id)[i] = k
      BY ONLY <3>2, <3>3, Ranks
    <3>. QED BY <3>1, <3>4
  <2>. QED BY <1>1, <1>3, <2>3
<1>6. rank \in Surjection(P, 0 .. n - 1)
  <2>1. rank \in [P -> 0 .. n - 1]
    <3>1. rank = [i \in P |-> rank[i]]
      BY <1>3 DEF Rank
    <3>. QED BY <1>5, <3>1
  <2>. QED BY <1>5, <2>1 DEF Surjection
<1>7. \A i, j \in P : rank[i] = rank[j] => i = j
  <2>1. Cardinality(0 .. n - 1) = n
    BY FS_Interval
  <2>2. rank \in Injection(P, 0 .. n - 1)
    BY <1>1, <1>6, <2>1, FS_SurjSameCardinalityImpliesInj
  <2>. QED BY <2>2 DEF Injection, IsInjective
<1>8. ASSUME NEW k \in 1 .. n
      PROVE  from[k] \in P /\ rank[from[k]] = k - 1
  <2>1. k - 1 \in 0 .. n - 1
    OBVIOUS
  <2>2. \E i \in P : Cardinality({j \in P : j < i}) = k - 1
    BY <1>4, <1>5, <2>1
  <2>3. from[k] = CHOOSE i \in P : Cardinality({j \in P : j < i}) = k - 1
    BY <1>1
  <2>4. from[k] \in P /\ Cardinality({j \in P : j < from[k]}) = k - 1
    BY <2>2, <2>3
  <2>. QED BY <1>4, <2>4
<1>9. from \in [1 .. n -> P]
  BY <1>1, <1>8
<1>10. \A j, k \in 1 .. n : from[j] = from[k] => j = k
  <2>. SUFFICES ASSUME NEW j \in 1 .. n, NEW k \in 1 .. n, from[j] = from[k]
                PROVE  j = k
    OBVIOUS
  <2>1. j - 1 = k - 1
    BY <1>8
  <2>. QED BY <2>1
<1>11. ASSUME NEW i \in P
       PROVE  \E k \in 1 .. n : from[k] = i
  <2>1. PICK k \in 1 .. n : k - 1 = rank[i]
    <3>1. rank[i] \in 0 .. n - 1
      BY <1>5
    <3>2. rank[i] + 1 \in 1 .. n /\ (rank[i] + 1) - 1 = rank[i]
      BY <3>1
    <3>. QED BY <3>2
  <2>2. rank[from[k]] = rank[i] /\ from[k] \in P
    BY <1>8, <2>1
  <2>. QED BY <1>7, <2>2
<1>. QED BY <1>1, <1>9, <1>10, <1>11
     DEF Bijection, Injection, Surjection, IsInjective
=============================================================================
