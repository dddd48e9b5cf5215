-------------------------- MODULE PoolQuotaProofs --------------------------
(***************************************************************************)
(* Safety of the load balance strategy, for any pools, quotas, algorithms  *)
(* and widths of integers: a round gives each pool its quota, whatever     *)
(* pools die and come back in it.                                          *)
(*                                                                         *)
(* The argument is an account of the round.  Nothing is spent beyond a     *)
(* pool's quota; what a pool has spent and not given as works it was dead  *)
(* for; and, failover-only, the first pool has been given back just those  *)
(* units.  So when everything is spent, what each has given is known.      *)
(***************************************************************************)
EXTENDS PoolQuota, CountingLemmas

-----------------------------------------------------------------------------
(* Numbers.                                                                *)

\* Zero and one are ints.
LEMMA HalfType == Half \in Nat /\ Half > 1
BY QuotaAssumption

\* A number is brought into the range of an int, and is itself if it is there.
LEMMA IntType ==
  ASSUME NEW x \in Int
  PROVE  /\ Int_(x) \in -Half .. Half - 1
         /\ x \in -Half .. Half - 1 => Int_(x) = x
<1>1. Half \in Nat /\ Half > 1
  BY HalfType
<1>2. PICK m \in Nat : m = 2 * Half /\ m > 0
  BY <1>1
<1>3. \A y \in Int : y % m \in 0 .. m - 1 /\ (y \in 0 .. m - 1 => y % m = y)
  BY <1>2
<1>. QED BY <1>1, <1>2, <1>3 DEF Int_

\* Dividing a natural number makes it no larger (quota / gcd).
LEMMA DivBound ==
  ASSUME NEW x \in Nat, NEW y \in Nat \ {0}
  PROVE  x \div y \in 0 .. x
OBVIOUS

\* The divisors of adjust_quota_gcd are positive, so nothing is divided by zero there.
LEMMA DivisorsPositive ==
  ASSUME NEW q \in [Pools -> Nat]
  PROVE  Divisors(q) \subseteq Nat \ {0}
<1>. DEFINE lowest == IF {q[p] : p \in Pools} \ {0} = {} THEN 1
                      ELSE Min({q[p] : p \in Pools} \ {0})
<1>0. lowest \in Nat
  <2>. DEFINE quotas == {q[p] : p \in Pools} \ {0}
  <2>1. quotas \in SUBSET Nat
    OBVIOUS
  <2>2. quotas # {} => Min(quotas) \in quotas
    <3>. HIDE DEF quotas
    <3>. QED BY <2>1, MinInSet
  <2>. QED BY <2>1, <2>2
<1>1. ASSUME NEW g \in Divisors(q)
      PROVE  g \in 1 .. lowest
  <2>1. PICK gcd \in [0 .. N -> 1 .. lowest] : g = gcd[N]
    BY <1>1 DEF Divisors
  <2>. HIDE DEF lowest
  <2>2. N \in 0 .. N
    BY QuotaAssumption, LenProperties DEF N
  <2>. QED BY <1>0, <2>1, <2>2
<1>. HIDE DEF lowest
<1>. QED BY <1>0, <1>1

\* What is spent by adjust_quota_gcd stays an int, though it multiplies and divides.
LEMMA RescaledType ==
  ASSUME NEW x \in Int, NEW gcd \in Nat \ {0}, global_quota_gcd \in Nat \ {0}
  PROVE  Rescaled(x, gcd) \in -Half .. Half - 1
<1>1. PICK m \in Nat \ {0} : m = 4 * Half * Half
  BY HalfType
<1>2. \A y \in Int : ULong(y) \in Nat
  <2>1. \A y \in Int : y % m \in Nat
    BY <1>1
  <2>. QED BY <1>1, <2>1 DEF ULong
<1>3. x * global_quota_gcd \in Int
  OBVIOUS
<1>4. ULong(Int_(ULong(x * global_quota_gcd))) \in Nat
  BY <1>2, <1>3, IntType
<1>5. ULong(Int_(ULong(x * global_quota_gcd))) \div gcd \in Int
  BY <1>4, DivBound
<1>. QED BY <1>5, IntType DEF Rescaled

-----------------------------------------------------------------------------
(* The pools.                                                              *)

\* The array of the pools has each of them.
LEMMA PoolsInOrder ==
  /\ N \in Nat /\ N > 0 /\ First \in Pools
  /\ \A i \in 1 .. N : Order[i] \in Pools
  /\ \A p \in Pools : \E i \in 1 .. N : Order[i] = p
  /\ IsFiniteSet(Pools) /\ NoPool \notin Pools
<1>1. /\ Order \in Seq(Pools) /\ Pools # {} /\ NoPool \notin Pools
      /\ {Order[i] : i \in DOMAIN Order} = Pools
  BY QuotaAssumption DEF ToSet
<1>2. N \in Nat /\ DOMAIN Order = 1 .. N
  BY <1>1, LenProperties DEF N
<1>3. \A p \in Pools : \E i \in 1 .. N : Order[i] = p
  BY <1>1, <1>2
<1>4. \A i \in 1 .. N : Order[i] \in Pools
  BY <1>1, <1>2
<1>5. N > 0
  BY <1>1, <1>2, <1>3
<1>6. First \in Pools
  BY <1>2, <1>4, <1>5 DEF First
<1>7. IsFiniteSet(Pools)
  <2>1. Order \in Surjection(1 .. N, Pools)
    BY <1>2, <1>3, <1>4, <1>1 DEF Surjection
  <2>. QED BY <1>2, <2>1, FS_Interval, FS_Surjection
<1>. QED BY <1>1, <1>2, <1>3, <1>4, <1>5, <1>6, <1>7

\* The turns of the pools count from 0.
LEMMA TurnType ==
  ASSUME NEW from \in 1 .. N, NEW p \in Pools
  PROVE  Turn(from, p) \in Nat
<1>1. PICK i : i = CHOOSE j \in 1 .. N : Order[j] = p
  OBVIOUS
<1>2. i \in 1 .. N
  BY <1>1, PoolsInOrder
<1>3. N \in Nat \ {0}
  BY PoolsInOrder
<1>4. i - from + N \in Nat /\ (i - from + N) % N \in Nat
  BY <1>2, <1>3
<1>. QED BY <1>1, <1>4 DEF Turn

\* Among some pools there is one whose turn comes first.
LEMMA FirstTurn ==
  ASSUME NEW from \in 1 .. N, NEW S \in SUBSET Pools, S # {}
  PROVE  \E p \in S : \A q \in S : Turn(from, p) <= Turn(from, q)
<1>. DEFINE T == {Turn(from, p) : p \in S}
<1>1. T \in SUBSET Nat /\ T # {}
  BY TurnType
<1>2. PICK m \in T : \A k \in T : <<k, m>> \notin OpToRel(<, Nat)
  <2>. HIDE DEF T
  <2>. QED BY <1>1, WFMin, NatLessThanWellFounded, Zenon
<1>3. \A k \in T : m <= k
  <2>. HIDE DEF T
  <2>1. \A k \in T : ~(k < m)
    BY <1>1, <1>2 DEF OpToRel
  <2>. QED BY <1>1, <2>1
<1>. QED BY <1>3

-----------------------------------------------------------------------------
(* A search.                                                               *)

Ints == -Half .. Half - 1

\* Only the first pool is ever given anything back.
LEMMA ReturnedType ==
  ASSUME NEW malgo, NEW used, NEW from, NEW p \in Pools
  PROVE  /\ Returned(malgo, used, from, p) \in Nat
         /\ p # First \/ ~opt_fail_only => Returned(malgo, used, from, p) = 0
<1>. DEFINE R == {q \in Pools \ {First} :
                    /\ OfAlgo(malgo, q) /\ Unworkable(q) /\ used[q] < quota_gcd[q]
                    /\ Turn(from, q) < Turn(from, First)}
<1>1. Cardinality(R) \in Nat
  BY PoolsInOrder, FS_Subset, FS_CardinalityType
<1>. QED BY <1>1 DEF Returned

\* The pool that is found is the first, of those that are usable and have quota left.
LEMMA FoundProperties ==
  ASSUME NEW malgo, NEW used, NEW from \in 1 .. N,
         NEW found, found = Found(malgo, used, from)
  PROVE  /\ found \in Pools \cup {NoPool}
         /\ found # NoPool =>
              /\ OfAlgo(malgo, found) /\ ~Unworkable(found)
              /\ AtTurn(malgo, used, from, found) < quota_gcd[found]
         /\ \A p \in Pools :
              OfAlgo(malgo, p) /\ ~Unworkable(p)
              /\ AtTurn(malgo, used, from, p) < quota_gcd[p]
              => found # NoPool /\ Turn(from, found) <= Turn(from, p)
<1>. DEFINE usable == {p \in Pools : /\ OfAlgo(malgo, p) /\ ~Unworkable(p)
                                     /\ AtTurn(malgo, used, from, p) < quota_gcd[p]}
<1>1. found = IF usable = {} THEN NoPool
              ELSE CHOOSE p \in usable : \A q \in usable : Turn(from, p) <= Turn(from, q)
  BY Zenon DEF Found
<1>2. usable \in SUBSET Pools
  OBVIOUS
<1>3. usable # {} => found \in usable /\ \A q \in usable : Turn(from, found) <= Turn(from, q)
  <2>. HIDE DEF usable
  <2>. QED BY <1>1, <1>2, FirstTurn
<1>. QED BY <1>1, <1>3, PoolsInOrder

\* A pool that is passed over with quota left is dead, and not the one that is found.
LEMMA DeadProperties ==
  ASSUME NEW malgo, NEW used, NEW from \in 1 .. N,
         NEW found, found = Found(malgo, used, from),
         NEW dead, dead = Dead(malgo, used, from, found)
  PROVE  /\ dead \subseteq Pools /\ found \notin dead
         /\ IsFiniteSet(dead) /\ Cardinality(dead) \in Nat
         /\ (dead = {} <=> Cardinality(dead) = 0)
         /\ \A p \in dead : Unworkable(p)
         /\ \A p \in Pools : p \in dead <=>
              /\ OfAlgo(malgo, p) /\ AtTurn(malgo, used, from, p) < quota_gcd[p]
              /\ found # NoPool => Turn(from, p) < Turn(from, found)
<1>1. /\ dead \subseteq Pools
      /\ \A p \in Pools : p \in dead <=>
           /\ OfAlgo(malgo, p) /\ AtTurn(malgo, used, from, p) < quota_gcd[p]
           /\ found # NoPool => Turn(from, p) < Turn(from, found)
  BY DEF Dead, PassedOver
<1>2. \A p \in dead : Unworkable(p)
  <2>. SUFFICES ASSUME NEW p \in dead, ~Unworkable(p) PROVE FALSE
    OBVIOUS
  <2>1. found # NoPool /\ Turn(from, found) <= Turn(from, p)
    BY <1>1, FoundProperties
  <2>2. Turn(from, p) < Turn(from, found) /\ found \in Pools /\ p \in Pools
    BY <1>1, <2>1, FoundProperties
  <2>. QED BY <2>1, <2>2, TurnType
<1>3. found \notin dead
  <2>1. CASE found = NoPool
    BY <1>1, <2>1, PoolsInOrder
  <2>2. CASE found # NoPool
    BY <1>2, <2>2, FoundProperties
  <2>. QED BY <2>1, <2>2
<1>4. IsFiniteSet(dead) /\ Cardinality(dead) \in Nat
  BY <1>1, PoolsInOrder, FS_Subset, FS_CardinalityType
<1>5. dead = {} <=> Cardinality(dead) = 0
  BY <1>4, FS_EmptySet
<1>. QED BY <1>1, <1>2, <1>3, <1>4, <1>5

\* What the search spends, as long as the counts stay those of the round.
LEMMA SpentProperties ==
  ASSUME NEW malgo, NEW used \in [Pools -> Ints], NEW from \in 1 .. N,
         quota_gcd \in [Pools -> 0 .. Half - 1], opt_fail_only \in BOOLEAN,
         \A p \in Pools : used[p] <= quota_gcd[p],
         NEW found, found = Found(malgo, used, from),
         NEW dead, dead = Dead(malgo, used, from, found),
         ~Underflows(used, dead)
  PROVE  \A p \in Pools :
           /\ Spent(used, found, dead)[p] <= quota_gcd[p]
           /\ Spent(used, found, dead)[p] =
                used[p] + (IF p \in dead \cup {found} THEN 1 ELSE 0)
                        - (IF p = First /\ opt_fail_only THEN Cardinality(dead) ELSE 0)
<1>. DEFINE own(p) == IF p \in dead \cup {found} THEN 1 ELSE 0
            exact(p) == used[p] + own(p)
                        - (IF p = First /\ opt_fail_only THEN Cardinality(dead) ELSE 0)
<1>0. Half \in Nat \ {0} /\ First \in Pools
  BY HalfType, PoolsInOrder
<1>1. Cardinality(dead) \in Nat
  BY DeadProperties
<1>2. ASSUME NEW p \in dead \cup {found}, p \in Pools
      PROVE  AtTurn(malgo, used, from, p) < quota_gcd[p]
  <2>1. CASE p \in dead
    BY <1>2, <2>1, DeadProperties
  <2>2. CASE p = found
    BY <1>2, <2>2, FoundProperties, PoolsInOrder
  <2>. QED BY <1>2, <2>1, <2>2
<1>3. ASSUME NEW p \in Pools, p # First \/ ~opt_fail_only
      PROVE  exact(p) \in Ints /\ exact(p) <= quota_gcd[p]
  <2>1. AtTurn(malgo, used, from, p) = used[p]
    <3>1. Returned(malgo, used, from, p) = 0 /\ used[p] \in Ints
      BY <1>3, ReturnedType
    <3>. QED BY <1>0, <3>1, IntType DEF AtTurn, Ints
  <2>2. used[p] \in Ints /\ quota_gcd[p] \in 0 .. Half - 1 /\ used[p] <= quota_gcd[p]
    OBVIOUS
  <2>3. exact(p) = used[p] + own(p)
    BY <1>0, <1>3, <2>2 DEF Ints
  <2>4. CASE p \in dead \cup {found}
    BY <1>0, <1>2, <2>1, <2>2, <2>3, <2>4 DEF Ints
  <2>5. CASE p \notin dead \cup {found}
    BY <1>0, <2>2, <2>3, <2>5 DEF Ints
  <2>. QED BY <2>4, <2>5
<1>4. ASSUME opt_fail_only
      PROVE  exact(First) \in Ints /\ exact(First) <= quota_gcd[First]
  <2>1. /\ used[First] \in Ints /\ quota_gcd[First] \in 0 .. Half - 1
        /\ used[First] <= quota_gcd[First]
    BY <1>0
  <2>2. used[First] - Cardinality(dead) >= -Half
    BY <1>0, <1>1, <1>4, <2>1 DEF Underflows, Ints
  <2>3. exact(First) = used[First] + own(First) - Cardinality(dead)
    BY <1>4
  <2>4. CASE First \in dead
    <3>1. Cardinality(dead) >= 1
      BY <1>1, <2>4, DeadProperties
    <3>2. own(First) = 1
      BY <2>4
    <3>. QED BY <1>0, <1>1, <2>1, <2>2, <2>3, <3>1, <3>2 DEF Ints
  <2>5. CASE First = found
    <3>. DEFINE R == {q \in Pools \ {First} :
                    /\ OfAlgo(malgo, q) /\ Unworkable(q) /\ used[q] < quota_gcd[q]
                    /\ Turn(from, q) < Turn(from, First)}
    <3>1. found # NoPool /\ First \notin dead
      BY <2>5, <1>0, PoolsInOrder, DeadProperties
    <3>2. ASSUME NEW q \in Pools, q # First
          PROVE  AtTurn(malgo, used, from, q) = used[q]
      <4>1. Returned(malgo, used, from, q) = 0 /\ used[q] \in Ints
        BY <3>2, ReturnedType
      <4>. QED BY <1>0, <4>1, IntType DEF AtTurn, Ints
    <3>3. dead = R
      <4>1. \A q \in Pools \ {First} : q \in dead <=> q \in R
        BY <2>5, <3>1, <3>2, DeadProperties
      <4>2. dead \subseteq Pools /\ R \subseteq Pools \ {First}
        BY DeadProperties
      <4>. QED BY <3>1, <4>1, <4>2
    <3>4. Returned(malgo, used, from, First) = Cardinality(dead)
      BY <1>4, <3>3 DEF Returned
    <3>5. AtTurn(malgo, used, from, First) = used[First] - Cardinality(dead)
      BY <1>0, <1>1, <2>1, <2>2, <3>4, IntType DEF AtTurn, Ints
    <3>6. used[First] - Cardinality(dead) < quota_gcd[First]
      BY <1>0, <1>2, <2>5, <3>5
    <3>. QED BY <1>0, <1>1, <2>1, <2>2, <2>3, <2>5, <3>6 DEF Ints
  <2>6. CASE First \notin dead \cup {found}
    BY <1>0, <1>1, <2>1, <2>2, <2>3, <2>6 DEF Ints
  <2>. QED BY <2>4, <2>5, <2>6
<1>5. ASSUME NEW p \in Pools
      PROVE  exact(p) \in Ints /\ exact(p) <= quota_gcd[p]
  BY <1>3, <1>4
<1>6. ASSUME NEW p \in Pools
      PROVE  Spent(used, found, dead)[p] = Int_(exact(p))
  BY DEF Spent
<1>7. ASSUME NEW p \in Pools
      PROVE  Spent(used, found, dead)[p] = exact(p)
  <2>1. exact(p) \in Int /\ exact(p) \in -Half .. Half - 1
    BY <1>0, <1>5 DEF Ints
  <2>. HIDE DEF exact
  <2>. QED BY <1>6, <2>1, IntType
<1>. QED BY <1>5, <1>7

\* An algorithm's pool that has spent the least of its quota is one of the pools.
LEMMA LowestType ==
  ASSUME NEW malgo, NEW used \in [Pools -> Ints], NEW from \in 1 .. N, NEW dead,
         quota_gcd \in [Pools -> 0 .. Half - 1],
         malgo # AnyAlgo => \A p \in Pools : OfAlgo(malgo, p) => quota_gcd[p] # 0
  PROVE  Lowest(malgo, used, from, dead) \in Pools \cup {NoPool}
<1>. DEFINE mine == {p \in Pools : OfAlgo(malgo, p)}
            own(p) == IF p \in dead /\ ~(p = First /\ opt_fail_only) THEN 1 ELSE 0
            count == [p \in mine |->
                        Quotient(AtTurn(malgo, used, from, p) + own(p), quota_gcd[p])]
            least == {p \in mine : \A q \in mine : count[p] <= count[q]}
<1>1. Lowest(malgo, used, from, dead) =
        IF malgo = AnyAlgo \/ mine = {} THEN NoPool
        ELSE CHOOSE p \in least : \A q \in least : Turn(from, p) <= Turn(from, q)
  BY Zenon DEF Lowest
<1>2. CASE malgo = AnyAlgo \/ mine = {}
  BY <1>1, <1>2
<1>3. CASE ~(malgo = AnyAlgo \/ mine = {})
  <2>1. ASSUME NEW p \in mine
        PROVE  count[p] \in -Half .. Half
    <3>1. PICK x : x = AtTurn(malgo, used, from, p) + own(p)
      OBVIOUS
    <3>2. PICK y : y = quota_gcd[p]
      OBVIOUS
    <3>3. Half \in Nat /\ y \in Nat \ {0}
      BY <1>3, <3>2, HalfType
    <3>5. x \in -Half .. Half
      <4>1. used[p] - Returned(malgo, used, from, p) \in Int
        BY ReturnedType, HalfType DEF Ints
      <4>2. AtTurn(malgo, used, from, p) \in -Half .. Half - 1
        BY <4>1, IntType DEF AtTurn
      <4>. HIDE DEF mine
      <4>. QED BY <3>1, <3>3, <4>2
    <3>4. Quotient(x, y) \in -Half .. Half
      <4>1. CASE x < 0
        <5>1. (-x) \div y \in 0 .. -x
          BY <3>3, <3>5, <4>1, DivBound
        <5>. QED BY <3>3, <3>5, <4>1, <5>1 DEF Quotient
      <4>2. CASE ~(x < 0)
        <5>1. x \div y \in 0 .. x
          BY <3>3, <3>5, <4>2, DivBound
        <5>. QED BY <3>3, <3>5, <4>2, <5>1 DEF Quotient
      <4>. QED BY <4>1, <4>2
    <3>. QED BY <3>1, <3>2, <3>4
  <2>2. least # {}
    <3>. DEFINE T == {count[p] + Half : p \in mine}
    <3>. HIDE DEF count, mine
    <3>1. Half \in Nat
      BY HalfType
    <3>2. T \in SUBSET Nat /\ T # {}
      BY <1>3, <2>1, <3>1
    <3>3. PICK m \in T : \A k \in T : <<k, m>> \notin OpToRel(<, Nat)
      <4>. HIDE DEF T
      <4>. QED BY <3>2, WFMin, NatLessThanWellFounded, Zenon
    <3>4. \A k \in T : ~(k < m)
      <4>. HIDE DEF T
      <4>. QED BY <3>2, <3>3 DEF OpToRel
    <3>5. PICK p \in mine : m = count[p] + Half
      OBVIOUS
    <3>6. \A q \in mine : ~(count[q] + Half < count[p] + Half)
      BY <3>4, <3>5
    <3>7. \A q \in mine : count[p] <= count[q]
      BY <2>1, <3>1, <3>6
    <3>. QED BY <3>7
  <2>3. least \in SUBSET Pools
    OBVIOUS
  <2>4. (CHOOSE p \in least : \A q \in least : Turn(from, p) <= Turn(from, q)) \in least
    <3>. HIDE DEF least
    <3>. QED BY <2>2, <2>3, FirstTurn
  <2>. QED
    <3>. HIDE DEF least
    <3>. QED BY <1>1, <1>3, <2>3, <2>4
<1>. QED BY <1>2, <1>3

\* So is what is tried when no pool has quota left, if it is any.
LEMMA FallbackType ==
  ASSUME NEW malgo
  PROVE  Fallback(malgo) \subseteq Pools \cup {NoPool}
<1>. DEFINE usable == {i \in 1 .. N : OfAlgo(malgo, Order[i]) /\ Order[i] \notin idle}
<1>1. Fallback(malgo) =
        IF usable # {} THEN {Order[Min(usable)]}
        ELSE {IF OfAlgo(malgo, cp) THEN cp ELSE NoPool : cp \in Pools}
  BY DEF Fallback
<1>2. usable \in SUBSET Nat /\ usable \subseteq 1 .. N
  BY PoolsInOrder
<1>3. usable # {} => Min(usable) \in 1 .. N
  <2>. HIDE DEF usable
  <2>. QED BY <1>2, MinInSet
<1>. QED BY <1>1, <1>3, PoolsInOrder

\* What is known of the round after a search.
Known(renew, used, dead) ==
    /\ IF renew THEN \A p \in Pools : used[p] = 0 ELSE clean
    /\ ~Underflows(used, dead)

\* The account of a search of select_loadbalance that found one pool and passed others
\* over; answer is the pool that select_pool then asks.
Search(malgo, renew, used, from, found, dead, answer) ==
    /\ renew = ~Available(quota_used)
    /\ used = IF renew THEN Renewed ELSE quota_used
    /\ found = Found(malgo, used, from) /\ dead = Dead(malgo, used, from, found)
    /\ quota_used' = Spent(used, found, dead)
    /\ Answer(malgo, answer)
    /\ found # NoPool => answer \in {found, NoPool}
    /\ clean' = Known(renew, used, dead)
    /\ round' = IF renew THEN 1 - round ELSE round
    /\ clean' =>
         \E works \in {IF renew THEN [p \in Pools |-> 0] ELSE given} :
           /\ given' = IF found = NoPool THEN works ELSE [works EXCEPT ![found] = @ + 1]
           /\ hurt' = (IF renew THEN {} ELSE hurt) \cup {p \in dead : Unworkable(p)}
           /\ beyond' => \/ beyond /\ ~renew
                         \/ last' # NoPool /\ last' # found /\ malgo = AnyAlgo
    /\ ~clean' => given' = [p \in Pools |-> 0] /\ hurt' = {} /\ ~beyond'
    /\ beyond' \in BOOLEAN /\ clean' \in BOOLEAN
    /\ UNCHANGED <<quotaVars, active, changes, failures>>

\* When no pool has quota left, all have spent theirs, and what remains is beyond it.
LEMMA RenewedType ==
  ASSUME TypeOK, ~Available(quota_used)
  PROVE  /\ Renewed \in [Pools -> Ints]
         /\ \A p \in Pools : quota_gcd[p] <= quota_used[p]
<1>0. /\ Half \in Nat /\ quota_used \in [Pools -> -Half .. Half - 1]
      /\ quota_gcd \in [Pools -> 0 .. Half - 1]
  BY HalfType DEF TypeOK
<1>1. \A p \in Pools : quota_gcd[p] <= quota_used[p]
  BY <1>0 DEF Available
<1>2. \A p \in Pools : quota_used[p] - quota_gcd[p] \in Ints
  BY <1>0, <1>1 DEF Ints
<1>. QED BY <1>1, <1>2 DEF Renewed

\* What a search does once it is known where it begins and what it comes to.
Chosen(malgo, renew, used, from, found, dead) ==
    /\ quota_used' = Spent(used, found, dead)
    /\ crashed' = DividesByZero(malgo, PassedOver(malgo, from, found))
    /\ rotating_pool' = IF malgo = AnyAlgo /\ found # NoPool
                        THEN CHOOSE i \in 1 .. N : Order[i] = found ELSE from
    /\ \/ crashed' /\ Answer(malgo, NoPool)
       \/ ~crashed' /\ found # NoPool /\ Answer(malgo, found)
       \/ /\ ~crashed' /\ found = NoPool
          /\ \E p \in IF Lowest(malgo, used, from, dead) # NoPool
                      THEN {Lowest(malgo, used, from, dead)} ELSE Fallback(malgo) :
               Answer(malgo, p)
    /\ LET works == IF renew THEN [p \in Pools |-> 0] ELSE given
       IN Account(Known(renew, used, dead), IF renew THEN 1 - round ELSE round,
                  IF found = NoPool THEN works ELSE [works EXCEPT ![found] = @ + 1],
                  (IF renew THEN {} ELSE hurt) \cup {p \in dead : Unworkable(p)},
                  \/ beyond /\ ~renew
                  \/ last' # NoPool /\ last' # found /\ malgo = AnyAlgo)

\* select_pool is one such search.
LEMMA SelectPoolSearches ==
  ASSUME TypeOK, NEW malgo, SelectPool(malgo)
  PROVE  /\ \E renew \in BOOLEAN, used \in [Pools -> Ints], from \in 1 .. N,
               found \in Pools \cup {NoPool}, dead \in SUBSET Pools,
               answer \in Pools \cup {NoPool} :
              Search(malgo, renew, used, from, found, dead, answer)
         /\ rotating_pool' \in 1 .. N /\ crashed' \in BOOLEAN
<1>1. PICK renew \in {~Available(quota_used)} :
        \E used \in {IF renew THEN Renewed ELSE quota_used},
           from \in {IF renew THEN (rotating_pool % N) + 1 ELSE rotating_pool} :
        \E found \in {Found(malgo, used, from)} :
        \E dead \in {Dead(malgo, used, from, found)} :
          Chosen(malgo, renew, used, from, found, dead)
  BY Zenon DEF SelectPool, Chosen, Known
<1>2. PICK used, from, found, dead :
        /\ used = IF renew THEN Renewed ELSE quota_used
        /\ from = IF renew THEN (rotating_pool % N) + 1 ELSE rotating_pool
        /\ found = Found(malgo, used, from) /\ dead = Dead(malgo, used, from, found)
        /\ Chosen(malgo, renew, used, from, found, dead)
  BY <1>1, Zenon
<1>3. renew \in BOOLEAN /\ used \in [Pools -> Ints] /\ from \in 1 .. N
  <2>1. renew \in BOOLEAN /\ renew = ~Available(quota_used)
    BY <1>1 DEF Available
  <2>2. used \in [Pools -> Ints]
    BY <1>2, <2>1, RenewedType DEF TypeOK, Ints
  <2>3. rotating_pool \in 1 .. N /\ N \in Nat \ {0}
    BY PoolsInOrder DEF TypeOK
  <2>4. rotating_pool % N \in 0 .. N - 1
    BY <2>3
  <2>. QED BY <1>2, <2>1, <2>2, <2>3, <2>4
<1>4. found \in Pools \cup {NoPool} /\ NoPool \notin Pools
  BY <1>2, <1>3, FoundProperties, PoolsInOrder
<1>5. \E answer \in Pools \cup {NoPool} :
        Answer(malgo, answer) /\ (found # NoPool => answer \in {found, NoPool})
  <2>1. CASE crashed' /\ Answer(malgo, NoPool)
    BY <2>1
  <2>2. CASE ~crashed' /\ found # NoPool /\ Answer(malgo, found)
    BY <1>4, <2>2
  <2>3. CASE /\ ~crashed' /\ found = NoPool
             /\ \E p \in IF Lowest(malgo, used, from, dead) # NoPool
                         THEN {Lowest(malgo, used, from, dead)} ELSE Fallback(malgo) :
                  Answer(malgo, p)
    <3>1. malgo # AnyAlgo => \A p \in Pools : OfAlgo(malgo, p) => quota_gcd[p] # 0
      <4>1. ~DividesByZero(malgo, PassedOver(malgo, from, found))
        BY <1>2, <2>3, Zenon DEF Chosen
      <4>. QED BY <2>3, <4>1 DEF DividesByZero, PassedOver
    <3>2. Lowest(malgo, used, from, dead) \in Pools \cup {NoPool}
      BY <1>3, <3>1, LowestType DEF TypeOK
    <3>. QED BY <2>3, <3>2, FallbackType
  <2>. QED BY <1>2, <2>1, <2>2, <2>3, Zenon DEF Chosen
<1>6. rotating_pool' \in 1 .. N
  BY <1>2, <1>3, <1>4, PoolsInOrder DEF Chosen
<1>7. crashed' \in BOOLEAN
  <2>1. crashed' = DividesByZero(malgo, PassedOver(malgo, from, found))
    BY <1>2, Zenon DEF Chosen
  <2>. QED BY <2>1 DEF DividesByZero
<1>8. UNCHANGED <<quotaVars, active, changes, failures>>
  BY DEF SelectPool
<1>9. clean' = Known(renew, used, dead) /\ clean' \in BOOLEAN
  <2>1. clean' = Known(renew, used, dead)
    BY <1>2, Zenon DEF Chosen, Account
  <2>2. Known(renew, used, dead) \in BOOLEAN
    BY DEF Known
  <2>. QED BY <2>1, <2>2
<1>10. /\ clean' =>
         \E works \in {IF renew THEN [p \in Pools |-> 0] ELSE given} :
           /\ given' = IF found = NoPool THEN works ELSE [works EXCEPT ![found] = @ + 1]
           /\ hurt' = (IF renew THEN {} ELSE hurt) \cup {p \in dead : Unworkable(p)}
           /\ beyond' => \/ beyond /\ ~renew
                         \/ last' # NoPool /\ last' # found /\ malgo = AnyAlgo
       /\ ~clean' => given' = [p \in Pools |-> 0] /\ hurt' = {} /\ ~beyond'
       /\ beyond' \in BOOLEAN
       /\ round' = IF renew THEN 1 - round ELSE round
  BY <1>2, <1>9 DEF Chosen, Account
<1>11. PICK answer \in Pools \cup {NoPool} :
         Answer(malgo, answer) /\ (found # NoPool => answer \in {found, NoPool})
  BY <1>5
<1>12. Search(malgo, renew, used, from, found, dead, answer)
  <2>1. quota_used' = Spent(used, found, dead)
    BY <1>2, Zenon DEF Chosen
  <2>. QED BY <2>1, <1>1, <1>2, <1>8, <1>9, <1>10, <1>11, Zenon DEF Search
<1>13. dead \in SUBSET Pools
  BY <1>2, <1>3, DeadProperties
<1>. QED BY <1>3, <1>4, <1>6, <1>7, <1>12, <1>13

-----------------------------------------------------------------------------
(* Types.                                                                  *)

\* The choice of a pool keeps every count an int, whatever it spends and gives back.
LEMMA SelectPoolType ==
  ASSUME TypeOK, NEW malgo \in Algos \cup {AnyAlgo}, SelectPool(malgo)
  PROVE  TypeOK'
<1>1. PICK renew \in BOOLEAN, used \in [Pools -> Ints], from \in 1 .. N,
           found \in Pools \cup {NoPool}, dead \in SUBSET Pools,
           answer \in Pools \cup {NoPool} :
        Search(malgo, renew, used, from, found, dead, answer)
  BY SelectPoolSearches
<1>2. rotating_pool' \in 1 .. N /\ crashed' \in BOOLEAN
  BY SelectPoolSearches
<1>3. quota_used' \in [Pools -> -Half .. Half - 1]
  <2>1. Cardinality(dead) \in Nat
    BY PoolsInOrder, FS_Subset, FS_CardinalityType
  <2>2. quota_used' = Spent(used, found, dead)
    BY <1>1, Zenon DEF Search
  <2>3. \A p \in Pools : used[p] \in Int
    BY HalfType DEF Ints
  <2>4. \A p \in Pools : Spent(used, found, dead)[p] \in -Half .. Half - 1
    BY <2>1, <2>3, IntType DEF Spent
  <2>. QED BY <2>2, <2>4 DEF Spent
<1>4. /\ asking' \in Algos \cup {AnyAlgo, Nothing}
      /\ idle' \subseteq Pools /\ last' \in Pools \cup {NoPool}
      /\ staged' \in [Pools -> Nat]
  <2>1. Answer(malgo, answer)
    BY <1>1, Zenon DEF Search
  <2>. QED BY <2>1 DEF Answer, TypeOK
<1>5. /\ given' \in [Pools -> Nat] /\ hurt' \subseteq Pools
      /\ clean' \in BOOLEAN /\ beyond' \in BOOLEAN
  <2>1. CASE clean'
    BY <1>1, <2>1, PoolsInOrder DEF Search, TypeOK
  <2>2. CASE ~clean'
    BY <1>1, <2>2 DEF Search
  <2>. QED BY <2>1, <2>2
<1>6. round' \in {0, 1}
  BY <1>1 DEF Search, TypeOK
<1>7. UNCHANGED <<quotaVars, active, changes, failures>>
  BY <1>1, Zenon DEF Search
<1>. QED BY <1>2, <1>3, <1>4, <1>5, <1>6, <1>7 DEF TypeOK, quotaVars

\* What the other actions have in common: a change starts a new account.
LEMMA UncleanType ==
  ASSUME TypeOK, Change, Unclean
  PROVE  /\ clean' = FALSE /\ round' \in {0, 1} /\ given' = [p \in Pools |-> 0]
         /\ hurt' = {} /\ beyond' = FALSE /\ changes' \in 0 .. MaxChanges
<1>1. MaxChanges \in Nat
  BY QuotaAssumption
<1>2. changes' \in 0 .. MaxChanges
  BY <1>1 DEF TypeOK, Change
<1>3. round' \in {0, 1}
  BY DEF TypeOK, Unclean, Account
<1>4. /\ clean' = FALSE /\ given' = [p \in Pools |-> 0]
      /\ hurt' = {} /\ beyond' = FALSE
  BY DEF Unclean, Account
<1>. QED BY <1>2, <1>3, <1>4

\* poolquota: the quotas divided by their divisor are ints again.
LEMMA PoolQuotaType ==
  ASSUME TypeOK, NEW p \in Pools, NEW q \in NewQuotas, PoolQuota(p, q)
  PROVE  TypeOK'
<1>1. quota' \in [Pools -> 0 .. Half - 1]
  <2>1. q \in 0 .. Half - 1
    BY QuotaAssumption
  <2>. QED BY <2>1 DEF TypeOK, PoolQuota
<1>2. PICK gcd \in Divisors(quota') :
         /\ global_quota_gcd' = gcd
         /\ quota_used' = [r \in Pools |-> Rescaled(quota_used[r], gcd)]
         /\ quota_gcd' = [r \in Pools |-> quota'[r] \div gcd]
  BY Zenon DEF PoolQuota
<1>3. gcd \in Nat \ {0}
  <2>1. quota' \in [Pools -> Nat]
    BY <1>1, HalfType
  <2>. QED BY <2>1, DivisorsPositive
<1>4. quota_gcd' \in [Pools -> 0 .. Half - 1]
  <2>1. ASSUME NEW r \in Pools
        PROVE  quota'[r] \div gcd \in 0 .. Half - 1
    <3>1. quota'[r] \in 0 .. Half - 1 /\ Half \in Nat
      BY <1>1, HalfType
    <3>2. quota'[r] \div gcd \in 0 .. quota'[r]
      BY <1>3, <3>1, DivBound
    <3>. QED BY <3>1, <3>2
  <2>. QED BY <1>2, <2>1
<1>5. quota_used' \in [Pools -> -Half .. Half - 1]
  <2>1. \A r \in Pools : quota_used[r] \in Int
    BY HalfType DEF TypeOK
  <2>2. global_quota_gcd \in Nat \ {0}
    BY DEF TypeOK
  <2>3. \A r \in Pools : Rescaled(quota_used[r], gcd) \in -Half .. Half - 1
    BY <1>3, <2>1, <2>2, RescaledType
  <2>. QED BY <1>2, <2>3
<1>6. Change /\ Unclean
  BY DEF PoolQuota
<1>7. UNCHANGED <<opt_fail_only, rotating_pool, connVars, asking, staged, last, crashed,
                  failures>>
  BY DEF PoolQuota
<1>8. /\ clean' = FALSE /\ round' \in {0, 1} /\ given' = [r \in Pools |-> 0]
      /\ hurt' = {} /\ beyond' = FALSE /\ changes' \in 0 .. MaxChanges
  BY <1>6, UncleanType
<1>. QED BY <1>1, <1>2, <1>3, <1>4, <1>5, <1>7, <1>8 DEF TypeOK, connVars

\* discard_work, whichever of two updates is lost.
LEMMA DiscardWorkType ==
  ASSUME TypeOK, NEW p \in Pools, DiscardWork(p)
  PROVE  TypeOK'
<1>1. quota_used' \in [Pools -> -Half .. Half - 1]
  <2>1. PICK units \in {0, 1, 2} :
           quota_used' = [quota_used EXCEPT ![p] = Int_(@ - units)]
    BY DEF DiscardWork
  <2>2. Int_(quota_used[p] - units) \in -Half .. Half - 1
    BY HalfType, IntType DEF TypeOK
  <2>. QED BY <2>1, <2>2 DEF TypeOK
<1>2. staged' \in [Pools -> Nat]
  BY DEF DiscardWork, TypeOK
<1>3. Change /\ Unclean
  BY DEF DiscardWork
<1>4. UNCHANGED <<quotaVars, rotating_pool, connVars, asking, last, crashed, failures>>
  BY DEF DiscardWork
<1>5. /\ clean' = FALSE /\ round' \in {0, 1} /\ given' = [r \in Pools |-> 0]
      /\ hurt' = {} /\ beyond' = FALSE /\ changes' \in 0 .. MaxChanges
  BY <1>3, UncleanType
<1>. QED BY <1>1, <1>2, <1>4, <1>5 DEF TypeOK, quotaVars, connVars

\* The other steps.
LEMMA OthersType ==
  ASSUME TypeOK, NEW p \in Pools,
         UseWork(p) \/ ManualEnable(p) \/ ToggleFailOnly \/ ConnectionLost(p) \/ PoolDied(p)
         \/ Reconnected(p) \/ Resumed(p)
  PROVE  TypeOK'
<1>1. CASE UseWork(p)
  <2>1. staged' \in [Pools -> Nat]
    BY <1>1 DEF UseWork, TypeOK
  <2>. QED BY <1>1, <2>1
       DEF UseWork, TypeOK, quotaVars, turnVars, connVars, roundVars
<1>2. CASE ManualEnable(p)
  <2>1. quota' \in [Pools -> 0 .. Half - 1]
    <3>1. quota[p] \in 0 .. Half - 1 /\ Half \in Nat /\ Half > 1
      BY HalfType DEF TypeOK
    <3>. QED BY <1>2, <3>1 DEF ManualEnable, TypeOK
  <2>. QED BY <1>2, <2>1 DEF ManualEnable, TypeOK, turnVars, connVars, roundVars
<1>3. CASE ToggleFailOnly
  <2>1. opt_fail_only' \in BOOLEAN
    BY <1>3 DEF ToggleFailOnly
  <2>2. Change /\ Unclean
    BY <1>3 DEF ToggleFailOnly
  <2>3. UNCHANGED <<quota, quota_gcd, global_quota_gcd, turnVars, connVars, asking, staged,
                    last, crashed, failures>>
    BY <1>3 DEF ToggleFailOnly
  <2>4. /\ clean' = FALSE /\ round' \in {0, 1} /\ given' = [r \in Pools |-> 0]
        /\ hurt' = {} /\ beyond' = FALSE /\ changes' \in 0 .. MaxChanges
    BY <2>2, UncleanType
  <2>. QED BY <2>1, <2>3, <2>4 DEF TypeOK, turnVars, connVars
<1>4. CASE ConnectionLost(p)
  <2>1. failures' \in 0 .. MaxFailures
    BY <1>4, QuotaAssumption DEF ConnectionLost, TypeOK
  <2>. QED BY <1>4, <2>1
       DEF ConnectionLost, ConnVarsOnly, TypeOK, quotaVars, turnVars, roundVars
<1>5. CASE PoolDied(p) \/ Reconnected(p) \/ Resumed(p)
  BY <1>5 DEF PoolDied, Reconnected, Resumed, ConnVarsOnly, TypeOK, quotaVars, turnVars,
              roundVars
<1>. QED BY <1>1, <1>2, <1>3, <1>4, <1>5

LEMMA TypeInit == Init => TypeOK
<1>. SUFFICES ASSUME Init PROVE TypeOK
  OBVIOUS
<1>1. quota \in [Pools -> 0 .. Half - 1] /\ quota = Quota
  BY QuotaAssumption DEF Init
<1>2. global_quota_gcd \in Nat \ {0}
  <2>1. Quota \in [Pools -> Nat]
    BY <1>1, HalfType
  <2>. QED BY <2>1, DivisorsPositive DEF Init
<1>3. quota_gcd \in [Pools -> 0 .. Half - 1]
  <2>1. ASSUME NEW p \in Pools
        PROVE  Quota[p] \div global_quota_gcd \in 0 .. Half - 1
    <3>1. Quota[p] \in 0 .. Half - 1 /\ Half \in Nat
      BY <1>1, HalfType
    <3>2. Quota[p] \div global_quota_gcd \in 0 .. Quota[p]
      BY <1>2, <3>1, DivBound
    <3>. QED BY <3>1, <3>2
  <2>. QED BY <2>1 DEF Init
<1>4. /\ quota_used \in [Pools -> -Half .. Half - 1] /\ rotating_pool \in 1 .. N
      /\ changes \in 0 .. MaxChanges /\ failures \in 0 .. MaxFailures
  <2>1. MaxChanges \in Nat /\ MaxFailures \in Nat
    BY QuotaAssumption
  <2>. QED BY <2>1, HalfType, PoolsInOrder DEF Init
<1>. QED BY <1>1, <1>2, <1>3, <1>4 DEF Init, TypeOK

LEMMA TypeNext == TypeOK /\ [Next]_vars => TypeOK'
<1>. SUFFICES ASSUME TypeOK, [Next]_vars PROVE TypeOK'
  OBVIOUS
<1>1. ASSUME NEW malgo \in Algos \cup {AnyAlgo}, SelectPool(malgo) PROVE TypeOK'
  BY <1>1, SelectPoolType
<1>2. ASSUME NEW p \in Pools, NEW q \in NewQuotas, PoolQuota(p, q) PROVE TypeOK'
  BY <1>2, PoolQuotaType
<1>3. ASSUME NEW p \in Pools, DiscardWork(p) PROVE TypeOK'
  BY <1>3, DiscardWorkType
<1>4. ASSUME NEW p \in Pools,
             UseWork(p) \/ ManualEnable(p) \/ ConnectionLost(p) \/ PoolDied(p)
             \/ Reconnected(p) \/ Resumed(p)
      PROVE  TypeOK'
  BY <1>4, OthersType
<1>5. ASSUME ToggleFailOnly PROVE TypeOK'
  BY <1>5, OthersType, PoolsInOrder
<1>6. CASE UNCHANGED vars
  BY <1>6 DEF vars, quotaVars, turnVars, connVars, roundVars, TypeOK
<1>. QED BY <1>1, <1>2, <1>3, <1>4, <1>5, <1>6 DEF Next

\* The counts of adjust_quota_gcd and select_loadbalance are ints, the divisor is positive,
\* and the rotation stays within the array (miner.c:1155-1162, 5643-5660).
THEOREM QuotaTypeCorrect == Spec => []TypeOK
BY TypeInit, TypeNext, PTL DEF Spec

-----------------------------------------------------------------------------
(* Quotas come first.                                                      *)

\* When nothing usable has quota left in a search for any algorithm, a pool that has is
\* dead.  The first pool may have lost its own, but only to another that is dead.
LEMMA OutOfQuota ==
  ASSUME NEW used \in [Pools -> Ints], NEW from \in 1 .. N,
         Found(AnyAlgo, used, from) = NoPool,
         NEW p \in Pools, used[p] < quota_gcd[p]
  PROVE  Dead(AnyAlgo, used, from, NoPool) # {}
<1>. DEFINE dead == Dead(AnyAlgo, used, from, NoPool)
<1>1. \A q \in Pools : q \in dead <=> AtTurn(AnyAlgo, used, from, q) < quota_gcd[q]
  BY DEF Dead, PassedOver, OfAlgo
<1>2. ASSUME NEW q \in Pools, Returned(AnyAlgo, used, from, q) = 0
      PROVE  AtTurn(AnyAlgo, used, from, q) = used[q]
  BY <1>2, IntType, HalfType DEF AtTurn, Ints
<1>3. CASE Returned(AnyAlgo, used, from, p) = 0
  BY <1>1, <1>2, <1>3
<1>4. CASE Returned(AnyAlgo, used, from, p) # 0
  <2>. DEFINE R == {q \in Pools \ {First} :
                      /\ OfAlgo(AnyAlgo, q) /\ Unworkable(q) /\ used[q] < quota_gcd[q]
                      /\ Turn(from, q) < Turn(from, First)}
  <2>1. Returned(AnyAlgo, used, from, p) = Cardinality(R)
    BY <1>4 DEF Returned
  <2>2. R # {}
    BY <1>4, <2>1, FS_EmptySet
  <2>3. PICK q \in Pools \ {First} : used[q] < quota_gcd[q]
    BY <2>2
  <2>4. AtTurn(AnyAlgo, used, from, q) = used[q]
    BY <1>2, ReturnedType
  <2>. QED BY <1>1, <2>3, <2>4
<1>. QED BY <1>3, <1>4

LEMMA SelectPoolQuotasFirst ==
  ASSUME TypeOK, QuotasFirst, NEW malgo, SelectPool(malgo)
  PROVE  QuotasFirst'
<1>1. PICK renew \in BOOLEAN, used \in [Pools -> Ints], from \in 1 .. N,
           found \in Pools \cup {NoPool}, dead \in SUBSET Pools,
           answer \in Pools \cup {NoPool} :
        Search(malgo, renew, used, from, found, dead, answer)
  BY SelectPoolSearches
<1>2. SUFFICES ASSUME beyond' PROVE hurt' # {} \/ \A p \in Pools : quota_gcd'[p] = 0
  BY DEF QuotasFirst
<1>3. clean' /\ quota_gcd' = quota_gcd
  BY <1>1, <1>2 DEF Search, quotaVars
<1>4. /\ hurt' = (IF renew THEN {} ELSE hurt) \cup {p \in dead : Unworkable(p)}
      /\ \/ beyond /\ ~renew
         \/ last' # NoPool /\ last' # found /\ malgo = AnyAlgo
  BY <1>1, <1>2, <1>3 DEF Search
<1>5. CASE beyond /\ ~renew
  BY <1>3, <1>4, <1>5 DEF QuotasFirst
<1>6. CASE last' # NoPool /\ last' # found /\ malgo = AnyAlgo
  <2>1. found = NoPool
    <3>1. Answer(malgo, answer) /\ (found # NoPool => answer \in {found, NoPool})
      BY <1>1, Zenon DEF Search
    <3>2. last' = answer
      BY <1>6, <3>1 DEF Answer
    <3>. QED BY <1>6, <3>1, <3>2
  <2>2. found = Found(malgo, used, from) /\ dead = Dead(malgo, used, from, found)
    BY <1>1, Zenon DEF Search
  <2>3. ASSUME NEW p \in Pools, used[p] < quota_gcd[p]
        PROVE  hurt' # {}
    <3>1. dead # {}
      BY <1>6, <2>1, <2>2, <2>3, OutOfQuota
    <3>2. \A q \in dead : Unworkable(q)
      BY <2>2, DeadProperties
    <3>. QED BY <1>4, <3>1, <3>2
  <2>4. ASSUME ~renew
        PROVE  \E p \in Pools : used[p] < quota_gcd[p]
    BY <1>1, <2>4 DEF Search, Available
  <2>5. ASSUME renew, NEW p \in Pools, quota_gcd[p] # 0
        PROVE  used[p] < quota_gcd[p]
    <3>1. used[p] = 0
      BY <1>1, <1>3, <2>5 DEF Search, Known
    <3>2. quota_gcd[p] \in 0 .. Half - 1
      BY DEF TypeOK
    <3>. QED BY <2>5, <3>1, <3>2, HalfType
  <2>. QED BY <1>3, <2>3, <2>4, <2>5
<1>. QED BY <1>4, <1>5, <1>6

LEMMA QuotasFirstNext == TypeOK /\ QuotasFirst /\ [Next]_vars => QuotasFirst'
<1>. SUFFICES ASSUME TypeOK, QuotasFirst, [Next]_vars PROVE QuotasFirst'
  OBVIOUS
<1>1. ASSUME NEW malgo \in Algos \cup {AnyAlgo}, SelectPool(malgo) PROVE QuotasFirst'
  BY <1>1, SelectPoolQuotasFirst
<1>2. ASSUME Unclean PROVE QuotasFirst'
  BY <1>2 DEF Unclean, Account, QuotasFirst
<1>3. ASSUME NEW p \in Pools, NEW q \in NewQuotas, PoolQuota(p, q) PROVE QuotasFirst'
  <2>1. Unclean
    BY <1>3, Zenon DEF PoolQuota
  <2>. QED BY <1>2, <2>1
<1>4. ASSUME NEW p \in Pools, DiscardWork(p) \/ ToggleFailOnly PROVE QuotasFirst'
  <2>1. Unclean
    BY <1>4, Zenon DEF DiscardWork, ToggleFailOnly
  <2>. QED BY <1>2, <2>1
<1>5. ASSUME UNCHANGED <<roundVars, quota_gcd>> PROVE QuotasFirst'
  BY <1>5 DEF roundVars, QuotasFirst
<1>6. ASSUME NEW p \in Pools,
             UseWork(p) \/ ManualEnable(p) \/ ConnectionLost(p) \/ PoolDied(p)
             \/ Reconnected(p) \/ Resumed(p)
      PROVE  QuotasFirst'
  <2>1. UNCHANGED <<roundVars, quota_gcd>>
    BY <1>6 DEF UseWork, ManualEnable, ConnectionLost, PoolDied, Reconnected, Resumed,
                ConnVarsOnly, quotaVars
  <2>. QED BY <1>5, <2>1
<1>7. CASE UNCHANGED vars
  BY <1>5, <1>7 DEF vars, quotaVars
<1>. QED BY <1>1, <1>3, <1>4, <1>6, <1>7, PoolsInOrder DEF Next

\* A work of any algorithm goes beyond the quotas only when a pool with quota left was
\* found dead in this round, or no pool has any (miner.c:5690, 5703-5764).
THEOREM QuotasFirstCorrect == Spec => []QuotasFirst
<1>1. Init => QuotasFirst
  BY DEF Init, QuotasFirst
<1>2. TypeOK /\ QuotasFirst /\ [Next]_vars => QuotasFirst'
  BY QuotasFirstNext
<1>. QED BY <1>1, <1>2, QuotaTypeCorrect, PTL DEF Spec

-----------------------------------------------------------------------------
(* Rounds.                                                                 *)

\* A unit for each of the d[p] that pool p has.
Units(d) == UNION {{p} \X (1 .. d[p]) : p \in DOMAIN d}

\* When some pools get one more, there are so many more units.
LEMMA UnitsGrow ==
  ASSUME NEW P, NEW d \in [P -> Nat], NEW D \in SUBSET P, IsFiniteSet(D),
         IsFiniteSet(Units(d)), NEW e \in [P -> Nat],
         \A p \in P : e[p] = d[p] + (IF p \in D THEN 1 ELSE 0)
  PROVE  /\ IsFiniteSet(Units(e))
         /\ Cardinality(Units(e)) = Cardinality(Units(d)) + Cardinality(D)
<1>. DEFINE New == {<<p, d[p] + 1>> : p \in D}
            f == [p \in D |-> <<p, d[p] + 1>>]
<1>1. IsFiniteSet(New) /\ Cardinality(New) = Cardinality(D)
  <2>1. f \in Bijection(D, New)
    BY DEF Bijection, Injection, Surjection, IsInjective
  <2>2. ExistsBijection(D, New)
    <3>. HIDE DEF f, New
    <3>. QED BY <2>1 DEF ExistsBijection
  <2>. HIDE DEF f, New
  <2>. QED BY <2>2, FS_Bijection
<1>2. \A u : u \in Units(d) <=> \E p \in P, i \in Nat : u = <<p, i>> /\ 1 <= i /\ i <= d[p]
  BY DEF Units
<1>3. \A u : u \in Units(e) <=> \E p \in P, i \in Nat : u = <<p, i>> /\ 1 <= i /\ i <= e[p]
  BY DEF Units
<1>4. Units(d) \cap New = {}
  <2>. SUFFICES ASSUME NEW p \in D, <<p, d[p] + 1>> \in Units(d) PROVE FALSE
    OBVIOUS
  <2>1. d[p] + 1 <= d[p] /\ d[p] \in Nat
    BY <1>2
  <2>. QED BY <2>1
<1>5. Units(e) = Units(d) \cup New
  <2>1. ASSUME NEW u \in Units(e)
        PROVE  u \in Units(d) \cup New
    <3>1. PICK p \in P, i \in Nat : u = <<p, i>> /\ 1 <= i /\ i <= e[p]
      BY <1>3
    <3>2. CASE i <= d[p]
      BY <1>2, <3>1, <3>2
    <3>3. CASE ~(i <= d[p])
      <4>1. p \in D /\ i = d[p] + 1
        BY <3>1, <3>3
      <4>. QED BY <3>1, <4>1
    <3>. QED BY <3>2, <3>3
  <2>2. ASSUME NEW u \in Units(d)
        PROVE  u \in Units(e)
    <3>1. PICK p \in P, i \in Nat : u = <<p, i>> /\ 1 <= i /\ i <= d[p]
      BY <1>2
    <3>2. i <= e[p]
      BY <3>1
    <3>. QED BY <1>3, <3>1, <3>2
  <2>3. ASSUME NEW u \in New
        PROVE  u \in Units(e)
    <3>1. PICK p \in D : u = <<p, d[p] + 1>>
      OBVIOUS
    <3>2. p \in P /\ d[p] + 1 \in Nat /\ 1 <= d[p] + 1 /\ d[p] + 1 <= e[p]
      BY <3>1
    <3>. QED BY <1>3, <3>1, <3>2
  <2>. HIDE DEF New
  <2>. QED BY <2>1, <2>2, <2>3
<1>6. Cardinality(Units(d) \cap New) = 0
  BY <1>4, FS_EmptySet
<1>7. Cardinality(Units(d)) \in Nat /\ Cardinality(D) \in Nat
  BY FS_CardinalityType
<1>. HIDE DEF New
<1>8. /\ IsFiniteSet(Units(d) \cup New)
      /\ Cardinality(Units(d) \cup New)
           = Cardinality(Units(d)) + Cardinality(New) - Cardinality(Units(d) \cap New)
  BY <1>1, FS_Union, Zenon
<1>. QED BY <1>1, <1>5, <1>6, <1>7, <1>8

\* What the pools besides the first have spent without giving works.
Wasted(used, works) == [p \in Pools \ {First} |-> used[p] - works[p]]

\* The account of a round: nothing is spent beyond the quota; what a pool that was not
\* found dead has spent it has given; failover-only, the first pool has been given back
\* what the others wasted, and has given so much more.
Tidy(used, works, passed) ==
    /\ \A p \in Pools : used[p] <= quota_gcd[p]
    /\ \A p \in Pools \ {First} : works[p] <= used[p] /\ (p \notin passed => works[p] = used[p])
    /\ ~opt_fail_only /\ First \notin passed => works[First] = used[First]
    /\ IsFiniteSet(Units(Wasted(used, works)))
    /\ opt_fail_only /\ First \notin passed =>
         works[First] = used[First] + Cardinality(Units(Wasted(used, works)))

RoundInv == clean => Tidy(quota_used, given, hurt)

\* A round begins with nothing used and nothing given.
LEMMA TidyAtFirst ==
  ASSUME quota_gcd \in [Pools -> 0 .. Half - 1],
         NEW used, \A p \in Pools : used[p] = 0, NEW works, works = [p \in Pools |-> 0]
  PROVE  Tidy(used, works, {})
<1>1. Units(Wasted(used, works)) = {}
  <2>1. \A p \in Pools \ {First} : Wasted(used, works)[p] = 0
    BY DEF Wasted
  <2>2. DOMAIN Wasted(used, works) = Pools \ {First}
    BY DEF Wasted
  <2>3. \A p \in DOMAIN Wasted(used, works) : 1 .. Wasted(used, works)[p] = {}
    BY <2>1, <2>2
  <2>. QED BY <2>3 DEF Units
<1>2. IsFiniteSet({}) /\ Cardinality({}) = 0
  BY FS_EmptySet
<1>3. First \in Pools /\ Half \in Nat
  BY PoolsInOrder, HalfType
<1>4. \A p \in Pools : used[p] = 0 /\ works[p] = 0
  OBVIOUS
<1>5. \A p \in Pools : used[p] <= quota_gcd[p]
  BY <1>3
<1>6. \A p \in Pools \ {First} : works[p] <= used[p] /\ works[p] = used[p]
  BY <1>4
<1>7. works[First] = used[First] /\ works[First] = used[First] + 0
  BY <1>3, <1>4
<1>. HIDE DEF Units, Wasted
<1>. QED BY <1>1, <1>2, <1>5, <1>6, <1>7 DEF Tidy

\* A search leaves the account in order.
LEMMA TidyAfterSearch ==
  ASSUME NEW malgo, NEW used \in [Pools -> Ints], NEW from \in 1 .. N,
         quota_gcd \in [Pools -> 0 .. Half - 1], opt_fail_only \in BOOLEAN,
         NEW found, found = Found(malgo, used, from),
         NEW dead, dead = Dead(malgo, used, from, found),
         ~Underflows(used, dead),
         NEW works \in [Pools -> Nat], NEW passed, Tidy(used, works, passed),
         NEW used_1, used_1 = Spent(used, found, dead),
         NEW works_1, works_1 = IF found = NoPool THEN works ELSE [works EXCEPT ![found] = @ + 1],
         NEW passed_1, passed_1 = passed \cup {p \in dead : Unworkable(p)}
  PROVE  Tidy(used_1, works_1, passed_1)
<1>. DEFINE waste == Wasted(used, works)
            waste_1 == Wasted(used_1, works_1)
            D == dead \ {First}
<1>0. /\ found \in Pools \cup {NoPool} /\ NoPool \notin Pools /\ First \in Pools
      /\ dead \subseteq Pools /\ found \notin dead /\ IsFiniteSet(dead)
      /\ Cardinality(dead) \in Nat
  BY FoundProperties, DeadProperties, PoolsInOrder
<1>1. passed_1 = passed \cup dead
  BY DeadProperties
<1>2. \A p \in Pools : used_1[p] <= quota_gcd[p]
  BY SpentProperties DEF Tidy
<1>3. \A p \in Pools :
        used_1[p] = used[p] + (IF p \in dead \cup {found} THEN 1 ELSE 0)
                        - (IF p = First /\ opt_fail_only THEN Cardinality(dead) ELSE 0)
  BY SpentProperties DEF Tidy
<1>4. \A p \in Pools : works_1[p] = works[p] + (IF p = found THEN 1 ELSE 0)
  BY <1>0
<1>5. \A p \in Pools : used[p] \in Int /\ works[p] \in Nat
  BY HalfType DEF Ints
<1>6. ASSUME NEW p \in Pools \ {First}
      PROVE  used_1[p] - works_1[p] = used[p] - works[p] + (IF p \in dead THEN 1 ELSE 0)
  BY <1>0, <1>3, <1>4, <1>5
<1>7. ASSUME NEW p \in Pools \ {First}
      PROVE  /\ works_1[p] <= used_1[p]
             /\ p \notin passed_1 => works_1[p] = used_1[p]
  BY <1>0, <1>1, <1>3, <1>4, <1>5 DEF Tidy
<1>8. /\ waste \in [Pools \ {First} -> Nat] /\ waste_1 \in [Pools \ {First} -> Nat]
      /\ \A p \in Pools \ {First} : waste_1[p] = waste[p] + (IF p \in D THEN 1 ELSE 0)
  <2>1. ASSUME NEW p \in Pools \ {First}
        PROVE  /\ used[p] - works[p] \in Nat
               /\ used_1[p] - works_1[p] = used[p] - works[p] + (IF p \in D THEN 1 ELSE 0)
    BY <1>5, <1>6 DEF Tidy
  <2>2. \A p \in Pools \ {First} : used_1[p] - works_1[p] \in Nat
    BY <2>1
  <2>. QED BY <2>1, <2>2 DEF Wasted
<1>9. /\ IsFiniteSet(Units(waste_1))
      /\ Cardinality(Units(waste_1)) = Cardinality(Units(waste)) + Cardinality(D)
  <2>1. IsFiniteSet(Units(waste))
    BY DEF Tidy
  <2>2. D \in SUBSET (Pools \ {First}) /\ IsFiniteSet(D)
    BY <1>0, FS_Subset
  <2>. HIDE DEF waste, waste_1, D
  <2>. QED BY <1>8, <2>1, <2>2, UnitsGrow
<1>10. ASSUME ~opt_fail_only, First \notin passed_1
       PROVE  works_1[First] = used_1[First]
  BY <1>0, <1>1, <1>3, <1>4, <1>5, <1>10 DEF Tidy
<1>11. ASSUME opt_fail_only, First \notin passed_1
       PROVE  works_1[First] = used_1[First] + Cardinality(Units(waste_1))
  <2>1. D = dead
    BY <1>1, <1>11
  <2>2. works[First] = used[First] + Cardinality(Units(waste))
    BY <1>1, <1>11 DEF Tidy
  <2>3. Cardinality(Units(waste)) \in Nat
    BY FS_CardinalityType DEF Tidy
  <2>4. /\ used_1[First] = used[First] + (IF First = found THEN 1 ELSE 0) - Cardinality(dead)
        /\ works_1[First] = works[First] + (IF First = found THEN 1 ELSE 0)
    BY <1>0, <1>1, <1>3, <1>4, <1>11
  <2>. HIDE DEF waste, waste_1, D
  <2>. QED BY <1>0, <1>5, <1>9, <2>1, <2>2, <2>3, <2>4
<1>. QED BY <1>2, <1>7, <1>9, <1>10, <1>11 DEF Tidy

LEMMA SelectPoolRounds ==
  ASSUME TypeOK, RoundInv, NEW malgo, SelectPool(malgo)
  PROVE  RoundInv'
<1>1. PICK renew \in BOOLEAN, used \in [Pools -> Ints], from \in 1 .. N,
           found \in Pools \cup {NoPool}, dead \in SUBSET Pools,
           answer \in Pools \cup {NoPool} :
        Search(malgo, renew, used, from, found, dead, answer)
  BY SelectPoolSearches
<1>2. SUFFICES ASSUME clean' PROVE Tidy(quota_used, given, hurt)'
  BY DEF RoundInv
<1>3. /\ quota_gcd' = quota_gcd /\ opt_fail_only' = opt_fail_only
      /\ quota_gcd \in [Pools -> 0 .. Half - 1] /\ opt_fail_only \in BOOLEAN
  BY <1>1 DEF Search, quotaVars, TypeOK
<1>4. /\ found = Found(malgo, used, from) /\ dead = Dead(malgo, used, from, found)
      /\ quota_used' = Spent(used, found, dead)
      /\ used = IF renew THEN Renewed ELSE quota_used
      /\ Known(renew, used, dead)
  BY <1>1, <1>2, Zenon DEF Search
<1>5. PICK works \in {IF renew THEN [p \in Pools |-> 0] ELSE given} :
        /\ given' = IF found = NoPool THEN works ELSE [works EXCEPT ![found] = @ + 1]
        /\ hurt' = (IF renew THEN {} ELSE hurt) \cup {p \in dead : Unworkable(p)}
  BY <1>1, <1>2 DEF Search
<1>6. PICK passed : passed = IF renew THEN {} ELSE hurt
  OBVIOUS
<1>7. works \in [Pools -> Nat]
  BY <1>5 DEF TypeOK
<1>8. Tidy(used, works, passed)
  <2>1. CASE renew
    <3>1. \A p \in Pools : used[p] = 0
      BY <1>4, <2>1 DEF Known
    <3>. QED BY <1>3, <1>5, <1>6, <2>1, <3>1, TidyAtFirst
  <2>2. CASE ~renew
    BY <1>4, <1>5, <1>6, <2>2 DEF Known, RoundInv
  <2>. QED BY <2>1, <2>2
<1>9. Tidy(quota_used', given', hurt')
  <2>1. ~Underflows(used, dead)
    BY <1>4 DEF Known
  <2>2. hurt' = passed \cup {p \in dead : Unworkable(p)}
    BY <1>5, <1>6
  <2>3. /\ used \in [Pools -> Ints] /\ from \in 1 .. N
        /\ given' = IF found = NoPool THEN works ELSE [works EXCEPT ![found] = @ + 1]
    BY <1>1, <1>5
  <2>4. ASSUME NEW u, u = Spent(used, found, dead),
               NEW w, w = IF found = NoPool THEN works ELSE [works EXCEPT ![found] = @ + 1],
               NEW d, d = passed \cup {p \in dead : Unworkable(p)}
        PROVE  Tidy(u, w, d)
    <3>1. /\ quota_gcd \in [Pools -> 0 .. Half - 1] /\ opt_fail_only \in BOOLEAN
          /\ found = Found(malgo, used, from) /\ dead = Dead(malgo, used, from, found)
      BY <1>3, <1>4
    <3>. QED BY <1>7, <1>8, <2>1, <2>3, <2>4, <3>1, TidyAfterSearch
  <2>. QED BY <1>4, <2>2, <2>3, <2>4
<1>. QED BY <1>3, <1>9 DEF Tidy

LEMMA RoundNext == TypeOK /\ RoundInv /\ [Next]_vars => RoundInv'
<1>. SUFFICES ASSUME TypeOK, RoundInv, [Next]_vars PROVE RoundInv'
  OBVIOUS
<1>1. ASSUME NEW malgo \in Algos \cup {AnyAlgo}, SelectPool(malgo) PROVE RoundInv'
  BY <1>1, SelectPoolRounds
<1>2. ASSUME Unclean PROVE RoundInv'
  BY <1>2 DEF Unclean, Account, RoundInv
<1>3. ASSUME NEW p \in Pools, NEW q \in NewQuotas, PoolQuota(p, q) PROVE RoundInv'
  <2>1. Unclean
    BY <1>3, Zenon DEF PoolQuota
  <2>. QED BY <1>2, <2>1
<1>4. ASSUME NEW p \in Pools, DiscardWork(p) \/ ToggleFailOnly PROVE RoundInv'
  <2>1. Unclean
    BY <1>4, Zenon DEF DiscardWork, ToggleFailOnly
  <2>. QED BY <1>2, <2>1
<1>5. ASSUME UNCHANGED <<roundVars, quota_gcd, quota_used, opt_fail_only>> PROVE RoundInv'
  BY <1>5 DEF roundVars, RoundInv, Tidy
<1>6. ASSUME NEW p \in Pools,
             UseWork(p) \/ ManualEnable(p) \/ ConnectionLost(p) \/ PoolDied(p)
             \/ Reconnected(p) \/ Resumed(p)
      PROVE  RoundInv'
  <2>1. UNCHANGED <<roundVars, quota_gcd, quota_used, opt_fail_only>>
    BY <1>6 DEF UseWork, ManualEnable, ConnectionLost, PoolDied, Reconnected, Resumed,
                ConnVarsOnly, quotaVars, turnVars
  <2>. QED BY <1>5, <2>1
<1>7. CASE UNCHANGED vars
  BY <1>5, <1>7 DEF vars, quotaVars, turnVars
<1>. QED BY <1>1, <1>3, <1>4, <1>6, <1>7, PoolsInOrder DEF Next

\* When a round ends, everything is spent, and its account is that of RoundsKeepQuotas.
RoundKept ==
    round' # round /\ clean =>
         /\ \A p \in Pools \ (hurt \cup {First}) : given[p] = quota_gcd[p]
         /\ First \notin hurt =>
              given[First] = quota_gcd[First] + (IF opt_fail_only THEN Missed ELSE 0)

\* In such a round the pools that were not found dead have wasted nothing.
LEMMA MissedIsWasted ==
  ASSUME TypeOK, Tidy(quota_used, given, hurt), First \notin hurt,
         \A p \in Pools : quota_used[p] = quota_gcd[p]
  PROVE  Missed = Cardinality(Units(Wasted(quota_used, given)))
<1>. DEFINE waste == Wasted(quota_used, given)
            missed == UNION {{p} \X (1 .. quota_gcd[p] - given[p]) : p \in hurt}
<1>1. hurt \subseteq Pools \ {First}
  BY DEF TypeOK
<1>2. \A p \in Pools \ {First} : waste[p] = quota_gcd[p] - given[p]
  BY DEF Wasted
<1>3. DOMAIN waste = Pools \ {First}
  BY DEF Wasted
<1>4. \A p \in (Pools \ {First}) \ hurt : 1 .. waste[p] = {}
  <2>1. ASSUME NEW p \in (Pools \ {First}) \ hurt
        PROVE  quota_gcd[p] - given[p] = 0
    <3>1. given[p] = quota_gcd[p] /\ given[p] \in Nat
      BY <2>1 DEF Tidy, TypeOK
    <3>. QED BY <3>1
  <2>. QED BY <1>2, <2>1
<1>5. Units(waste) = missed
  <2>1. ASSUME NEW u \in Units(waste)
        PROVE  u \in missed
    <3>1. PICK p \in Pools \ {First} : u \in {p} \X (1 .. waste[p])
      BY <1>3, <2>1 DEF Units
    <3>2. p \in hurt
      BY <1>4, <3>1
    <3>. QED BY <1>2, <3>1, <3>2
  <2>2. ASSUME NEW u \in missed
        PROVE  u \in Units(waste)
    <3>1. PICK p \in hurt : u \in {p} \X (1 .. quota_gcd[p] - given[p])
      BY <2>2
    <3>. QED BY <1>1, <1>2, <1>3, <3>1 DEF Units
  <2>. QED BY <2>1, <2>2
<1>. QED BY <1>5 DEF Missed

LEMMA RoundStep == TypeOK /\ RoundInv /\ [Next]_vars => [RoundKept]_vars
<1>. SUFFICES ASSUME TypeOK, RoundInv, [Next]_vars, round' # round, clean
              PROVE  /\ \A p \in Pools \ (hurt \cup {First}) : given[p] = quota_gcd[p]
                     /\ First \notin hurt =>
                          given[First] =
                            quota_gcd[First] + (IF opt_fail_only THEN Missed ELSE 0)
  BY DEF RoundKept
<1>1. PICK malgo \in Algos \cup {AnyAlgo} : SelectPool(malgo)
  <2>1. ~(Unclean \/ UNCHANGED roundVars)
    BY DEF Unclean, Account, roundVars
  <2>2. \A p \in Pools, q \in NewQuotas : ~PoolQuota(p, q)
    BY <2>1, Zenon DEF PoolQuota
  <2>3. ~ToggleFailOnly
    BY <2>1, Zenon DEF ToggleFailOnly
  <2>4. \A p \in Pools : ~(UseWork(p) \/ DiscardWork(p) \/ ManualEnable(p))
    BY <2>1 DEF UseWork, DiscardWork, ManualEnable
  <2>5. \A p \in Pools : ~(ConnectionLost(p) \/ PoolDied(p) \/ Reconnected(p) \/ Resumed(p))
    BY <2>1 DEF ConnectionLost, PoolDied, Reconnected, Resumed, ConnVarsOnly
  <2>. QED BY <2>1, <2>2, <2>3, <2>4, <2>5 DEF Next, vars
<1>2. ~Available(quota_used)
  BY <1>1, SelectPoolSearches DEF Search
<1>3. Tidy(quota_used, given, hurt)
  BY DEF RoundInv
<1>4. \A p \in Pools : quota_used[p] = quota_gcd[p]
  BY <1>2, <1>3, RenewedType, HalfType DEF Tidy, TypeOK
<1>5. \A p \in Pools : given[p] \in Nat /\ quota_gcd[p] \in Nat
  BY HalfType DEF TypeOK
<1>6. \A p \in Pools \ (hurt \cup {First}) : given[p] = quota_gcd[p]
  BY <1>3, <1>4 DEF Tidy
<1>7. ASSUME First \notin hurt
      PROVE  given[First] = quota_gcd[First] + (IF opt_fail_only THEN Missed ELSE 0)
  <2>1. First \in Pools /\ opt_fail_only \in BOOLEAN
    BY PoolsInOrder DEF TypeOK
  <2>2. CASE opt_fail_only
    BY <1>3, <1>4, <1>7, <2>1, <2>2, MissedIsWasted DEF Tidy
  <2>3. CASE ~opt_fail_only
    BY <1>3, <1>4, <1>5, <1>7, <2>1, <2>3 DEF Tidy
  <2>. QED BY <2>2, <2>3
<1>. QED BY <1>6, <1>7

\* Each round of the rotation gives each pool its quota, but for those found dead, whose
\* share goes to the first pool if failover-only is set (README:613-618, 557-559;
\* miner.c:5627-5697).
THEOREM RoundsCorrect == Spec => RoundsKeepQuotas
<1>1. Init => RoundInv
  <2>. SUFFICES ASSUME Init PROVE RoundInv
    OBVIOUS
  <2>1. quota_gcd \in [Pools -> 0 .. Half - 1]
    BY TypeInit DEF TypeOK
  <2>. QED BY <2>1, TidyAtFirst DEF Init, RoundInv
<1>2. TypeOK /\ RoundInv /\ [Next]_vars => RoundInv'
  BY RoundNext
<1>3. TypeOK /\ RoundInv /\ [Next]_vars => [RoundKept]_vars
  BY RoundStep
<1>4. Spec => []RoundInv
  BY <1>1, <1>2, QuotaTypeCorrect, PTL DEF Spec
<1>5. Spec => [][RoundKept]_vars
  BY <1>3, <1>4, QuotaTypeCorrect, PTL DEF Spec
<1>. QED BY <1>5 DEF RoundsKeepQuotas, RoundKept
=============================================================================
