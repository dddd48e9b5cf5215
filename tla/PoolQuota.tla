------------------------------ MODULE PoolQuota ------------------------------
(***************************************************************************)
(* Which pool the getwork scheduler asks for work under the load balance   *)
(* strategy (miner.c): quotas, their greatest common divisor, and the      *)
(* rotation of select_loadbalance, inside the loop of select_pool.         *)
(*                                                                         *)
(* quota_used and quota_gcd are ints, global_quota_gcd is an unsigned      *)
(* long: the numbers have a width here.  The scheduler asks for a work of  *)
(* any algorithm, or of one whose devices are short of work.  All pools    *)
(* are enabled stratum pools, as far as they are connected, and any of     *)
(* them may be the current one.                                            *)
(***************************************************************************)
EXTENDS Integers, SequencesExt, FiniteSetsExt

CONSTANTS
    Pools,
    NoPool,           \* NULL
    Order,            \* the array pools[], in order of priority too
    Algos, Algo,      \* algorithms, and that of a pool's goal
    AnyAlgo,          \* malgo = NULL
    Quota,            \* the quotas of the command line
    NewQuotas,        \* the quotas poolquota may set
    MayFail,          \* pools that can lose their connection
    Half,             \* an int has twice that many values, a long their square:
                      \* 2^31 in the code
    MaxStaged,        \* bound on the works that are staged
    MaxChanges,       \* bound on the operator's changes and discarded works
    MaxFailures       \* bound on lost connections

ASSUME QuotaAssumption ==
    /\ Order \in Seq(Pools) /\ IsInjective(Order)
    /\ ToSet(Order) = Pools /\ Pools # {} /\ NoPool \notin Pools
    /\ Algo \in [Pools -> Algos] /\ AnyAlgo \notin Algos
    /\ Half \in Nat \ {0, 1}
    /\ Quota \in [Pools -> 0 .. Half - 1] /\ NewQuotas \subseteq 0 .. Half - 1
    /\ MayFail \subseteq Pools
    /\ MaxStaged \in Nat \ {0}
    /\ MaxChanges \in Nat /\ MaxFailures \in Nat

VARIABLES
    quota,
    quota_used, quota_gcd,
    global_quota_gcd,
    rotating_pool,    \* its index, from 1
    opt_fail_only,
    active,           \* connected pools
    idle,             \* pools that are known to be dead
    asking,           \* the algorithm select_pool looks for, Nothing outside of it
    staged,           \* works handed out and not used yet, by pool
    last,             \* the pool of the last work
    crashed,          \* select_loadbalance has divided by zero
    round,            \* 0 or 1: the rounds of the rotation, from renewal to renewal
    given,            \* works of this round, by pool, as far as its quota goes
    hurt,             \* pools that were passed over with quota left in this round
    beyond,           \* a work of any algorithm was given outside of the quotas
    clean,            \* this round began, and went on, with nothing owed
    changes, failures

quotaVars == <<quota, quota_gcd, global_quota_gcd, opt_fail_only>>
turnVars  == <<quota_used, rotating_pool>>
connVars  == <<active, idle>>
roundVars == <<round, given, hurt, beyond, clean>>
vars == <<quotaVars, turnVars, connVars, asking, staged, last, crashed, roundVars,
          changes, failures>>

N == Len(Order)
First == Order[1]
Nothing == "nothing"
Unworkable(p) == p \in idle \/ p \notin active

-----------------------------------------------------------------------------
(* Numbers.                                                                *)

ULong(x) == x % (4 * Half * Half)
Int_(x) == ((x + Half) % (2 * Half)) - Half
\* Division of ints rounds to zero.
Quotient(x, y) == IF x < 0 THEN -((-x) \div y) ELSE x \div y

\* The divisor that adjust_quota_gcd finds, starting from the lowest quota: it goes down
\* until it divides the quota at hand, and does not look back at those before.  A set of
\* one number, the last of those the loop over the pools leaves in gcd.
Divisors(q) ==
    LET quotas == {q[p] : p \in Pools} \ {0}
        lowest == IF quotas = {} THEN 1 ELSE Min(quotas)
        next(gcd, x) == IF x = 0 THEN gcd ELSE Max({d \in 1 .. gcd : x % d = 0})
        loop == {gcd \in [0 .. N -> 1 .. lowest] :
                   /\ gcd[0] = lowest
                   /\ \A i \in 1 .. N : gcd[i] = next(gcd[i - 1], q[Order[i]])}
    IN {gcd[N] : gcd \in loop}

\* Faulty variant: the product is not brought back to the width of an int.
MutantRescaled(used, gcd) == ULong(used * global_quota_gcd) \div gcd

\* quota_used *= global_quota_gcd; quota_used /= gcd, in unsigned long arithmetic.
Rescaled(used, gcd) ==
    Int_(ULong(Int_(ULong(used * global_quota_gcd))) \div gcd)

-----------------------------------------------------------------------------
Init ==
    /\ quota = Quota /\ global_quota_gcd \in Divisors(Quota)
    /\ quota_gcd = [p \in Pools |-> Quota[p] \div global_quota_gcd]
    /\ quota_used = [p \in Pools |-> 0] /\ rotating_pool = 1
    /\ active = Pools /\ idle = {}
    /\ asking = Nothing /\ staged = [p \in Pools |-> 0] /\ last = NoPool
    /\ crashed = FALSE
    /\ opt_fail_only \in BOOLEAN
    /\ round = 0 /\ given = [p \in Pools |-> 0] /\ hurt = {} /\ beyond = FALSE
    /\ clean = TRUE
    /\ changes = 0 /\ failures = 0

-----------------------------------------------------------------------------
(* select_loadbalance(malgo).                                              *)

Available(used) == \E p \in Pools : used[p] < quota_gcd[p]

\* Pools are tested in the order of the array, from one of them on.
Turn(from, p) == ((CHOOSE i \in 1 .. N : Order[i] = p) - from + N) % N
OfAlgo(malgo, p) == malgo = AnyAlgo \/ Algo[p] = malgo

\* A dead pool's unit of quota is spent too, and if failover-only is set the first pool
\* gets one back: so many of them before the first pool's own turn.
Returned(malgo, used, from, p) ==
    IF ~opt_fail_only \/ p # First THEN 0
    ELSE Cardinality({q \in Pools \ {First} :
                        /\ OfAlgo(malgo, q) /\ Unworkable(q) /\ used[q] < quota_gcd[q]
                        /\ Turn(from, q) < Turn(from, First)})

\* What a pool has used when its turn comes.
AtTurn(malgo, used, from, p) == Int_(used[p] - Returned(malgo, used, from, p))

\* Faulty variant: only the pool whose turn it is is tested.
MutantFound(malgo, used, from) ==
    IF OfAlgo(malgo, Order[from]) /\ ~Unworkable(Order[from])
       /\ used[Order[from]] < quota_gcd[Order[from]]
    THEN Order[from] ELSE NoPool

\* Of those, the first that is usable and has quota left, if any.
Found(malgo, used, from) ==
    LET usable == {p \in Pools : /\ OfAlgo(malgo, p) /\ ~Unworkable(p)
                                 /\ AtTurn(malgo, used, from, p) < quota_gcd[p]}
    IN IF usable = {} THEN NoPool
       ELSE CHOOSE p \in usable : \A q \in usable : Turn(from, p) <= Turn(from, q)

\* The pools that are passed over on the way there, and those of them with quota left.
PassedOver(malgo, from, found) ==
    {p \in Pools : OfAlgo(malgo, p) /\ (found # NoPool => Turn(from, p) < Turn(from, found))}
Dead(malgo, used, from, found) ==
    {p \in PassedOver(malgo, from, found) : AtTurn(malgo, used, from, p) < quota_gcd[p]}

\* Faulty variant: the first pool does not get the units of the dead ones.
MutantSpent(used, found, dead) ==
    [p \in Pools |-> used[p] + (IF p \in dead \cup {found} THEN 1 ELSE 0)]

\* The search spends a unit of the pool that is found, and of the dead ones.
Spent(used, found, dead) ==
    [p \in Pools |-> Int_(used[p] + (IF p \in dead \cup {found} THEN 1 ELSE 0)
                          - (IF p = First /\ opt_fail_only THEN Cardinality(dead) ELSE 0))]

\* The first pool has been given back more units than an int can count.
Underflows(used, dead) == opt_fail_only /\ used[First] - Cardinality(dead) < -Half

\* For an algorithm: if none is found, the first of those that have spent the least of
\* their quota, dead or not.
Lowest(malgo, used, from, dead) ==
    LET mine == {p \in Pools : OfAlgo(malgo, p)}
        own(p) == IF p \in dead /\ ~(p = First /\ opt_fail_only) THEN 1 ELSE 0
        count == [p \in mine |->
                    Quotient(AtTurn(malgo, used, from, p) + own(p), quota_gcd[p])]
        least == {p \in mine : \A q \in mine : count[p] <= count[q]}
    IN IF malgo = AnyAlgo \/ mine = {} THEN NoPool
       ELSE CHOOSE p \in least : \A q \in least : Turn(from, p) <= Turn(from, q)

\* A pool of no quota that is passed over in a search for an algorithm.
DividesByZero(malgo, passed) == malgo # AnyAlgo /\ \E p \in passed : quota_gcd[p] = 0

\* Faulty variant: what is used is not renewed.
MutantRenewed == quota_used

\* When no pool has quota left, all get theirs anew, and the next pool comes first.
Renewed == [p \in Pools |-> quota_used[p] - quota_gcd[p]]

\* select_failover(malgo), and at last the current pool, if it is of the algorithm.
Fallback(malgo) ==
    LET usable == {i \in 1 .. N : OfAlgo(malgo, Order[i]) /\ Order[i] \notin idle}
    IN IF usable # {} THEN {Order[Min(usable)]}
       ELSE {IF OfAlgo(malgo, cp) THEN cp ELSE NoPool : cp \in Pools}

-----------------------------------------------------------------------------
(* select_pool(lagging, malgo), one turn of its loop.                      *)

\* A pool that is connected gives a work; one that is not is dead, and the search begins
\* again.
Answer(malgo, p) ==
    /\ asking' = IF p \in active \cup {NoPool} THEN Nothing ELSE malgo
    /\ idle' = IF p \in active THEN idle \ {p} ELSE idle \cup ({p} \ {NoPool})
    /\ last' = IF p \in active THEN p ELSE NoPool
    /\ staged' = IF p \in active THEN [staged EXCEPT ![p] = @ + 1] ELSE staged

\* Nothing is known of a round in which something was owed, or changed.
Account(known, rnd, works, passed, outside) ==
    /\ clean' = known /\ round' = rnd
    /\ given' = IF known THEN works ELSE [p \in Pools |-> 0]
    /\ hurt' = IF known THEN passed ELSE {}
    /\ beyond' = (known /\ outside)

\* The scheduler begins a search when a work is wanted, and goes on with it until a pool
\* gives one.  A crash ends everything.
SelectPool(malgo) ==
    /\ ~crashed
    /\ \/ asking = malgo
       \/ asking = Nothing /\ SumFunction(staged) < MaxStaged
    /\ \E renew \in {~Available(quota_used)} :
       \E used \in {IF renew THEN Renewed ELSE quota_used},
          from \in {IF renew THEN (rotating_pool % N) + 1 ELSE rotating_pool} :
       \E found \in {Found(malgo, used, from)} :
       \E dead \in {Dead(malgo, used, from, found)} :
         /\ quota_used' = Spent(used, found, dead)
         /\ crashed' = DividesByZero(malgo, PassedOver(malgo, from, found))
         /\ rotating_pool' = IF malgo = AnyAlgo /\ found # NoPool
                             THEN CHOOSE i \in 1 .. N : Order[i] = found ELSE from
         /\ \/ crashed' /\ Answer(malgo, NoPool)
            \/ ~crashed' /\ found # NoPool /\ Answer(malgo, found)
            \/ /\ ~crashed' /\ found = NoPool
               /\ \E p \in IF Lowest(malgo, used, from, dead) # NoPool
                           THEN {Lowest(malgo, used, from, dead)} ELSE Fallback(malgo) :
                    Answer(malgo, p)
         /\ LET known == /\ IF renew THEN \A p \in Pools : used[p] = 0 ELSE clean
                         /\ ~Underflows(used, dead)
                works == IF renew THEN [p \in Pools |-> 0] ELSE given
            IN Account(known, IF renew THEN 1 - round ELSE round,
                       IF found = NoPool THEN works ELSE [works EXCEPT ![found] = @ + 1],
                       (IF renew THEN {} ELSE hurt) \cup {p \in dead : Unworkable(p)},
                       \/ beyond /\ ~renew
                       \/ last' # NoPool /\ last' # found /\ malgo = AnyAlgo)
    /\ UNCHANGED <<quotaVars, active, changes, failures>>

-----------------------------------------------------------------------------
(* Works are used or discarded.                                            *)

UseWork(p) ==
    /\ staged[p] > 0
    /\ staged' = [staged EXCEPT ![p] = @ - 1]
    /\ UNCHANGED <<quotaVars, turnVars, connVars, asking, last, crashed, roundVars,
                   changes, failures>>

Change == changes < MaxChanges /\ changes' = changes + 1
Unclean == Account(FALSE, round, given, hurt, beyond)

\* discard_work gives the unit back, without a lock: while the scheduler counts a work
\* of the same pool, either of the two updates may be lost.
DiscardWork(p) ==
    /\ staged[p] > 0 /\ Change
    /\ staged' = [staged EXCEPT ![p] = @ - 1]
    /\ \E units \in {1} \cup (IF last = p THEN {0, 2} ELSE {}) :
         quota_used' = [quota_used EXCEPT ![p] = Int_(@ - units)]
    /\ Unclean
    /\ UNCHANGED <<quotaVars, rotating_pool, connVars, asking, last, crashed, failures>>

-----------------------------------------------------------------------------
(* The operator and the API.                                               *)

\* poolquota, with adjust_quota_gcd.
PoolQuota(p, q) ==
    /\ Change
    /\ quota' = [quota EXCEPT ![p] = q]
    /\ \E gcd \in Divisors(quota') :
         /\ global_quota_gcd' = gcd
         /\ quota_used' = [r \in Pools |-> Rescaled(quota_used[r], gcd)]
         /\ quota_gcd' = [r \in Pools |-> quota'[r] \div gcd]
    /\ Unclean
    /\ UNCHANGED <<opt_fail_only, rotating_pool, connVars, asking, staged, last, crashed,
                   failures>>

\* manual_enable_pool sets a quota of one and adjusts nothing.
ManualEnable(p) ==
    /\ quota[p] = 0
    /\ quota' = [quota EXCEPT ![p] = 1]
    /\ UNCHANGED <<quota_gcd, global_quota_gcd, opt_fail_only, turnVars, connVars, asking,
                   staged, last, crashed, roundVars, changes, failures>>

ToggleFailOnly ==
    /\ Change
    /\ opt_fail_only' = ~opt_fail_only
    /\ Unclean
    /\ UNCHANGED <<quota, quota_gcd, global_quota_gcd, turnVars, connVars, asking, staged,
                   last, crashed, failures>>

-----------------------------------------------------------------------------
(* The stratum threads, as far as they tell what pools are usable.         *)

ConnVarsOnly == UNCHANGED <<quotaVars, turnVars, asking, staged, last, crashed, roundVars,
                            changes>>

ConnectionLost(p) ==
    /\ p \in MayFail \cap active /\ failures < MaxFailures
    /\ failures' = failures + 1
    /\ active' = active \ {p}
    /\ UNCHANGED idle /\ ConnVarsOnly

PoolDied(p) ==
    /\ p \notin active \cup idle
    /\ idle' = idle \cup {p}
    /\ UNCHANGED <<active, failures>> /\ ConnVarsOnly

Reconnected(p) ==
    /\ p \notin active
    /\ active' = active \cup {p}
    /\ UNCHANGED <<idle, failures>> /\ ConnVarsOnly

Resumed(p) ==
    /\ p \in active \cap idle
    /\ idle' = idle \ {p}
    /\ UNCHANGED <<active, failures>> /\ ConnVarsOnly

-----------------------------------------------------------------------------
Next ==
    \/ \E malgo \in Algos \cup {AnyAlgo} : SelectPool(malgo)
    \/ \E p \in Pools : \/ UseWork(p) \/ DiscardWork(p) \/ ManualEnable(p)
                       \/ ConnectionLost(p) \/ PoolDied(p)
                       \/ Reconnected(p) \/ Resumed(p)
    \/ \E p \in Pools, q \in NewQuotas : PoolQuota(p, q)
    \/ ToggleFailOnly

Spec == Init /\ [][Next]_vars

\* The scheduler goes on with a search it has begun, works are used, and then it asks
\* for a work of any algorithm again.  A pool need never come back.
Fairness ==
    /\ WF_vars(asking # Nothing /\ SelectPool(asking))
    /\ SF_vars(asking = Nothing /\ SelectPool(AnyAlgo))
    /\ \A p \in Pools : WF_vars(UseWork(p)) /\ WF_vars(PoolDied(p)) /\ WF_vars(Resumed(p))

FairSpec == Spec /\ Fairness

-----------------------------------------------------------------------------
TypeOK ==
    /\ quota \in [Pools -> 0 .. Half - 1] /\ quota_gcd \in [Pools -> 0 .. Half - 1]
    /\ global_quota_gcd \in Nat \ {0} /\ opt_fail_only \in BOOLEAN
    /\ quota_used \in [Pools -> -Half .. Half - 1]
    /\ rotating_pool \in 1 .. N
    /\ active \subseteq Pools /\ idle \subseteq Pools
    /\ asking \in Algos \cup {AnyAlgo, Nothing}
    /\ staged \in [Pools -> Nat] /\ last \in Pools \cup {NoPool}
    /\ crashed \in BOOLEAN
    /\ round \in {0, 1} /\ given \in [Pools -> Nat] /\ hurt \subseteq Pools
    /\ beyond \in BOOLEAN /\ clean \in BOOLEAN
    /\ changes \in 0 .. MaxChanges /\ failures \in 0 .. MaxFailures

\* README:616-618: "if 2 pools are specified and pool0 is given a quota of 1 and pool1 is
\* given a quota of 9, pool0 will get 10% of the work and pool1 will get 90%", and 557-559
\* of failover-only.  A round gives each pool that was not found dead the works of its
\* quota, and the first pool those of the dead ones too if failover-only is set.
Missed == Cardinality(UNION {{p} \X (1 .. quota_gcd[p] - given[p]) : p \in hurt})
RoundsKeepQuotas ==
    [][round' # round /\ clean =>
         /\ \A p \in Pools \ (hurt \cup {First}) : given[p] = quota_gcd[p]
         /\ First \notin hurt =>
              given[First] = quota_gcd[First] + (IF opt_fail_only THEN Missed ELSE 0)]_vars

\* miner.c:5690: "Note it isn't possible to get here if !malgo".  A work of any algorithm
\* is given by quota, unless a pool with quota left was found dead, or no pool has any.
QuotasFirst == beyond => hurt # {} \/ \A p \in Pools : quota_gcd[p] = 0

\* Every pool with a quota that works gives work again and again, while the search for a
\* pool ends.  Failover-only, this holds while the first pool works.
NobodyStarves ==
    \A p \in Pools :
        []<>(\/ last = p
             \/ Unworkable(p) \/ quota_gcd[p] = 0
             \/ opt_fail_only /\ Unworkable(First)
             \/ asking # Nothing \/ crashed)
=============================================================================
