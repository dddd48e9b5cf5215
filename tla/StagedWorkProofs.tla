-------------------------- MODULE StagedWorkProofs --------------------------
(***************************************************************************)
(* The queue of works (StagedWork) for any devices, pools and bounds.      *)
(***************************************************************************)
EXTENDS StagedWork, CountingLemmas

-----------------------------------------------------------------------------
(* The queue and its counters.                                             *)

\* The works the counters count: those that can be rolled, the spare ones and
\* those of an algorithm.
Rollables == {w \in Work : Rollable(w)}
Spares == {w \in Work : w.spare}
WorksOf(a) == {w \in Work : AlgoOf(w) = a}

CountersRight ==
    /\ staged_rollable = Count(staged_work, Rollables)
    /\ staged_spare = Count(staged_work, Spares)
AlgosRight == \A a \in Algos : malgo_staged[a] = Count(staged_work, WorksOf(a))

QueueOK ==
    /\ staged_work \in Seq(Work)
    /\ malgo_staged \in [Algos -> Int]
    /\ CountersRight

\* A step keeps the queue and its counters together, for the algorithms as long
\* as no pool changes its own.
QueueKept ==
    /\ QueueOK'
    /\ goal_malgo' = goal_malgo /\ AlgosRight => AlgosRight'

\* What CountIn counts, by the kind of work.
LEMMA Counted ==
  ASSUME staged_work \in Seq(Work), NEW P \in SUBSET DOMAIN staged_work
  PROVE  /\ CountIn(P, Rollable) = Cardinality(At(staged_work, P, Rollables))
         /\ CountIn(P, LAMBDA w : w.spare) = Cardinality(At(staged_work, P, Spares))
         /\ \A a \in Algos : CountIn(P, LAMBDA w : AlgoOf(w) = a)
                               = Cardinality(At(staged_work, P, WorksOf(a)))
<1>1. \A i \in P : staged_work[i] \in Work
  BY ElementOfSeq, LenProperties
<1>2. {i \in P : Rollable(staged_work[i])} = At(staged_work, P, Rollables)
  BY <1>1 DEF At, Rollables
<1>3. {i \in P : staged_work[i].spare} = At(staged_work, P, Spares)
  BY <1>1 DEF At, Spares
<1>4. ASSUME NEW a \in Algos
      PROVE  {i \in P : AlgoOf(staged_work[i]) = a} = At(staged_work, P, WorksOf(a))
  BY <1>1 DEF At, WorksOf
<1>. QED BY <1>2, <1>3, <1>4 DEF CountIn

\* The counters are right when CountersExact says so, and the other way round.
LEMMA ExactIsRight ==
  ASSUME staged_work \in Seq(Work)
  PROVE  CountersExact <=> CountersRight /\ AlgosRight
<1>1. /\ CountIn(DOMAIN staged_work, Rollable) = Count(staged_work, Rollables)
      /\ CountIn(DOMAIN staged_work, LAMBDA w : w.spare) = Count(staged_work, Spares)
      /\ \A a \in Algos : CountIn(DOMAIN staged_work, LAMBDA w : AlgoOf(w) = a)
                            = Count(staged_work, WorksOf(a))
  BY Counted DEF Count, Positions
<1>. QED BY <1>1 DEF CountersExact, CountersRight, AlgosRight

\* hash_push puts the work somewhere in the queue and counts it.
LEMMA PushKeeps ==
  ASSUME QueueOK, NEW w \in Work, HashPush(w), goal_malgo \in [Pools -> Algos]
  PROVE  /\ \E i \in 1 .. Len(staged_work) + 1 :
              staged_work' = InsertAt(staged_work, i, w)
         /\ QueueKept
<1>1. PICK n \in Nat : n = Len(staged_work)
  BY LenProperties DEF QueueOK
<1>2. PICK i \in Places(w) : staged_work' = InsertAt(staged_work, i, w)
  BY DEF HashPush
<1>3. i \in 1 .. Len(staged_work) + 1
  BY <1>1 DEF Places
<1>4. staged_work \in Seq(Work)
  BY DEF QueueOK
<1>5. staged_work' \in Seq(Work)
  BY <1>2, <1>3, <1>4, Inserted
<1>6. ASSUME NEW K
      PROVE  /\ Count(staged_work', K) = Count(staged_work, K) + (IF w \in K THEN 1 ELSE 0)
             /\ Count(staged_work, K) \in Nat
  BY <1>2, <1>3, <1>4, CountInserted, CountType
<1>7. CountersRight'
  <2>1. staged_rollable' = Count(staged_work', Rollables)
    BY <1>6 DEF HashPush, QueueOK, CountersRight, If, Rollables
  <2>2. staged_spare' = Count(staged_work', Spares)
    BY <1>6 DEF HashPush, QueueOK, CountersRight, If, Spares
  <2>3. Rollables' = Rollables /\ Spares' = Spares
    BY DEF Rollables, Spares, Rollable
  <2>. QED BY <2>1, <2>2 DEF CountersRight, Rollables, Spares, Rollable
<1>8. AlgoOf(w) \in Algos
  BY DEF AlgoOf, Work
<1>9. malgo_staged' \in [Algos -> Int]
  BY <1>8 DEF HashPush, QueueOK
<1>10. ASSUME goal_malgo' = goal_malgo, AlgosRight
       PROVE  AlgosRight'
  <2>. SUFFICES ASSUME NEW a \in Algos
                PROVE  malgo_staged'[a] = Count(staged_work', WorksOf(a)')
    BY DEF AlgosRight
  <2>1. WorksOf(a)' = WorksOf(a)
    BY <1>10 DEF WorksOf, AlgoOf
  <2>2. malgo_staged[a] = Count(staged_work, WorksOf(a))
    BY <1>10 DEF AlgosRight
  <2>3. malgo_staged'[a] = malgo_staged[a] + (IF AlgoOf(w) = a THEN 1 ELSE 0)
    BY <1>8 DEF HashPush, QueueOK
  <2>4. w \in WorksOf(a) <=> AlgoOf(w) = a
    BY DEF WorksOf
  <2>. QED BY <1>6, <2>1, <2>2, <2>3, <2>4
<1>. QED BY <1>2, <1>3, <1>5, <1>7, <1>9, <1>10 DEF QueueOK, QueueKept

\* What is left of the queue when the works at the places S are taken out.
LEMMA WithoutQueue ==
  ASSUME staged_work \in Seq(Work), NEW S \in SUBSET DOMAIN staged_work
  PROVE  /\ Without(S) \in Seq(Work)
         /\ \E from \in Bijection(DOMAIN Without(S), DOMAIN staged_work \ S) :
              \A k \in DOMAIN Without(S) : Without(S)[k] = staged_work[from[k]]
         /\ \A K : /\ Count(Without(S), K) \in Nat
                   /\ Count(staged_work, K) \in Nat
                   /\ Cardinality(At(staged_work, S, K)) \in Nat
                   /\ Count(Without(S), K)
                        = Count(staged_work, K) - Cardinality(At(staged_work, S, K))
<1>1. PICK left : left = DOMAIN staged_work \ S
  OBVIOUS
<1>2. left \in SUBSET DOMAIN staged_work /\ left \in SUBSET Nat
  BY <1>1, LenProperties
<1>3. IsFiniteSet(left) /\ Cardinality(left) \in Nat
  BY <1>2, PositionsFinite
<1>4. PICK n \in Nat : n = Cardinality(left)
  BY <1>3
<1>5. PICK from : from = [k \in 1 .. Cardinality(left) |->
                            CHOOSE i \in left : Cardinality({j \in left : j < i}) = k - 1]
  OBVIOUS
<1>6. from \in Bijection(1 .. Cardinality(left), left)
  BY ONLY <1>2, <1>3, <1>5, LeftOver
<1>7. PICK t : t = Without(S)
  OBVIOUS
<1>8. t = [k \in 1 .. n |-> staged_work[from[k]]]
  BY <1>1, <1>4, <1>5, <1>7 DEF Without
<1>9. \A i \in left : staged_work[i] \in Work
  BY <1>2, ElementOfSeq, LenProperties
<1>10. from \in [1 .. n -> left]
  BY <1>4, <1>6 DEF Bijection, Injection
<1>11. t \in Seq(Work) /\ DOMAIN t = 1 .. n
  BY <1>8, <1>9, <1>10
<1>12. from \in Bijection(DOMAIN t, left) /\ \A k \in DOMAIN t : t[k] = staged_work[from[k]]
  BY <1>4, <1>6, <1>8, <1>11
<1>13. ASSUME NEW K
       PROVE  /\ Count(t, K) \in Nat /\ Count(staged_work, K) \in Nat
              /\ Cardinality(At(staged_work, S, K)) \in Nat
              /\ Count(t, K) = Count(staged_work, K) - Cardinality(At(staged_work, S, K))
  <2>1. Count(t, K) = Cardinality(At(staged_work, left, K))
    BY <1>2, <1>11, <1>12, CountMoved
  <2>2. At(staged_work, left, K) = Positions(staged_work, K) \ At(staged_work, S, K)
    BY <1>1 DEF Positions, At
  <2>3. At(staged_work, S, K) \subseteq Positions(staged_work, K)
    BY DEF Positions, At
  <2>4. IsFiniteSet(Positions(staged_work, K)) /\ Count(staged_work, K) \in Nat
    BY CountType
  <2>5. /\ IsFiniteSet(At(staged_work, S, K))
        /\ Cardinality(At(staged_work, S, K)) \in Nat
    BY <2>3, <2>4, FS_Subset, FS_CardinalityType
  <2>6. Cardinality(Positions(staged_work, K) \ At(staged_work, S, K))
          = Cardinality(Positions(staged_work, K))
             - Cardinality(Positions(staged_work, K) \cap At(staged_work, S, K))
    BY <2>4, FS_Difference
  <2>7. Positions(staged_work, K) \cap At(staged_work, S, K) = At(staged_work, S, K)
    BY <2>3
  <2>8. Count(t, K) = Count(staged_work, K) - Cardinality(At(staged_work, S, K))
    BY <2>1, <2>2, <2>6, <2>7 DEF Count
  <2>9. Count(t, K) \in Nat
    BY <1>11, CountType
  <2>. QED BY <2>4, <2>5, <2>8, <2>9
<1>. QED BY <1>1, <1>7, <1>11, <1>12, <1>13

\* unstage_work takes the works out and counts them off.
LEMMA UnstageKeeps ==
  ASSUME QueueOK, NEW S \in SUBSET DOMAIN staged_work, Unstage(S)
  PROVE  QueueKept
<1>1. staged_work \in Seq(Work)
  BY DEF QueueOK
<1>2. staged_work' = Without(S)
  BY DEF Unstage
<1>3. staged_work' \in Seq(Work)
  BY <1>1, <1>2, WithoutQueue
<1>4. ASSUME NEW K
      PROVE  /\ Count(staged_work', K) \in Nat /\ Count(staged_work, K) \in Nat
             /\ Cardinality(At(staged_work, S, K)) \in Nat
             /\ Count(staged_work', K)
                  = Count(staged_work, K) - Cardinality(At(staged_work, S, K))
  BY <1>1, <1>2, WithoutQueue
<1>5. CountersRight'
  <2>1. staged_rollable' = staged_rollable - CountIn(S, Rollable)
    BY DEF Unstage
  <2>2. staged_spare' = staged_spare - CountIn(S, LAMBDA w : w.spare)
    BY DEF Unstage
  <2>3. /\ CountIn(S, Rollable) = Cardinality(At(staged_work, S, Rollables))
        /\ CountIn(S, LAMBDA w : w.spare) = Cardinality(At(staged_work, S, Spares))
    BY <1>1, Counted
  <2>4. staged_rollable' = Count(staged_work', Rollables)
    BY <1>4, <2>1, <2>3 DEF QueueOK, CountersRight
  <2>5. staged_spare' = Count(staged_work', Spares)
    BY <1>4, <2>2, <2>3 DEF QueueOK, CountersRight
  <2>. QED BY <2>4, <2>5 DEF CountersRight, Rollables, Spares, Rollable
<1>6. ASSUME NEW a \in Algos
      PROVE  /\ malgo_staged'[a]
                  = malgo_staged[a] - Cardinality(At(staged_work, S, WorksOf(a)))
             /\ Cardinality(At(staged_work, S, WorksOf(a))) \in Nat
  <2>1. malgo_staged'[a] = malgo_staged[a] - CountIn(S, LAMBDA w : AlgoOf(w) = a)
    BY DEF Unstage
  <2>2. CountIn(S, LAMBDA w : AlgoOf(w) = a)
          = Cardinality(At(staged_work, S, WorksOf(a)))
    BY <1>1, Counted
  <2>. QED BY <1>4, <2>1, <2>2
<1>7. malgo_staged' \in [Algos -> Int]
  <2>1. malgo_staged' = [a \in Algos |-> malgo_staged'[a]]
    BY DEF Unstage
  <2>2. \A a \in Algos : malgo_staged'[a] \in Int
    BY <1>6 DEF QueueOK
  <2>. QED BY <2>1, <2>2
<1>8. ASSUME goal_malgo' = goal_malgo, AlgosRight
      PROVE  AlgosRight'
  <2>. SUFFICES ASSUME NEW a \in Algos
                PROVE  malgo_staged'[a] = Count(staged_work', WorksOf(a)')
    BY DEF AlgosRight
  <2>1. WorksOf(a)' = WorksOf(a)
    BY <1>8 DEF WorksOf, AlgoOf
  <2>2. malgo_staged[a] = Count(staged_work, WorksOf(a))
    BY <1>8 DEF AlgosRight
  <2>. QED BY <1>4, <1>6, <2>1, <2>2
<1>. QED BY <1>3, <1>5, <1>7, <1>8 DEF QueueOK, QueueKept

\* The first work that can be rolled is in the queue, and can be rolled.
LEMMA FirstIsRollable ==
  ASSUME staged_work \in Seq(Work), FirstRollable # 0
  PROVE  /\ FirstRollable \in DOMAIN staged_work
         /\ CanRoll(staged_work[FirstRollable])
<1>1. PICK S : S = {i \in DOMAIN staged_work : CanRoll(staged_work[i])}
  OBVIOUS
<1>2. FirstRollable = Min(S) /\ S # {}
  BY <1>1 DEF FirstRollable
<1>3. S \in SUBSET Nat
  BY <1>1, LenProperties
<1>4. Min(S) \in S
  BY <1>2, <1>3, MinInSet
<1>. QED BY <1>1, <1>2, <1>4

\* Rolling a work or cloning it makes a work of the same kind.
LEMMA RolledWork ==
  ASSUME NEW w \in Work
  PROVE  /\ Rolled(w) \in Work /\ CloneOf(w) \in Work
         /\ Rolled(w).rolls = w.rolls + 1 /\ CloneOf(w).rolls = w.rolls
         /\ Rolled(w).pool = w.pool /\ CloneOf(w).pool = w.pool
         /\ Rolled(w).answer = w.answer /\ CloneOf(w).answer = w.answer
         /\ Rolled(w).clone = w.clone /\ CloneOf(w).clone = TRUE
         /\ Rolled(w).spare = w.spare /\ Rolled(w).rolltime = w.rolltime
<1>1. PICK r \in Nat : r = w.rolls + 1
  BY DEF Work
<1>2. Rolled(w) = [w EXCEPT !.rolls = r]
  BY <1>1 DEF Rolled
<1>3. /\ Rolled(w) \in Work /\ Rolled(w).rolls = r /\ Rolled(w).pool = w.pool
      /\ Rolled(w).answer = w.answer /\ Rolled(w).clone = w.clone
      /\ Rolled(w).spare = w.spare /\ Rolled(w).rolltime = w.rolltime
  BY <1>2 DEF Work
<1>4. /\ CloneOf(w) \in Work /\ CloneOf(w).rolls = w.rolls /\ CloneOf(w).pool = w.pool
      /\ CloneOf(w).answer = w.answer /\ CloneOf(w).clone = TRUE
  BY DEF CloneOf, Work
<1>. QED BY <1>1, <1>3, <1>4

\* clone_available only rolls the master: no counter changes.
LEMMA CloneKeeps ==
  ASSUME QueueOK, NEW i \in DOMAIN staged_work, CloneAt(i),
         UNCHANGED <<staged_rollable, staged_spare, malgo_staged>>
  PROVE  /\ QueueKept /\ TheClone(i) \in Work
         /\ DOMAIN staged_work' = DOMAIN staged_work
         /\ \A j \in DOMAIN staged_work : staged_work'[j].pool = staged_work[j].pool
<1>1. staged_work \in Seq(Work)
  BY DEF QueueOK
<1>2. \A j \in DOMAIN staged_work : staged_work[j] \in Work
  BY <1>1, ElementOfSeq, LenProperties
<1>3. PICK w \in Work : w = staged_work[i]
  BY <1>2
<1>4. staged_work' = [staged_work EXCEPT ![i] = Rolled(Rolled(w))]
  BY <1>3 DEF CloneAt
<1>5. /\ Rolled(Rolled(w)) \in Work /\ CloneOf(Rolled(w)) \in Work
      /\ Rolled(Rolled(w)).pool = w.pool /\ Rolled(Rolled(w)).clone = w.clone
      /\ Rolled(Rolled(w)).spare = w.spare /\ Rolled(Rolled(w)).rolltime = w.rolltime
  BY RolledWork
<1>6. staged_work' \in Seq(Work) /\ DOMAIN staged_work' = DOMAIN staged_work
  BY <1>1, <1>4, <1>5, ExceptSeq, LenProperties
<1>7. ASSUME NEW j \in DOMAIN staged_work
      PROVE  /\ staged_work'[j] \in Work
             /\ staged_work'[j].pool = staged_work[j].pool
             /\ staged_work'[j].clone = staged_work[j].clone
             /\ staged_work'[j].spare = staged_work[j].spare
             /\ staged_work'[j].rolltime = staged_work[j].rolltime
  <2>1. CASE j = i
    BY <1>3, <1>4, <1>5, <2>1
  <2>2. CASE j # i
    BY <1>2, <1>4, <2>2
  <2>. QED BY <2>1, <2>2
<1>8. CountersRight'
  <2>1. Positions(staged_work', Rollables) = Positions(staged_work, Rollables)
    BY <1>2, <1>6, <1>7 DEF Positions, At, Rollables, Rollable
  <2>2. Positions(staged_work', Spares) = Positions(staged_work, Spares)
    BY <1>2, <1>6, <1>7 DEF Positions, At, Spares
  <2>3. /\ staged_rollable' = Count(staged_work', Rollables)
        /\ staged_spare' = Count(staged_work', Spares)
    BY <2>1, <2>2 DEF Count, QueueOK, CountersRight
  <2>. QED BY <2>3 DEF CountersRight, Rollables, Spares, Rollable
<1>9. ASSUME goal_malgo' = goal_malgo, AlgosRight
      PROVE  AlgosRight'
  <2>. SUFFICES ASSUME NEW a \in Algos
                PROVE  malgo_staged'[a] = Count(staged_work', WorksOf(a)')
    BY DEF AlgosRight
  <2>1. WorksOf(a)' = WorksOf(a)
    BY <1>9 DEF WorksOf, AlgoOf
  <2>2. Positions(staged_work', WorksOf(a)) = Positions(staged_work, WorksOf(a))
    BY <1>2, <1>6, <1>7 DEF Positions, At, WorksOf, AlgoOf
  <2>3. malgo_staged[a] = Count(staged_work, WorksOf(a))
    BY <1>9 DEF AlgosRight
  <2>. QED BY <2>1, <2>2, <2>3 DEF Count
<1>10. malgo_staged' \in [Algos -> Int]
  BY DEF QueueOK
<1>. QED BY <1>3, <1>5, <1>6, <1>7, <1>8, <1>9, <1>10
     DEF QueueOK, QueueKept, TheClone
-----------------------------------------------------------------------------
(* The types.                                                              *)

MainPlaces == {"top", "select", "asleep", "fetch", "retry", "request", "failed",
               "push", "crashed"}
MinerPlaces == {"clear", "pop", "clone", "push", "check", "mining", "wake"}
UpdatePlaces == {"idle", "discard", "flag", "convert", "clone", "last", "lost", "down"}

TuneOK == staged_full \in BOOLEAN /\ opt_queue \in Nat

\* The scheduler looks for a spare work's algorithm only between Top and StageMain.
MainOK ==
    /\ main_pc \in MainPlaces
    /\ main_work \in Work /\ max_staged \in Nat /\ lagging \in BOOLEAN
    /\ malgo \in 0 .. Len(mining_algorithms)
    /\ main_pc \in {"top", "asleep", "fetch"} => malgo = 0
    /\ gws_waiting \in BOOLEAN /\ (gws_waiting => main_pc = "asleep")

MinerOK ==
    /\ miner_pc \in [Miners -> MinerPlaces]
    /\ miner_work \in [Miners -> Work] /\ work_restart \in [Miners -> BOOLEAN]
    /\ getq_waiters \subseteq {m \in Miners : miner_pc[m] = "pop"}

UpdateOK ==
    /\ update_pc \in [Pools -> UpdatePlaces]
    /\ update_work \in [Pools -> Work] /\ mrs \in [Pools -> Int]

PoolOK ==
    /\ job \in [Pools -> Nat] /\ work_restart_id \in [Pools -> Nat]
    /\ goal_malgo \in [Pools -> Algos] /\ active \subseteq Pools
    /\ answers \in [Pools -> 0 .. MaxAnswers] /\ drops \in 0 .. MaxDrops

StagedInv == QueueOK /\ TuneOK /\ MainOK /\ MinerOK /\ UpdateOK /\ PoolOK

LEMMA StagedInvIsTyped == StagedInv => TypeOK
<1>. SUFFICES ASSUME StagedInv PROVE TypeOK
  OBVIOUS
<1>1. staged_rollable \in Nat /\ staged_spare \in Nat
  BY CountType DEF StagedInv, QueueOK, CountersRight
<1>. QED BY <1>1 DEF TypeOK, StagedInv, QueueOK, TuneOK, MainOK, MinerOK, UpdateOK,
        PoolOK, MainPlaces, MinerPlaces, UpdatePlaces

\* What a step leaves alone keeps its type.
LEMMA Unmoved ==
  ASSUME StagedInv
  PROVE  /\ UNCHANGED queueVars => QueueKept
         /\ UNCHANGED tuneVars => TuneOK'
         /\ UNCHANGED <<mainVars, gws_waiting>> => MainOK'
         /\ UNCHANGED mainVars /\ gws_waiting' = FALSE => MainOK'
         /\ UNCHANGED <<minerVars, getq_waiters>> => MinerOK'
         /\ UNCHANGED minerVars /\ getq_waiters' = {} => MinerOK'
         /\ UNCHANGED updateVars => UpdateOK'
         /\ UNCHANGED poolVars => PoolOK'
<1>1. UNCHANGED queueVars => QueueKept
  <2>. SUFFICES ASSUME UNCHANGED queueVars PROVE QueueKept
    OBVIOUS
  <2>1. Rollables' = Rollables /\ Spares' = Spares
    BY DEF Rollables, Spares, Rollable
  <2>2. QueueOK'
    BY <2>1 DEF StagedInv, queueVars, QueueOK, CountersRight
  <2>3. ASSUME goal_malgo' = goal_malgo, AlgosRight PROVE AlgosRight'
    <3>1. \A a : WorksOf(a)' = WorksOf(a)
      BY <2>3 DEF WorksOf, AlgoOf
    <3>. QED BY <2>3, <3>1 DEF AlgosRight, queueVars
  <2>. QED BY <2>2, <2>3 DEF QueueKept
<1>2. UNCHANGED tuneVars => TuneOK'
  BY DEF StagedInv, TuneOK, tuneVars
<1>3. UNCHANGED <<mainVars, gws_waiting>> => MainOK'
  BY DEF StagedInv, MainOK, mainVars
<1>4. UNCHANGED mainVars /\ gws_waiting' = FALSE => MainOK'
  BY DEF StagedInv, MainOK, mainVars
<1>5. UNCHANGED <<minerVars, getq_waiters>> => MinerOK'
  BY DEF StagedInv, MinerOK, minerVars
<1>6. UNCHANGED minerVars /\ getq_waiters' = {} => MinerOK'
  BY DEF StagedInv, MinerOK, minerVars
<1>7. UNCHANGED updateVars => UpdateOK'
  BY DEF StagedInv, UpdateOK, updateVars
<1>8. UNCHANGED poolVars => PoolOK'
  BY DEF StagedInv, PoolOK, poolVars
<1>. QED BY <1>1, <1>2, <1>3, <1>4, <1>5, <1>6, <1>7, <1>8

\* The constants.
LEMMA Constants ==
  /\ Current \in Pools /\ Pools # {}
  /\ base_queue \in Nat /\ \A a : base_queue_of(a) \in Nat
  /\ MaxAnswers \in Nat /\ MaxDrops \in Nat
  /\ Len(mining_algorithms) \in Nat
  /\ DOMAIN mining_algorithms = 1 .. Len(mining_algorithms)
  /\ \A k \in DOMAIN mining_algorithms : mining_algorithms[k] \in Algos
<1>1. Current \in Pools /\ IsFiniteSet(Miners) /\ mining_algorithms \in Seq(Algos)
  BY StagedAssumption
<1>2. base_queue \in Nat
  BY <1>1, FS_CardinalityType DEF base_queue
<1>3. ASSUME NEW a PROVE base_queue_of(a) \in Nat
  BY <1>1, FS_Subset, FS_CardinalityType DEF base_queue_of
<1>4. /\ Len(mining_algorithms) \in Nat
      /\ DOMAIN mining_algorithms = 1 .. Len(mining_algorithms)
      /\ \A k \in DOMAIN mining_algorithms : mining_algorithms[k] \in Algos
  BY ONLY <1>1, LenProperties, ElementOfSeq
<1>5. MaxAnswers \in Nat /\ MaxDrops \in Nat
  BY StagedAssumption
<1>. QED BY <1>1, <1>2, <1>3, <1>4, <1>5

LEMMA NoWorkType == NoWork \in Work /\ NoWork.answer = 0 /\ NoWork.spare = FALSE
  BY StagedAssumption DEF NoWork, Work

\* A work may be stamped at any time, whatever it is.
LEMMA StampedWork ==
  ASSUME NEW w \in Work, PoolOK
  PROVE  /\ Stamp(w) \in Work /\ Stamp(w).pool = w.pool /\ Stamp(w).answer = w.answer
         /\ Stamp(w).rolls = w.rolls /\ Stamp(w).clone = w.clone
         /\ Stamp(w).spare = w.spare
  BY DEF Stamp, Work, PoolOK

\* select_pool finds some pool when any algorithm will do.
LEMMA Selected ==
  ASSUME StagedInv, NEW lag, NEW a, NEW p \in SelectPool(lag, a)
  PROVE  /\ p \in Pools \cup {NoPool}
         /\ a = NoAlgo => p \in Pools
         /\ p # NoPool /\ a # NoAlgo => goal_malgo[p] = a
<1>1. Current \in Pools /\ active \subseteq Pools
  BY StagedAssumption DEF StagedInv, PoolOK
<1>2. CASE ~lag \/ OptFailOnly
  <2>1. CASE a \in {NoAlgo, goal_malgo[Current]}
    BY <1>1, <1>2, <2>1 DEF SelectPool
  <2>2. CASE a \notin {NoAlgo, goal_malgo[Current]}
    BY <1>1, <1>2, <2>2 DEF SelectPool
  <2>. QED BY <2>1, <2>2
<1>3. CASE ~(~lag \/ OptFailOnly)
  BY <1>1, <1>3 DEF SelectPool
<1>. QED BY <1>2, <1>3

\* The loop over the algorithms.
LEMMA Scanned ==
  ASSUME StagedInv, NEW k \in 0 .. Len(mining_algorithms), ScanAfter(k)
  PROVE  /\ main_pc' = "select" =>
              /\ malgo' \in DOMAIN mining_algorithms
              /\ Short(malgo')
              /\ UNCHANGED <<staged_full, gws_waiting>>
         /\ main_pc' # "select" =>
              /\ main_pc' = "asleep" /\ malgo' = 0 /\ gws_waiting' = TRUE
              /\ staged_full' = TRUE
              /\ \A j \in DOMAIN mining_algorithms : j > k => ~Short(j)
<1>1. PICK S : S = {j \in DOMAIN mining_algorithms : j > k /\ Short(j)}
  OBVIOUS
<1>2. S # {} => Min(S) \in S
  <2>1. S \in SUBSET Nat
    BY <1>1, Constants
  <2>. QED BY <2>1, MinInSet
<1>. QED BY <1>1, <1>2 DEF ScanAfter

LEMMA ScanTypes ==
  ASSUME StagedInv, NEW k \in 0 .. Len(mining_algorithms), ScanAfter(k),
         main_pc # "asleep", opt_queue' = opt_queue,
         main_work' \in Work, max_staged' \in Nat, lagging' \in BOOLEAN
  PROVE  MainOK' /\ TuneOK'
<1>1. gws_waiting = FALSE /\ opt_queue \in Nat /\ staged_full \in BOOLEAN
  BY DEF StagedInv, MainOK, TuneOK
<1>2. malgo' \in 0 .. Len(mining_algorithms) /\ main_pc' \in {"select", "asleep"}
  <2>1. /\ main_pc' = "select" => malgo' \in DOMAIN mining_algorithms
        /\ main_pc' # "select" => main_pc' = "asleep" /\ malgo' = 0
    BY Scanned
  <2>2. /\ Len(mining_algorithms) \in Nat
        /\ DOMAIN mining_algorithms = 1 .. Len(mining_algorithms)
    BY Constants
  <2>. QED BY ONLY <2>1, <2>2
<1>3. CASE main_pc' = "select"
  BY <1>1, <1>2, <1>3, Scanned DEF MainOK, TuneOK, MainPlaces
<1>4. CASE main_pc' # "select"
  BY <1>1, <1>2, <1>4, Scanned DEF MainOK, TuneOK, MainPlaces
<1>. QED BY <1>3, <1>4

\* A step of the scheduler.
LEMMA SchedulerTypes ==
  ASSUME StagedInv, Scheduler
  PROVE  StagedInv' /\ QueueKept
<1>. USE DEF MainPlaces
<1>1. StagedInv => QueueOK /\ TuneOK /\ MainOK /\ MinerOK /\ UpdateOK /\ PoolOK
  BY DEF StagedInv
<1>2. UNCHANGED <<minerVars, updateVars>>
  BY DEF Scheduler, Top, SelectSpare, Woken, Fetch, StratumDown, Generate, ScheduleClone,
     Request, Reply, RequestFails, Failover, StageMain
<1>3. UpdateOK'
  BY <1>2, Unmoved
<1>4. CASE Top
  <2>1. QueueKept /\ MinerOK' /\ PoolOK'
    BY <1>2, <1>4, Unmoved DEF Top
  <2>2. CASE TotalStaged > max_staged'
    <3>1. ScanAfter(0)
      BY <1>4, <2>2 DEF Top
    <3>2. max_staged' \in Nat /\ lagging' \in BOOLEAN /\ UNCHANGED <<opt_queue, main_work>>
      BY <1>1, <1>4, Constants DEF Top, TuneOK
    <3>3. MainOK' /\ TuneOK'
      BY <1>1, <1>4, <3>1, <3>2, ScanTypes, Constants DEF Top, MainOK
    <3>. QED BY <1>3, <2>1, <3>3 DEF StagedInv, QueueKept
  <2>3. CASE ~(TotalStaged > max_staged')
    <3>1. MainOK' /\ TuneOK'
      BY <1>1, <1>4, <2>3, Constants DEF Top, MainOK, TuneOK
    <3>. QED BY <1>3, <2>1, <3>1 DEF StagedInv, QueueKept
  <2>. QED BY <2>2, <2>3
<1>5. CASE SelectSpare
  <2>1. QueueKept /\ MinerOK' /\ PoolOK'
    BY <1>2, <1>5, Unmoved DEF SelectSpare
  <2>2. PICK p \in SelectPool(lagging, Algo) :
          IF p = NoPool THEN ScanAfter(malgo) /\ UNCHANGED main_work
          ELSE /\ main_work' = [NoWork EXCEPT !.pool = p, !.spare = TRUE]
               /\ main_pc' = "retry" /\ UNCHANGED <<malgo, staged_full, gws_waiting>>
    BY <1>5 DEF SelectSpare
  <2>3. CASE p = NoPool
    <3>1. MainOK' /\ TuneOK'
      BY <1>1, <1>5, <2>2, <2>3, ScanTypes DEF SelectSpare, MainOK
    <3>. QED BY <1>3, <2>1, <3>1 DEF StagedInv, QueueKept
  <2>4. CASE p # NoPool
    <3>. p \in Pools
      BY <2>4, Selected
    <3>1. main_work' \in Work
      BY <2>2, <2>4, NoWorkType DEF Work
    <3>2. MainOK' /\ TuneOK'
      BY <1>1, <1>5, <2>2, <2>4, <3>1 DEF SelectSpare, MainOK, TuneOK
    <3>. QED BY <1>3, <2>1, <3>2 DEF StagedInv, QueueKept
  <2>. QED BY <2>3, <2>4
<1>6. CASE Woken
  <2>1. QueueKept /\ MinerOK' /\ PoolOK' /\ TuneOK'
    BY <1>2, <1>6, Unmoved DEF Woken, sleepVars
  <2>2. MainOK'
    BY <1>1, <1>6 DEF Woken, sleepVars, MainOK
  <2>. QED BY <1>3, <2>1, <2>2 DEF StagedInv, QueueKept
<1>7. CASE Fetch
  <2>1. QueueKept /\ MinerOK' /\ PoolOK' /\ TuneOK'
    BY <1>2, <1>7, Unmoved DEF Fetch, sleepVars
  <2>2. PICK p \in SelectPool(lagging, Algo) : main_work' = [NoWork EXCEPT !.pool = p]
    BY <1>7 DEF Fetch
  <2>3. Algo = NoAlgo
    BY <1>1, <1>7 DEF Algo, Fetch, MainOK
  <2>4. main_work' \in Work
    BY <2>2, <2>3, Selected, NoWorkType DEF Work
  <2>5. MainOK'
    BY <1>1, <1>7, <2>4 DEF Fetch, sleepVars, MainOK
  <2>. QED BY <1>3, <2>1, <2>5 DEF StagedInv, QueueKept
<1>8. CASE StratumDown \/ Failover
  <2>1. QueueKept /\ MinerOK' /\ PoolOK' /\ TuneOK'
    BY <1>2, <1>8, Unmoved DEF StratumDown, Failover, sleepVars
  <2>2. PICK lag : NextPool(lag)
    BY <1>8 DEF StratumDown, Failover
  <2>3. PICK p \in SelectPool(lag, Algo) :
          IF p = NoPool THEN main_pc' = "crashed" /\ UNCHANGED main_work
          ELSE main_pc' = "retry" /\ main_work' = [main_work EXCEPT !.pool = p]
    BY <2>2 DEF NextPool
  <2>4. p \in Pools \cup {NoPool}
    BY <2>3, Selected
  <2>5. main_work' \in Work /\ main_pc' \in {"crashed", "retry"}
    BY <1>1, <2>3, <2>4 DEF MainOK, Work
  <2>6. /\ main_pc \in {"retry", "failed"}
        /\ UNCHANGED <<max_staged, lagging, malgo, gws_waiting>>
    BY <1>8 DEF StratumDown, Failover, sleepVars
  <2>7. MainOK'
    BY <1>1, <2>5, <2>6 DEF MainOK
  <2>. QED BY <1>3, <2>1, <2>7 DEF StagedInv, QueueKept
<1>9. CASE Generate \/ Request
  <2>1. QueueKept /\ MinerOK' /\ PoolOK' /\ TuneOK'
    BY <1>2, <1>9, Unmoved DEF Generate, Request, sleepVars
  <2>2. PICK w : w = [main_work EXCEPT !.job = job[main_work.pool]]
    OBVIOUS
  <2>3. w \in Work
    BY <1>1, <2>2 DEF MainOK, PoolOK, Work
  <2>4. main_work' \in {w, Stamp(w)}
    BY <1>9, <2>2 DEF Generate, Request
  <2>5. main_work' \in Work
    BY <1>1, <2>3, <2>4, StampedWork
  <2>6. MainOK'
    BY <1>1, <1>9, <2>5 DEF Generate, Request, sleepVars, MainOK
  <2>. QED BY <1>3, <2>1, <2>6 DEF StagedInv, QueueKept
<1>10. CASE ScheduleClone
  <2>1. PICK i \in DOMAIN staged_work : i = FirstRollable
    BY <1>1, <1>10, FirstIsRollable DEF ScheduleClone, QueueOK
  <2>2. CloneAt(i) /\ main_work' = Stamp(TheClone(i))
    BY <1>10, <2>1 DEF ScheduleClone
  <2>3. QueueKept /\ TheClone(i) \in Work
    BY <1>1, <1>10, <2>2, CloneKeeps DEF ScheduleClone
  <2>4. main_work' \in Work
    BY <1>1, <2>2, <2>3, StampedWork
  <2>5. MainOK'
    BY <1>1, <1>10, <2>4 DEF ScheduleClone, sleepVars, MainOK
  <2>6. MinerOK' /\ PoolOK' /\ TuneOK'
    BY <1>2, <1>10, Unmoved DEF ScheduleClone, sleepVars
  <2>. QED BY <1>3, <2>3, <2>5, <2>6 DEF StagedInv, QueueKept
<1>11. CASE Reply
  <2>1. QueueKept /\ MinerOK' /\ TuneOK'
    BY <1>2, <1>11, Unmoved DEF Reply, sleepVars
  <2>2. PICK j \in {main_work.job, job[main_work.pool]}, r \in BOOLEAN :
          main_work' = Stamp([main_work EXCEPT !.job = j, !.rolltime = r,
                                               !.answer = answers'[main_work.pool]])
    BY <1>11 DEF Reply
  <2>3. main_work.pool \in Pools
    BY <1>1 DEF MainOK, Work
  <2>4. answers' \in [Pools -> 0 .. MaxAnswers]
    <3>1. PICK n \in Nat : n = MaxAnswers
      BY Constants
    <3>2. answers \in [Pools -> 0 .. n] /\ answers[main_work.pool] < n
      BY <1>1, <1>11, <3>1 DEF Reply, PoolOK
    <3>3. answers[main_work.pool] + 1 \in 0 .. n
      BY <2>3, <3>2
    <3>4. answers' = [answers EXCEPT ![main_work.pool] = answers[main_work.pool] + 1]
      BY <1>11 DEF Reply
    <3>. QED BY <3>1, <3>2, <3>3, <3>4
  <2>5. [main_work EXCEPT !.job = j, !.rolltime = r,
                          !.answer = answers'[main_work.pool]] \in Work
    <3>1. j \in Nat
      BY <1>1, <2>2, <2>3 DEF MainOK, PoolOK, Work
    <3>2. answers'[main_work.pool] \in Nat
      BY <2>3, <2>4, Constants
    <3>. QED BY <1>1, <3>1, <3>2 DEF MainOK, Work
  <2>6. main_work' \in Work
    BY <1>1, <2>2, <2>5, StampedWork
  <2>7. MainOK'
    BY <1>1, <1>11, <2>6 DEF Reply, sleepVars, MainOK
  <2>8. PoolOK'
    BY <1>1, <1>11, <2>3, <2>4 DEF Reply, PoolOK
  <2>. QED BY <1>3, <2>1, <2>7, <2>8 DEF StagedInv, QueueKept
<1>12. CASE RequestFails
  <2>1. QueueKept /\ MinerOK' /\ TuneOK'
    BY <1>2, <1>12, Unmoved DEF RequestFails, sleepVars
  <2>2. MainOK'
    BY <1>1, <1>12 DEF RequestFails, sleepVars, MainOK
  <2>3. PoolOK'
    BY <1>1, <1>12, Constants DEF RequestFails, PoolOK
  <2>. QED BY <1>3, <2>1, <2>2, <2>3 DEF StagedInv, QueueKept
<1>13. CASE StageMain
  <2>1. QueueKept
    BY <1>1, <1>13, PushKeeps DEF StageMain, MainOK, PoolOK
  <2>2. getq_waiters' = {}
    BY <1>13 DEF StageMain, HashPush
  <2>3. MinerOK' /\ TuneOK' /\ PoolOK'
    BY <1>2, <1>13, <2>2, Unmoved DEF StageMain
  <2>4. MainOK'
    <3>1. Len(mining_algorithms) \in Nat
      BY Constants
    <3>2. /\ main_pc' = "top" /\ main_work' = NoWork /\ max_staged' = 0
          /\ lagging' = FALSE /\ malgo' = 0 /\ gws_waiting' = FALSE
      BY <1>1, <1>13 DEF StageMain, MainOK
    <3>3. malgo' \in 0 .. Len(mining_algorithms)
      BY <3>1, <3>2
    <3>4. main_work' \in Work /\ max_staged' \in Nat
      BY <3>2, NoWorkType
    <3>. QED BY <3>2, <3>3, <3>4 DEF MainOK
  <2>. QED BY <1>3, <2>1, <2>3, <2>4 DEF StagedInv, QueueKept
<1>. QED BY <1>4, <1>5, <1>6, <1>7, <1>8, <1>9, <1>10, <1>11, <1>12, <1>13 DEF Scheduler

\* The works a device may take are places of the queue, and it takes one of them.
LEMMA FoundIsUsable ==
  ASSUME staged_work \in Seq(Work), NEW m, Usable(m) # {}
  PROVE  /\ Found(m) \in Usable(m) /\ Found(m) \in DOMAIN staged_work
         /\ staged_work[Found(m)] \in Work
<1>1. PICK S : S = Usable(m)
  OBVIOUS
<1>2. S \subseteq DOMAIN staged_work
  BY <1>1 DEF Usable
<1>3. S \in SUBSET Nat
  BY <1>2, LenProperties
<1>4. Min(S) \in S
  BY <1>1, <1>3, MinInSet
<1>5. \A i \in DOMAIN staged_work : staged_work[i] \in Work
  BY ElementOfSeq, LenProperties
<1>. QED BY <1>1, <1>2, <1>4, <1>5 DEF Found

\* A step of a mining thread.
LEMMA MinerTypes ==
  ASSUME StagedInv, NEW m \in Miners, MinerStep(m)
  PROVE  StagedInv' /\ QueueKept
<1>. USE DEF MinerPlaces
<1>1. StagedInv => QueueOK /\ TuneOK /\ MainOK /\ MinerOK /\ UpdateOK /\ PoolOK
  BY DEF StagedInv
<1>2. UNCHANGED <<mainVars, updateVars, poolVars>>
  BY DEF MinerStep, ClearRestart, PopNothing, PopRollable, PopWork, MinerClone,
     MinerPush, CheckWork, WakeGws, FinishWork
<1>3. UpdateOK' /\ PoolOK'
  BY <1>2, Unmoved
<1>4. CASE ClearRestart(m) \/ PopRollable(m) \/ FinishWork(m)
  <2>1. QueueKept /\ TuneOK' /\ MainOK'
    BY <1>2, <1>4, Unmoved DEF ClearRestart, PopRollable, FinishWork, sleepVars
  <2>2. MinerOK'
    BY <1>1, <1>4, NoWorkType
       DEF ClearRestart, PopRollable, FinishWork, Popping, sleepVars, MinerOK
  <2>. QED BY <1>3, <2>1, <2>2 DEF StagedInv, QueueKept
<1>5. CASE PopNothing(m)
  <2>1. QueueKept /\ MainOK'
    BY <1>2, <1>5, Unmoved DEF PopNothing, SignalGws
  <2>2. TuneOK'
    <3>1. (opt_queue' = opt_queue + 1 \/ opt_queue' = opt_queue + 0) /\ staged_full' = FALSE
      BY <1>5 DEF PopNothing, If
    <3>2. opt_queue \in Nat
      BY <1>1 DEF TuneOK
    <3>3. opt_queue' \in Nat
      BY <3>1, <3>2
    <3>4. staged_full' \in BOOLEAN
      BY <3>1
    <3>. QED BY <3>3, <3>4 DEF TuneOK
  <2>3. MinerOK'
    BY <1>1, <1>5 DEF PopNothing, Popping, minerVars, MinerOK
  <2>. QED BY <1>3, <2>1, <2>2, <2>3 DEF StagedInv, QueueKept
<1>6. CASE PopWork(m)
  <2>1. Found(m) \in DOMAIN staged_work /\ staged_work[Found(m)] \in Work
    BY <1>1, <1>6, FoundIsUsable DEF PopWork, QueueOK
  <2>2. QueueKept
    <3>1. {Found(m)} \in SUBSET DOMAIN staged_work /\ Unstage({Found(m)})
      BY <1>6, <2>1 DEF PopWork
    <3>. QED BY <1>1, <3>1, UnstageKeeps
  <2>3. MainOK'
    BY <1>2, <1>6, Unmoved DEF PopWork, SignalGws
  <2>4. TuneOK'
    BY <1>1, <1>6 DEF PopWork, Unstage, TuneOK
  <2>5. MinerOK'
    <3>1. getq_waiters' \subseteq getq_waiters
      BY <1>6 DEF PopWork
    <3>2. /\ miner_pc' = [miner_pc EXCEPT ![m] = "check"]
          /\ miner_work' = [miner_work EXCEPT ![m] = staged_work[Found(m)]]
          /\ work_restart' = work_restart /\ m \notin getq_waiters
      BY <1>6 DEF PopWork, Popping
    <3>. QED BY <1>1, <2>1, <3>1, <3>2 DEF MinerOK
  <2>. QED BY <1>3, <2>2, <2>3, <2>4, <2>5 DEF StagedInv, QueueKept
<1>7. CASE MinerClone(m) /\ FirstRollable = 0
  <2>1. QueueKept /\ TuneOK' /\ MainOK'
    BY <1>2, <1>7, Unmoved DEF MinerClone, sleepVars, queueVars
  <2>2. MinerOK'
    BY <1>1, <1>7 DEF MinerClone, sleepVars, MinerOK
  <2>. QED BY <1>3, <2>1, <2>2 DEF StagedInv, QueueKept
<1>8. CASE MinerClone(m) /\ FirstRollable # 0
  <2>1. PICK i \in DOMAIN staged_work : i = FirstRollable
    BY <1>1, <1>8, FirstIsRollable DEF QueueOK
  <2>2. /\ CloneAt(i)
        /\ miner_work' = [miner_work EXCEPT ![m] = Stamp(TheClone(i))]
        /\ miner_pc' = [miner_pc EXCEPT ![m] = "push"]
    BY <1>8, <2>1 DEF MinerClone
  <2>3. QueueKept /\ TheClone(i) \in Work
    BY <1>1, <1>8, <2>2, CloneKeeps DEF MinerClone
  <2>4. Stamp(TheClone(i)) \in Work
    BY <1>1, <2>3, StampedWork
  <2>5. MinerOK'
    BY <1>1, <1>8, <2>2, <2>4 DEF MinerClone, sleepVars, MinerOK
  <2>6. TuneOK' /\ MainOK'
    BY <1>2, <1>8, Unmoved DEF MinerClone, sleepVars
  <2>. QED BY <1>3, <2>3, <2>5, <2>6 DEF StagedInv, QueueKept
<1>9. CASE MinerPush(m)
  <2>1. HashPush(miner_work[m]) /\ miner_work[m] \in Work
    BY <1>1, <1>9 DEF MinerPush, MinerOK
  <2>2. QueueKept
    BY <1>1, <2>1, PushKeeps DEF PoolOK
  <2>3. getq_waiters' = {}
    BY <2>1 DEF HashPush
  <2>4. MinerOK'
    BY <1>1, <1>9, <2>3, NoWorkType DEF MinerPush, MinerOK
  <2>5. TuneOK' /\ MainOK'
    BY <1>2, <1>9, Unmoved DEF MinerPush
  <2>. QED BY <1>3, <2>2, <2>4, <2>5 DEF StagedInv, QueueKept
<1>10. CASE CheckWork(m)
  <2>1. QueueKept /\ MainOK'
    BY <1>2, <1>10, Unmoved DEF CheckWork, sleepVars
  <2>2. TuneOK'
    BY <1>1, <1>10 DEF CheckWork, TuneOK
  <2>3. MinerOK'
    BY <1>1, <1>10, NoWorkType DEF CheckWork, sleepVars, MinerOK
  <2>. QED BY <1>3, <2>1, <2>2, <2>3 DEF StagedInv, QueueKept
<1>11. CASE WakeGws(m)
  <2>1. QueueKept /\ TuneOK' /\ MainOK'
    BY <1>2, <1>11, Unmoved DEF WakeGws, SignalGws
  <2>2. MinerOK'
    BY <1>1, <1>11 DEF WakeGws, MinerOK
  <2>. QED BY <1>3, <2>1, <2>2 DEF StagedInv, QueueKept
<1>. QED BY <1>4, <1>5, <1>6, <1>7, <1>8, <1>9, <1>10, <1>11 DEF MinerStep

\* A step of a pool's own thread.
LEMMA UpdateTypes ==
  ASSUME StagedInv, NEW p \in Pools,
         \/ Notify(p) \/ Longpoll(p) \/ Restart(p) \/ Convert(p)
         \/ ConnectionLost(p) \/ ClearPoolWork(p) \/ Revive(p)
  PROVE  StagedInv' /\ QueueKept
<1>. USE DEF UpdatePlaces
<1>1. StagedInv => QueueOK /\ TuneOK /\ MainOK /\ MinerOK /\ UpdateOK /\ PoolOK
  BY DEF StagedInv
<1>2. UNCHANGED mainVars
  BY DEF Notify, Longpoll, Restart, Convert, ConnectionLost, ClearPoolWork, Revive,
     DiscardStale, FlagThreads, ConvertToWork, CloneWork, StageLast
<1>3. CASE Notify(p)
  <2>1. QueueKept /\ TuneOK' /\ MainOK' /\ MinerOK'
    BY <1>2, <1>3, Unmoved DEF Notify, sleepVars
  <2>2. UpdateOK'
    BY <1>1, <1>3 DEF Notify, UpdateOK
  <2>3. PICK a \in IF p \in GoalReset THEN Algos ELSE {goal_malgo[p]} :
          goal_malgo' = [goal_malgo EXCEPT ![p] = a]
    BY <1>3 DEF Notify
  <2>4. a \in Algos
    BY <1>1, <2>3 DEF PoolOK
  <2>5. PoolOK'
    BY <1>1, <1>3, <2>3, <2>4 DEF Notify, PoolOK
  <2>. QED BY <2>1, <2>2, <2>5 DEF StagedInv, QueueKept
<1>4. CASE Longpoll(p)
  <2>1. QueueKept /\ TuneOK' /\ MainOK' /\ MinerOK'
    BY <1>2, <1>4, Unmoved DEF Longpoll, sleepVars
  <2>2. answers' \in [Pools -> 0 .. MaxAnswers] /\ answers'[p] \in Nat
    <3>1. PICK n \in Nat : n = MaxAnswers
      BY Constants
    <3>2. answers \in [Pools -> 0 .. n] /\ answers[p] < n
      BY <1>1, <1>4, <3>1 DEF Longpoll, PoolOK
    <3>3. answers[p] + 1 \in 0 .. n /\ answers[p] + 1 \in Nat
      BY <3>2
    <3>4. answers' = [answers EXCEPT ![p] = answers[p] + 1]
      BY <1>4 DEF Longpoll
    <3>. QED BY <3>1, <3>2, <3>3, <3>4
  <2>3. PICK newblock \in BOOLEAN, r \in BOOLEAN :
          /\ job' = [job EXCEPT ![p] = @ + If(newblock)]
          /\ work_restart_id' = [work_restart_id EXCEPT ![p] = @ + If(~newblock)]
          /\ update_work' = [update_work EXCEPT ![p] =
               [NoWork EXCEPT !.pool = p, !.job = job'[p], !.rolltime = r,
                              !.answer = answers'[p]]]
          /\ update_pc' = [update_pc EXCEPT ![p] =
                             IF newblock \/ p = Current THEN "discard" ELSE "convert"]
    BY <1>4 DEF Longpoll
  <2>4. job' \in [Pools -> Nat] /\ work_restart_id' \in [Pools -> Nat]
    BY <1>1, <2>3 DEF PoolOK, If
  <2>5. [NoWork EXCEPT !.pool = p, !.job = job'[p], !.rolltime = r,
                       !.answer = answers'[p]] \in Work
    <3>1. job'[p] \in Nat
      BY <2>4
    <3>. QED BY <2>2, <3>1, NoWorkType DEF Work
  <2>6. UpdateOK'
    BY <1>1, <1>4, <2>3, <2>5 DEF Longpoll, UpdateOK
  <2>7. PoolOK'
    BY <1>1, <1>4, <2>2, <2>4 DEF Longpoll, PoolOK
  <2>. QED BY <2>1, <2>6, <2>7 DEF StagedInv, QueueKept
<1>5. CASE DiscardStale(p) \/ ClearPoolWork(p)
  <2>1. PICK S \in SUBSET DOMAIN staged_work : Unstage(S)
    BY <1>5 DEF DiscardStale, ClearPoolWork
  <2>2. QueueKept
    BY <1>1, <2>1, UnstageKeeps
  <2>3. TuneOK'
    BY <1>1, <1>5, <2>1 DEF Unstage, DiscardStale, ClearPoolWork, TuneOK
  <2>4. MainOK' /\ MinerOK' /\ PoolOK'
    BY <1>2, <1>5, Unmoved DEF DiscardStale, ClearPoolWork, SignalGws, sleepVars
  <2>5. UpdateOK'
    BY <1>1, <1>5 DEF DiscardStale, ClearPoolWork, UpdateOK
  <2>. QED BY <2>2, <2>3, <2>4, <2>5 DEF StagedInv, QueueKept
<1>6. CASE FlagThreads(p)
  <2>1. QueueKept /\ TuneOK' /\ MainOK' /\ PoolOK'
    BY <1>2, <1>6, Unmoved DEF FlagThreads, sleepVars
  <2>2. MinerOK'
    BY <1>1, <1>6 DEF FlagThreads, sleepVars, MinerOK
  <2>3. UpdateOK'
    BY <1>1, <1>6 DEF FlagThreads, UpdateOK
  <2>. QED BY <2>1, <2>2, <2>3 DEF StagedInv, QueueKept
<1>7. CASE ConvertToWork(p)
  <2>1. QueueKept /\ TuneOK' /\ MainOK' /\ MinerOK' /\ PoolOK'
    BY <1>2, <1>7, Unmoved DEF ConvertToWork, sleepVars
  <2>2. base_queue + opt_queue - TotalStaged \in Int
    <3>1. Len(staged_work) \in Nat /\ staged_spare \in Nat /\ opt_queue \in Nat
      BY <1>1, LenProperties, CountType DEF QueueOK, CountersRight, TuneOK
    <3>. QED BY <3>1, Constants DEF TotalStaged
  <2>3. UpdateOK'
    BY <1>1, <1>7, <2>2, NoWorkType DEF ConvertToWork, UpdateOK
  <2>. QED BY <2>1, <2>3 DEF StagedInv, QueueKept
<1>8. CASE CloneWork(p) \/ StageLast(p)
  <2>1. PICK w \in Work, pc \in {"clone", "last", "idle"} :
          /\ StageOf(p, w, pc)
          /\ update_work' \in [Pools -> Work] /\ mrs' \in [Pools -> Int]
    <3>1. CASE StageLast(p)
      <4>1. update_work[p] \in Work
        BY <1>1 DEF UpdateOK
      <4>2. update_work' \in [Pools -> Work] /\ mrs' \in [Pools -> Int]
        BY <1>1, <3>1, NoWorkType DEF StageLast, UpdateOK
      <4>. QED BY <3>1, <4>1, <4>2 DEF StageLast
    <3>2. CASE CloneWork(p)
      <4>1. PICK w \in Work : w = update_work[p]
        BY <1>1 DEF UpdateOK
      <4>2. PICK r \in Nat : r = (IF w.rolls = 0 THEN 0 ELSE w.rolls - 1)
        BY DEF Work
      <4>3. PICK latest : latest = CloneOf([w EXCEPT !.rolls = r])
        OBVIOUS
      <4>4. latest \in Work
        BY <4>3 DEF CloneOf, Work
      <4>5. Rolled(Rolled(w)) \in Work
        BY RolledWork
      <4>6. mrs' \in [Pools -> Int]
        BY <1>1, <3>2 DEF CloneWork, UpdateOK
      <4>7. \/ /\ StageOf(p, latest, "clone")
               /\ update_work' = [update_work EXCEPT ![p] = Rolled(Rolled(w))]
            \/ /\ StageOf(p, w, IF w.rolls > 0 THEN "last" ELSE "idle")
               /\ update_work' = [update_work EXCEPT ![p] =
                                    IF w.rolls > 0 THEN latest ELSE NoWork]
        BY <3>2, <4>1, <4>2, <4>3 DEF CloneWork
      <4>8. update_work' \in [Pools -> Work]
        BY <1>1, <4>4, <4>5, <4>7, NoWorkType DEF UpdateOK
      <4>. QED BY <4>4, <4>6, <4>7, <4>8
    <3>. QED BY <1>8, <3>1, <3>2
  <2>2. HashPush(Stamp(w)) /\ Stamp(w) \in Work
    BY <1>1, <2>1, StampedWork DEF StageOf
  <2>3. QueueKept
    BY <1>1, <2>2, PushKeeps DEF PoolOK
  <2>4. getq_waiters' = {}
    BY <2>2 DEF HashPush
  <2>5. TuneOK' /\ MainOK' /\ MinerOK' /\ PoolOK'
    BY <1>2, <1>8, <2>4, Unmoved DEF CloneWork, StageLast
  <2>6. UpdateOK'
    BY <1>1, <2>1 DEF StageOf, UpdateOK
  <2>. QED BY <2>3, <2>5, <2>6 DEF StagedInv, QueueKept
<1>9. CASE ConnectionLost(p)
  <2>1. QueueKept /\ TuneOK' /\ MainOK' /\ MinerOK'
    BY <1>2, <1>9, Unmoved DEF ConnectionLost, sleepVars
  <2>2. UpdateOK'
    BY <1>1, <1>9 DEF ConnectionLost, UpdateOK
  <2>3. PoolOK'
    <3>1. PICK n \in Nat : n = MaxDrops
      BY Constants
    <3>2. drops \in 0 .. n /\ drops < n /\ drops' = drops + 1
      BY <1>1, <1>9, <3>1 DEF ConnectionLost, PoolOK
    <3>3. drops' \in 0 .. MaxDrops
      BY <3>1, <3>2
    <3>4. /\ active' \subseteq active
          /\ UNCHANGED <<job, work_restart_id, goal_malgo, answers>>
      BY <1>9 DEF ConnectionLost
    <3>. QED BY <1>1, <3>3, <3>4 DEF PoolOK
  <2>. QED BY <2>1, <2>2, <2>3 DEF StagedInv, QueueKept
<1>10. CASE Revive(p)
  <2>1. QueueKept /\ TuneOK' /\ MainOK' /\ MinerOK'
    BY <1>2, <1>10, Unmoved DEF Revive, sleepVars
  <2>2. UpdateOK'
    BY <1>1, <1>10 DEF Revive, UpdateOK
  <2>3. PoolOK'
    BY <1>1, <1>10 DEF Revive, PoolOK, If
  <2>. QED BY <2>1, <2>2, <2>3 DEF StagedInv, QueueKept
<1>. QED BY <1>3, <1>4, <1>5, <1>6, <1>7, <1>8, <1>9, <1>10 DEF Restart, Convert

LEMMA StagedInvInit == Init => StagedInv /\ AlgosRight
<1>. SUFFICES ASSUME Init PROVE StagedInv /\ AlgosRight
  OBVIOUS
<1>1. staged_work \in Seq(Work) /\ DOMAIN staged_work = {}
  BY DEF Init
<1>2. ASSUME NEW K PROVE Count(staged_work, K) = 0
  BY <1>1, CountType
<1>3. QueueOK /\ AlgosRight
  BY <1>1, <1>2 DEF Init, QueueOK, CountersRight, AlgosRight
<1>4. TuneOK
  BY StagedAssumption DEF Init, TuneOK
<1>5. MainOK
  <2>1. 0 \in 0 .. Len(mining_algorithms)
    BY Constants
  <2>. QED BY <2>1, NoWorkType DEF Init, MainOK, MainPlaces
<1>6. MinerOK /\ UpdateOK
  BY NoWorkType DEF Init, MinerOK, MinerPlaces, UpdateOK, UpdatePlaces
<1>7. PoolOK
  BY StagedAssumption, Constants DEF Init, PoolOK
<1>. QED BY <1>3, <1>4, <1>5, <1>6, <1>7 DEF StagedInv

LEMMA StagedInvStep == StagedInv /\ [Next]_vars => StagedInv' /\ QueueKept
<1>. SUFFICES ASSUME StagedInv, [Next]_vars PROVE StagedInv' /\ QueueKept
  OBVIOUS
<1>1. CASE Next
  BY <1>1, SchedulerTypes, MinerTypes, UpdateTypes DEF Next
<1>2. CASE UNCHANGED vars
  BY <1>2, Unmoved DEF vars, sleepVars, StagedInv, QueueKept
<1>. QED BY <1>1, <1>2

\* The queue, the scheduler and the threads keep to their types, whatever the
\* pools do: in particular the counters of stgd_lock never become negative, the
\* mining threads on getq->cond are all in hash_pop, and the scheduler has a
\* pool at hand whenever it makes a work (StagedWork's control state).
THEOREM StagedTypeCorrect == Spec => []TypeOK
<1>1. Init => StagedInv
  BY StagedInvInit
<1>2. StagedInv /\ [Next]_vars => StagedInv'
  BY StagedInvStep
<1>3. StagedInv => TypeOK
  BY StagedInvIsTyped
<1>. QED BY <1>1, <1>2, <1>3, PTL DEF Spec

-----------------------------------------------------------------------------
(* The counters, and the mining threads that wait.                         *)

\* Only a job that names another algorithm changes a pool's own.
LEMMA GoalSteady ==
  ASSUME GoalReset = {}, StagedInv, [Next]_vars
  PROVE  goal_malgo' = goal_malgo
<1>1. CASE Scheduler
  BY <1>1 DEF Scheduler, Top, SelectSpare, Woken, Fetch, StratumDown, Generate,
     ScheduleClone, Request, Reply, RequestFails, Failover, StageMain, poolVars
<1>2. ASSUME NEW m \in Miners, MinerStep(m) PROVE goal_malgo' = goal_malgo
  BY <1>2 DEF MinerStep, ClearRestart, PopNothing, PopRollable, PopWork, MinerClone,
     MinerPush, CheckWork, WakeGws, FinishWork, poolVars
<1>3. ASSUME NEW p \in Pools, Notify(p) PROVE goal_malgo' = goal_malgo
  <2>1. goal_malgo' = [goal_malgo EXCEPT ![p] = goal_malgo[p]]
    BY <1>3 DEF Notify
  <2>2. goal_malgo = [q \in Pools |-> goal_malgo[q]]
    BY DEF StagedInv, PoolOK
  <2>. QED BY <2>1, <2>2
<1>4. ASSUME NEW p \in Pools,
             \/ Longpoll(p) \/ Restart(p) \/ Convert(p)
             \/ ConnectionLost(p) \/ ClearPoolWork(p) \/ Revive(p)
      PROVE  goal_malgo' = goal_malgo
  BY <1>4 DEF Longpoll, Restart, DiscardStale, FlagThreads, Convert, ConvertToWork,
     CloneWork, StageLast, ConnectionLost, ClearPoolWork, Revive, poolVars
<1>5. CASE UNCHANGED vars
  BY <1>5 DEF vars, poolVars
<1>. QED BY <1>1, <1>2, <1>3, <1>4, <1>5 DEF Next

\* The queue gets no work of a pool that has none in it.
NothingNew ==
    \A i \in DOMAIN staged_work' : \E j \in DOMAIN staged_work :
      staged_work'[i].pool = staged_work[j].pool

LEMMA UnstageNothingNew ==
  ASSUME QueueOK, NEW S \in SUBSET DOMAIN staged_work, Unstage(S)
  PROVE  NothingNew
<1>1. staged_work' = Without(S) /\ staged_work \in Seq(Work)
  BY DEF Unstage, QueueOK
<1>2. PICK from \in Bijection(DOMAIN Without(S), DOMAIN staged_work \ S) :
        \A k \in DOMAIN Without(S) : Without(S)[k] = staged_work[from[k]]
  BY <1>1, WithoutQueue
<1>3. \A k \in DOMAIN Without(S) : from[k] \in DOMAIN staged_work
  BY <1>2 DEF Bijection, Injection
<1>. QED BY <1>1, <1>2, <1>3 DEF NothingNew

\* Whoever puts a work into the queue wakes all the mining threads; others only
\* go to sleep when there is nothing for them.
LEMMA WaitersStep ==
  ASSUME StagedInv, [Next]_vars
  PROVE  \/ getq_waiters' = {}
         \/ /\ NothingNew
            /\ \A m \in getq_waiters' : m \in getq_waiters \/ Usable(m) = {}
<1>1. QueueOK
  BY DEF StagedInv
<1>2. UNCHANGED staged_work => NothingNew
  BY DEF NothingNew
<1>3. ASSUME NEW i \in DOMAIN staged_work, CloneAt(i),
             UNCHANGED <<staged_rollable, staged_spare, malgo_staged>>
      PROVE  NothingNew
  BY <1>1, <1>3, CloneKeeps DEF NothingNew
<1>4. CASE ScheduleClone
  <2>1. FirstRollable \in DOMAIN staged_work
    BY <1>1, <1>4, FirstIsRollable DEF ScheduleClone, QueueOK
  <2>2. NothingNew
    BY <1>3, <1>4, <2>1 DEF ScheduleClone
  <2>. QED BY <1>4, <2>2 DEF ScheduleClone, sleepVars
<1>5. CASE StageMain
  BY <1>5 DEF StageMain, HashPush
<1>6. CASE Scheduler /\ ~ScheduleClone /\ ~StageMain
  BY <1>2, <1>6 DEF Scheduler, Top, SelectSpare, Woken, Fetch, StratumDown, Generate,
     Request, Reply, RequestFails, Failover, queueVars, sleepVars
<1>7. ASSUME NEW m \in Miners, PopNothing(m)
      PROVE  /\ NothingNew
             /\ \A n \in getq_waiters' : n \in getq_waiters \/ Usable(n) = {}
  BY <1>2, <1>7 DEF PopNothing, queueVars
<1>8. ASSUME NEW m \in Miners, PopWork(m)
      PROVE  NothingNew /\ getq_waiters' \subseteq getq_waiters
  <2>1. {Found(m)} \in SUBSET DOMAIN staged_work
    BY <1>1, <1>8, FoundIsUsable DEF PopWork, QueueOK
  <2>2. NothingNew
    BY <1>1, <1>8, <2>1, UnstageNothingNew DEF PopWork
  <2>. QED BY <1>8, <2>2 DEF PopWork
<1>9. ASSUME NEW m \in Miners, MinerClone(m)
      PROVE  NothingNew /\ getq_waiters' = getq_waiters
  <2>1. CASE FirstRollable = 0
    BY <1>2, <1>9, <2>1 DEF MinerClone, sleepVars
  <2>2. CASE FirstRollable # 0
    <3>1. FirstRollable \in DOMAIN staged_work
      BY <1>1, <2>2, FirstIsRollable DEF QueueOK
    <3>. QED BY <1>3, <1>9, <2>2, <3>1 DEF MinerClone, sleepVars
  <2>. QED BY <2>1, <2>2
<1>10. ASSUME NEW m \in Miners, MinerPush(m) PROVE getq_waiters' = {}
  BY <1>10 DEF MinerPush, HashPush
<1>11. ASSUME NEW m \in Miners,
              ClearRestart(m) \/ PopRollable(m) \/ CheckWork(m) \/ WakeGws(m) \/ FinishWork(m)
       PROVE  NothingNew /\ getq_waiters' = getq_waiters
  BY <1>2, <1>11 DEF ClearRestart, PopRollable, CheckWork, WakeGws, FinishWork,
     queueVars, sleepVars
<1>12. ASSUME NEW p \in Pools, CloneWork(p) \/ StageLast(p) PROVE getq_waiters' = {}
  BY <1>12 DEF CloneWork, StageLast, StageOf, HashPush
<1>13. ASSUME NEW p \in Pools, DiscardStale(p) \/ ClearPoolWork(p)
       PROVE  NothingNew /\ getq_waiters' = getq_waiters
  <2>1. PICK S \in SUBSET DOMAIN staged_work : Unstage(S)
    BY <1>13 DEF DiscardStale, ClearPoolWork
  <2>2. NothingNew
    BY <1>1, <2>1, UnstageNothingNew
  <2>. QED BY <1>13, <2>2 DEF DiscardStale, ClearPoolWork, sleepVars
<1>14. ASSUME NEW p \in Pools,
              \/ Notify(p) \/ Longpoll(p) \/ FlagThreads(p) \/ ConvertToWork(p)
              \/ ConnectionLost(p) \/ Revive(p)
       PROVE  NothingNew /\ getq_waiters' = getq_waiters
  BY <1>2, <1>14 DEF Notify, Longpoll, FlagThreads, ConvertToWork, ConnectionLost,
     Revive, queueVars, sleepVars
<1>15. CASE UNCHANGED vars
  BY <1>2, <1>15 DEF vars, queueVars, sleepVars
<1>. QED BY <1>4, <1>5, <1>6, <1>7, <1>8, <1>9, <1>10, <1>11, <1>12, <1>13, <1>14, <1>15
     DEF Next, MinerStep, Restart, Convert

\* Nothing new for a device that had nothing.
LEMMA StillNothing ==
  ASSUME NothingNew, goal_malgo' = goal_malgo, NEW m, Usable(m) = {}
  PROVE  Usable(m)' = {}
BY DEF NothingNew, Usable, AlgoOf

WaitInv == StagedInv /\ AlgosRight /\ WaitersHaveNothing

LEMMA WaitInvInit == Init => WaitInv
  BY StagedInvInit DEF Init, WaitInv, WaitersHaveNothing

LEMMA WaitInvStep ==
  ASSUME GoalReset = {}, WaitInv, [Next]_vars
  PROVE  WaitInv' /\ goal_malgo' = goal_malgo
<1>1. StagedInv' /\ QueueKept /\ goal_malgo' = goal_malgo
  BY StagedInvStep, GoalSteady DEF WaitInv
<1>2. AlgosRight'
  BY <1>1 DEF WaitInv, QueueKept
<1>3. ASSUME NEW m \in getq_waiters' PROVE Usable(m)' = {}
  <2>1. NothingNew /\ (m \in getq_waiters \/ Usable(m) = {})
    BY <1>3, WaitersStep DEF WaitInv
  <2>2. Usable(m) = {}
    BY <2>1 DEF WaitInv, WaitersHaveNothing
  <2>. QED BY <1>1, <2>1, <2>2, StillNothing
<1>4. WaitersHaveNothing'
  BY <1>3 DEF WaitersHaveNothing
<1>. QED BY <1>1, <1>2, <1>4 DEF WaitInv

\* As long as no job makes a pool mine another algorithm, whoever pushes works
\* and takes or drops them, and in whatever order, the counters the scheduler
\* decides on are those of the works in the queue.
THEOREM CountersCorrect ==
  ASSUME GoalReset = {}
  PROVE  Spec => []CountersExact
<1>1. Init => WaitInv
  BY WaitInvInit
<1>2. WaitInv /\ [Next]_vars => WaitInv'
  BY WaitInvStep
<1>3. WaitInv => CountersExact
  BY ExactIsRight DEF WaitInv, StagedInv, QueueOK
<1>. QED BY <1>1, <1>2, <1>3, PTL DEF Spec

\* Two of them are right even then, since they do not go by the algorithm: those
\* of the works that can be rolled and of the spare ones.
THEOREM RollableCorrect ==
  Spec => [](/\ staged_rollable = CountIn(DOMAIN staged_work, Rollable)
             /\ staged_spare = CountIn(DOMAIN staged_work, LAMBDA w : w.spare))
<1>. DEFINE Exact == /\ staged_rollable = CountIn(DOMAIN staged_work, Rollable)
                     /\ staged_spare = CountIn(DOMAIN staged_work, LAMBDA w : w.spare)
<1>1. Init => StagedInv
  BY StagedInvInit
<1>2. StagedInv /\ [Next]_vars => StagedInv'
  BY StagedInvStep
<1>3. StagedInv => Exact
  BY Counted DEF StagedInv, QueueOK, CountersRight, Count, Positions
<1>. HIDE DEF Exact
<1>4. Spec => []Exact
  BY <1>1, <1>2, <1>3, PTL DEF Spec
<1>. QED BY <1>4 DEF Exact

\* Likewise no mining thread sleeps in hash_pop while the queue holds a work its
\* device can mine: hash_push wakes them all under the lock they sleep on.
THEOREM WaitersCorrect ==
  ASSUME GoalReset = {}
  PROVE  Spec => []WaitersHaveNothing
<1>1. Init => WaitInv
  BY WaitInvInit
<1>2. WaitInv /\ [Next]_vars => WaitInv'
  BY WaitInvStep
<1>3. WaitInv => WaitersHaveNothing
  BY DEF WaitInv
<1>. QED BY <1>1, <1>2, <1>3, PTL DEF Spec

-----------------------------------------------------------------------------
(* The scheduler sleeps only when nobody waits in vain.                    *)

\* No pool has been lost.
AllUp == active = Pools

\* The scheduler looks for a spare work only for an algorithm of some pool.
Seeking ==
    main_pc = "select" =>
      /\ malgo \in DOMAIN mining_algorithms
      /\ \E p \in Pools : goal_malgo[p] = mining_algorithms[malgo]

HeedInv == WaitInv /\ AllUp /\ Seeking /\ SchedulerHeeds

\* When all pools are up, select_pool finds one for every algorithm of a pool.
LEMMA SelectedSome ==
  ASSUME HeedInv, main_pc = "select"
  PROVE  NoPool \notin SelectPool(lagging, Algo)
<1>1. /\ active = Pools /\ malgo \in DOMAIN mining_algorithms
      /\ NoPool \notin Pools /\ Current \in Pools
  BY StagedAssumption DEF HeedInv, AllUp, Seeking
<1>2. PICK p \in Pools : goal_malgo[p] = mining_algorithms[malgo]
  BY DEF HeedInv, Seeking
<1>3. PICK a : a = Algo
  OBVIOUS
<1>4. a = goal_malgo[p]
  BY <1>1, <1>2, <1>3, Constants DEF Algo
<1>5. NoPool \notin SelectPool(lagging, a)
  <2>1. CASE ~lagging \/ OptFailOnly
    <3>1. CASE a \in {NoAlgo, goal_malgo[Current]}
      BY <1>1, <2>1, <3>1 DEF SelectPool
    <3>2. CASE a \notin {NoAlgo, goal_malgo[Current]}
      BY <1>1, <1>4, <2>1, <3>2 DEF SelectPool
    <3>. QED BY <3>1, <3>2
  <2>2. CASE ~(~lagging \/ OptFailOnly)
    BY <1>1, <1>4, <2>2 DEF SelectPool
  <2>. QED BY <2>1, <2>2
<1>. QED BY <1>3, <1>5

\* Who signals gws_cond, and when the scheduler begins to sleep on it.
LEMMA SleepStep ==
  ASSUME HeedInv, [Next]_vars
  PROVE  \/ ~gws_waiting'
         \/ gws_waiting /\ getq_waiters' \subseteq getq_waiters
         \/ /\ ScanAfter(0) /\ main_pc' = "asleep"
            /\ UNCHANGED <<queueVars, opt_queue, getq_waiters, poolVars>>
<1>1. StagedInv
  BY DEF HeedInv, WaitInv
<1>2. ASSUME UNCHANGED <<gws_waiting, getq_waiters>>
      PROVE  ~gws_waiting' \/ (gws_waiting /\ getq_waiters' \subseteq getq_waiters)
  BY <1>2
<1>3. CASE Top
  <2>1. CASE TotalStaged > max_staged'
    <3>1. ScanAfter(0)
      BY <1>3, <2>1 DEF Top
    <3>2. main_pc' = "select" => UNCHANGED gws_waiting
      BY <1>1, <3>1, Scanned, Constants
    <3>3. main_pc' # "select" => main_pc' = "asleep"
      BY <3>1 DEF ScanAfter
    <3>. QED BY <1>2, <1>3, <3>1, <3>2, <3>3 DEF Top
  <2>2. CASE ~(TotalStaged > max_staged')
    BY <1>2, <1>3, <2>2 DEF Top
  <2>. QED BY <2>1, <2>2
<1>4. CASE SelectSpare
  <2>1. NoPool \notin SelectPool(lagging, Algo)
    BY <1>4, SelectedSome DEF SelectSpare
  <2>2. UNCHANGED <<gws_waiting, getq_waiters>>
    BY <1>4, <2>1 DEF SelectSpare
  <2>. QED BY <1>2, <2>2
<1>5. CASE StageMain
  <2>1. gws_waiting' = FALSE
    BY <1>1, <1>5 DEF StageMain, StagedInv, MainOK
  <2>. QED BY <2>1
<1>6. CASE Scheduler /\ ~Top /\ ~SelectSpare /\ ~StageMain
  <2>1. UNCHANGED <<gws_waiting, getq_waiters>>
    BY <1>6 DEF Scheduler, Woken, Fetch, StratumDown, Generate, ScheduleClone, Request,
       Reply, RequestFails, Failover, sleepVars
  <2>. QED BY <1>2, <2>1
<1>7. ASSUME NEW m \in Miners, PopNothing(m) \/ PopWork(m) \/ WakeGws(m)
      PROVE  ~gws_waiting'
  BY <1>7 DEF PopNothing, PopWork, WakeGws, SignalGws
<1>8. ASSUME NEW m \in Miners, MinerPush(m)
      PROVE  gws_waiting' = gws_waiting /\ getq_waiters' = {}
  BY <1>8 DEF MinerPush, HashPush
<1>9. ASSUME NEW m \in Miners,
             ClearRestart(m) \/ PopRollable(m) \/ MinerClone(m) \/ CheckWork(m) \/ FinishWork(m)
      PROVE  UNCHANGED <<gws_waiting, getq_waiters>>
  BY <1>9 DEF ClearRestart, PopRollable, MinerClone, CheckWork, FinishWork, sleepVars
<1>10. ASSUME NEW p \in Pools, DiscardStale(p) PROVE ~gws_waiting'
  BY <1>10 DEF DiscardStale, SignalGws
<1>11. ASSUME NEW p \in Pools, CloneWork(p) \/ StageLast(p)
       PROVE  gws_waiting' = gws_waiting /\ getq_waiters' = {}
  BY <1>11 DEF CloneWork, StageLast, StageOf, HashPush
<1>12. ASSUME NEW p \in Pools,
              \/ Notify(p) \/ Longpoll(p) \/ FlagThreads(p) \/ ConvertToWork(p)
              \/ ConnectionLost(p) \/ ClearPoolWork(p) \/ Revive(p)
       PROVE  UNCHANGED <<gws_waiting, getq_waiters>>
  BY <1>12 DEF Notify, Longpoll, FlagThreads, ConvertToWork, ConnectionLost,
     ClearPoolWork, Revive, sleepVars
<1>13. CASE UNCHANGED vars
  BY <1>2, <1>13 DEF vars, sleepVars
<1>14. /\ gws_waiting \in BOOLEAN
       /\ \A x : x = {} => x \subseteq getq_waiters
  BY <1>1 DEF StagedInv, MainOK
<1>. QED BY <1>2, <1>3, <1>4, <1>5, <1>6, <1>7, <1>8, <1>9, <1>10, <1>11, <1>12, <1>13,
        <1>14
     DEF Next, MinerStep, Restart, Convert

\* When the scheduler goes to sleep every algorithm a pool and a device have in
\* common has works staged, so nobody waits for one.
LEMMA NobodyWaits ==
  ASSUME HeedInv, goal_malgo' = goal_malgo, ScanAfter(0), main_pc' = "asleep",
         UNCHANGED <<queueVars, opt_queue, getq_waiters, poolVars>>
  PROVE  SchedulerHeeds'
<1>. SUFFICES ASSUME NEW m \in getq_waiters, NEW p \in active,
                     goal_malgo[p] \in DeviceAlgos[m]
              PROVE  FALSE
  BY DEF SchedulerHeeds, poolVars
<1>1. StagedInv /\ AlgosRight /\ WaitersHaveNothing
  BY DEF HeedInv, WaitInv
<1>2. PICK a \in Algos : a = goal_malgo[p]
  BY <1>1 DEF StagedInv, PoolOK
<1>3. PICK k \in DOMAIN mining_algorithms : mining_algorithms[k] = a
  BY <1>2 DEF Algos, ToSet
<1>4. ~Short(k)
  <2>1. \A j \in DOMAIN mining_algorithms : j > 0 => ~Short(j)
    <3>1. 0 \in 0 .. Len(mining_algorithms) /\ main_pc' # "select"
      BY Constants
    <3>. QED BY <1>1, <3>1, Scanned
  <2>2. k > 0
    BY Constants
  <2>. QED BY <2>1, <2>2
<1>5. p \in Pools /\ m \in Miners
  BY <1>1 DEF StagedInv, PoolOK, MinerOK
<1>6. base_queue_of(a) > 0
  <2>1. PICK S : S = {n \in Miners : a \in DeviceAlgos[n]}
    OBVIOUS
  <2>2. m \in S /\ S \subseteq Miners
    BY <1>2, <1>5, <2>1
  <2>3. IsFiniteSet(S) /\ Cardinality(S) \in Nat
    BY <2>2, StagedAssumption, FS_Subset, FS_CardinalityType
  <2>4. Cardinality(S) # 0
    BY <2>2, <2>3, FS_EmptySet
  <2>. QED BY <2>1, <2>3, <2>4 DEF base_queue_of
<1>7. ~(malgo_staged[a] < base_queue_of(a) + opt_queue)
  BY <1>2, <1>3, <1>4, <1>5, <1>6 DEF Short
<1>8. /\ malgo_staged[a] = Count(staged_work, WorksOf(a))
      /\ staged_work \in Seq(Work) /\ opt_queue \in Nat
  BY <1>1 DEF AlgosRight, StagedInv, QueueOK, TuneOK
<1>9. Count(staged_work, WorksOf(a)) # 0
  <2>1. base_queue_of(a) \in Nat
    BY Constants
  <2>. QED BY <1>6, <1>7, <1>8, <2>1
<1>10. PICK i \in DOMAIN staged_work : staged_work[i] \in WorksOf(a)
  BY <1>8, <1>9, CountType
<1>11. i \in Usable(m)
  BY <1>2, <1>10 DEF Usable, WorksOf
<1>. QED BY <1>1, <1>11 DEF WaitersHaveNothing

LEMMA AllUpStep ==
  ASSUME MaxDrops = 0, HeedInv, [Next]_vars
  PROVE  AllUp'
<1>1. active = Pools /\ ~(drops < MaxDrops) /\ PoolOK /\ MainOK
  <2>1. PoolOK /\ MainOK /\ active = Pools
    BY DEF HeedInv, WaitInv, StagedInv, AllUp
  <2>2. drops \in 0 .. 0
    BY <2>1 DEF PoolOK
  <2>. QED BY <2>1, <2>2
<1>2. CASE Scheduler
  <2>1. ~RequestFails
    BY <1>1 DEF RequestFails
  <2>2. CASE Reply
    BY <1>1, <2>2 DEF Reply, MainOK, Work, AllUp
  <2>3. CASE ~Reply
    BY <1>1, <1>2, <2>1, <2>3 DEF Scheduler, Top, SelectSpare, Woken, Fetch, StratumDown,
       Generate, ScheduleClone, Request, Failover, StageMain, poolVars, AllUp
  <2>. QED BY <2>2, <2>3
<1>3. ASSUME NEW m \in Miners, MinerStep(m) PROVE AllUp'
  BY <1>1, <1>3 DEF MinerStep, ClearRestart, PopNothing, PopRollable, PopWork,
     MinerClone, MinerPush, CheckWork, WakeGws, FinishWork, poolVars, AllUp
<1>4. ASSUME NEW p \in Pools,
             \/ Notify(p) \/ Longpoll(p) \/ Restart(p) \/ Convert(p)
             \/ ConnectionLost(p) \/ ClearPoolWork(p) \/ Revive(p)
      PROVE  AllUp'
  BY <1>1, <1>4 DEF Notify, Longpoll, Restart, DiscardStale, FlagThreads, Convert,
     ConvertToWork, CloneWork, StageLast, ConnectionLost, ClearPoolWork, Revive,
     poolVars, AllUp
<1>5. CASE UNCHANGED vars
  BY <1>1, <1>5 DEF vars, poolVars, AllUp
<1>. QED BY <1>2, <1>3, <1>4, <1>5 DEF Next

LEMMA SeekingStep ==
  ASSUME HeedInv, [Next]_vars, goal_malgo' = goal_malgo
  PROVE  Seeking'
<1>1. StagedInv /\ Seeking
  BY DEF HeedInv, WaitInv
<1>2. CASE Top
  <2>1. CASE main_pc' = "select"
    <3>1. ScanAfter(0)
      BY <1>2, <2>1 DEF Top
    <3>2. malgo' \in DOMAIN mining_algorithms /\ Short(malgo')
      BY <1>1, <2>1, <3>1, Scanned, Constants
    <3>. QED BY <3>2 DEF Short, Seeking
  <2>. QED BY <2>1 DEF Seeking
<1>3. CASE SelectSpare
  <2>1. main_pc' # "select"
    BY <1>3, SelectedSome DEF SelectSpare
  <2>. QED BY <2>1 DEF Seeking
<1>4. CASE Scheduler /\ ~Top /\ ~SelectSpare
  <2>1. main_pc' # "select"
    BY <1>4 DEF Scheduler, Woken, Fetch, StratumDown, Generate, ScheduleClone, Request,
       Reply, RequestFails, Failover, NextPool, StageMain
  <2>. QED BY <2>1 DEF Seeking
<1>5. ASSUME UNCHANGED mainVars PROVE Seeking'
  BY <1>1, <1>5 DEF mainVars, Seeking
<1>6. ASSUME NEW m \in Miners, MinerStep(m) PROVE UNCHANGED mainVars
  BY <1>6 DEF MinerStep, ClearRestart, PopNothing, PopRollable, PopWork,
     MinerClone, MinerPush, CheckWork, WakeGws, FinishWork
<1>7. ASSUME NEW p \in Pools,
             \/ Notify(p) \/ Longpoll(p) \/ Restart(p) \/ Convert(p)
             \/ ConnectionLost(p) \/ ClearPoolWork(p) \/ Revive(p)
      PROVE  UNCHANGED mainVars
  BY <1>7 DEF Notify, Longpoll, Restart, DiscardStale, FlagThreads, Convert,
     ConvertToWork, CloneWork, StageLast, ConnectionLost, ClearPoolWork, Revive
<1>8. CASE UNCHANGED vars
  BY <1>5, <1>8 DEF vars
<1>. QED BY <1>2, <1>3, <1>4, <1>5, <1>6, <1>7, <1>8 DEF Next

LEMMA HeedInvInit == Init => HeedInv
  BY WaitInvInit DEF Init, HeedInv, AllUp, Seeking, SchedulerHeeds

LEMMA HeedInvStep ==
  ASSUME GoalReset = {}, MaxDrops = 0, HeedInv, [Next]_vars
  PROVE  HeedInv'
<1>1. WaitInv' /\ goal_malgo' = goal_malgo
  BY WaitInvStep DEF HeedInv
<1>2. AllUp' /\ Seeking'
  BY <1>1, AllUpStep, SeekingStep
<1>3. SchedulerHeeds'
  <2>1. CASE ~gws_waiting'
    BY <2>1 DEF SchedulerHeeds
  <2>2. CASE gws_waiting /\ getq_waiters' \subseteq getq_waiters
    <3>1. active' = active
      BY <1>2 DEF AllUp, HeedInv
    <3>. QED BY <1>1, <2>2, <3>1 DEF HeedInv, SchedulerHeeds
  <2>3. CASE /\ ScanAfter(0) /\ main_pc' = "asleep"
             /\ UNCHANGED <<queueVars, opt_queue, getq_waiters, poolVars>>
    BY <1>1, <2>3, NobodyWaits
  <2>. QED BY <2>1, <2>2, <2>3, SleepStep
<1>. QED BY <1>1, <1>2, <1>3 DEF HeedInv

\* As long as the pools keep their algorithms and stay up, the scheduler never
\* sleeps on gws_cond while a mining thread waits for an algorithm that a pool
\* serves ("Wait until hash_pop tells us we need to create more work").
THEOREM SchedulerCorrect ==
  ASSUME GoalReset = {}, MaxDrops = 0
  PROVE  Spec => []SchedulerHeeds
<1>1. Init => HeedInv
  BY HeedInvInit
<1>2. HeedInv /\ [Next]_vars => HeedInv'
  BY HeedInvStep
<1>3. HeedInv => SchedulerHeeds
  BY DEF HeedInv
<1>. QED BY <1>1, <1>2, <1>3, PTL DEF Spec

-----------------------------------------------------------------------------
(* How full the queue gets, with stratum pools only.                       *)

\* The works that are not spare, which TotalStaged counts.
Owed == {w \in Work : ~w.spare}

\* Nothing is rolled, converted or asked for.
StratumOnly ==
    /\ main_pc \notin {"request", "failed"}
    /\ \A m \in Miners : miner_pc[m] \notin {"clone", "push"}
    /\ \A p \in Pools : update_pc[p] \notin {"convert", "clone", "last"}

\* There is room for the work the scheduler is making, unless it is spare.
HasRoom ==
    /\ max_staged <= opt_queue + base_queue
    /\ (main_pc = "fetch" \/ (main_pc \in {"retry", "push"} /\ ~main_work.spare))
         => Count(staged_work, Owed) <= opt_queue + base_queue

RoomInv ==
    /\ StagedInv /\ StratumOnly /\ HasRoom
    /\ Count(staged_work, Owed) <= opt_queue + base_queue + 1

LEMMA TotalIsOwed ==
  ASSUME QueueOK
  PROVE  TotalStaged = Count(staged_work, Owed) /\ Count(staged_work, Owed) \in Nat
<1>1. staged_work \in Seq(Work) /\ staged_spare = Count(staged_work, Spares)
  BY DEF QueueOK, CountersRight
<1>2. PICK n \in Nat : n = Len(staged_work) /\ DOMAIN staged_work = 1 .. n
  BY <1>1, LenProperties
<1>3. \A i \in 1 .. n : staged_work[i] \in Work
  BY <1>1, <1>2, ElementOfSeq
<1>4. Positions(staged_work, Owed) = (1 .. n) \ Positions(staged_work, Spares)
  BY <1>2, <1>3 DEF Positions, At, Owed, Spares
<1>5. /\ IsFiniteSet(1 .. n) /\ Cardinality(1 .. n) = n
      /\ Positions(staged_work, Spares) \subseteq 1 .. n
  <2>1. IsFiniteSet(1 .. n) /\ Cardinality(1 .. n) = n
    BY ONLY n \in Nat, FS_Interval
  <2>2. Positions(staged_work, Spares) \subseteq 1 .. n
    BY <1>2 DEF Positions, At
  <2>. QED BY <2>1, <2>2
<1>6. Cardinality((1 .. n) \ Positions(staged_work, Spares))
        = n - Cardinality((1 .. n) \cap Positions(staged_work, Spares))
  BY <1>5, FS_Difference
<1>7. (1 .. n) \cap Positions(staged_work, Spares) = Positions(staged_work, Spares)
  BY <1>5
<1>8. Count(staged_work, Owed) = n - Count(staged_work, Spares)
  BY <1>4, <1>6, <1>7 DEF Count
<1>. QED BY <1>1, <1>2, <1>8, CountType DEF TotalStaged

LEMMA UnstageOwed ==
  ASSUME QueueOK, NEW S \in SUBSET DOMAIN staged_work, Unstage(S)
  PROVE  Count(staged_work, Owed)' <= Count(staged_work, Owed)
<1>1. staged_work \in Seq(Work) /\ staged_work' = Without(S)
  BY DEF QueueOK, Unstage
<1>2. Owed' = Owed
  BY DEF Owed
<1>3. PICK a \in Nat : a = Cardinality(At(staged_work, S, Owed))
  BY <1>1, WithoutQueue
<1>4. /\ Count(staged_work, Owed) \in Nat
      /\ Count(Without(S), Owed) = Count(staged_work, Owed) - a
  BY <1>1, <1>3, WithoutQueue
<1>5. Count(Without(S), Owed) <= Count(staged_work, Owed)
  BY <1>4
<1>. QED BY <1>1, <1>2, <1>5

LEMMA StratumOnlyStep ==
  ASSUME GetworkPools = {}, StagedInv, StratumOnly, [Next]_vars
  PROVE  StratumOnly'
<1>1. \A w : ~CanRoll(w)
  BY DEF CanRoll
<1>2. MinerOK /\ UpdateOK
  BY DEF StagedInv
<1>3. CASE Scheduler
  BY <1>3 DEF Scheduler, Top, SelectSpare, Woken, Fetch, StratumDown, Generate,
     ScheduleClone, Request, Reply, RequestFails, Failover, NextPool, StageMain,
     ScanAfter, minerVars, updateVars, StratumOnly
<1>4. ASSUME NEW m \in Miners, MinerStep(m) PROVE StratumOnly'
  BY <1>1, <1>2, <1>4 DEF MinerStep, ClearRestart, PopNothing, PopRollable, PopWork,
     MinerClone, MinerPush, CheckWork, WakeGws, FinishWork, mainVars, minerVars,
     updateVars, MinerOK, StratumOnly
<1>5. ASSUME NEW p \in Pools, Notify(p) \/ Restart(p) \/ ConnectionLost(p)
                              \/ ClearPoolWork(p) \/ Revive(p)
      PROVE StratumOnly'
  BY <1>2, <1>5 DEF Notify, Restart, DiscardStale, FlagThreads, ConnectionLost,
     ClearPoolWork, Revive, mainVars, minerVars, UpdateOK, StratumOnly
<1>6. ASSUME NEW p \in Pools, Longpoll(p) \/ Convert(p) PROVE FALSE
  BY <1>6 DEF Longpoll, Convert, ConvertToWork, CloneWork, StageLast, StratumOnly
<1>7. CASE UNCHANGED vars
  BY <1>7 DEF vars, mainVars, minerVars, updateVars, StratumOnly
<1>. QED BY <1>3, <1>4, <1>5, <1>6, <1>7 DEF Next

\* A step that stages nothing leaves the room there was.
LEMMA NoLessRoom ==
  ASSUME RoomInv, StagedInv', StratumOnly',
         Count(staged_work, Owed)' <= Count(staged_work, Owed),
         opt_queue' >= opt_queue, UNCHANGED mainVars
  PROVE  RoomInv'
<1>1. PICK b \in Nat : b = base_queue
  BY Constants
<1>2. PICK q \in Nat : q = opt_queue
  BY DEF RoomInv, StagedInv, TuneOK
<1>3. PICK r \in Nat : r = opt_queue'
  BY DEF StagedInv, TuneOK
<1>4. PICK c \in Nat : c = Count(staged_work, Owed)
  BY TotalIsOwed DEF RoomInv, StagedInv
<1>5. PICK d \in Nat : d = Count(staged_work, Owed)'
  BY CountType DEF StagedInv, QueueOK
<1>6. PICK x \in Nat : x = max_staged
  BY DEF RoomInv, StagedInv, MainOK
<1>7. q <= r /\ d <= c /\ x <= q + b /\ c <= q + b + 1
  BY <1>1, <1>2, <1>3, <1>4, <1>5, <1>6 DEF RoomInv, HasRoom
<1>8. x <= r + b /\ d <= r + b + 1 /\ (c <= q + b => d <= r + b)
  BY ONLY <1>7, b \in Nat, q \in Nat, r \in Nat, c \in Nat, d \in Nat, x \in Nat
<1>. QED BY <1>1, <1>2, <1>3, <1>4, <1>5, <1>6, <1>8 DEF RoomInv, HasRoom, mainVars

LEMMA RoomInvInit == Init => RoomInv
<1>. SUFFICES ASSUME Init PROVE RoomInv
  OBVIOUS
<1>1. StagedInv
  BY StagedInvInit
<1>2. staged_work \in Seq(Work) /\ DOMAIN staged_work = {}
  BY DEF Init
<1>3. Count(staged_work, Owed) = 0
  BY <1>2, CountType
<1>4. opt_queue \in Nat /\ base_queue \in Nat /\ max_staged = 0
  BY <1>1, Constants DEF StagedInv, TuneOK, Init
<1>. QED BY <1>1, <1>3, <1>4 DEF Init, RoomInv, StratumOnly, HasRoom

LEMMA RoomInvStep ==
  ASSUME GetworkPools = {}, RoomInv, [Next]_vars
  PROVE  RoomInv'
<1>1. StagedInv /\ StagedInv' /\ StratumOnly' /\ StratumOnly
  BY StagedInvStep, StratumOnlyStep DEF RoomInv
<1>2. QueueOK /\ MainOK /\ TuneOK /\ MinerOK
  BY <1>1 DEF StagedInv
<1>3. PICK b \in Nat : b = base_queue
  BY Constants
<1>4. PICK q \in Nat : q = opt_queue
  BY <1>2 DEF TuneOK
<1>5. PICK c \in Nat : c = Count(staged_work, Owed)
  BY <1>2, TotalIsOwed
<1>6. TotalStaged = c
  BY <1>2, <1>5, TotalIsOwed
<1>7. Owed' = Owed
  BY DEF Owed
<1>8. /\ max_staged \in Nat /\ max_staged <= q + b /\ c <= q + b + 1
      /\ main_pc = "fetch" \/ (main_pc \in {"retry", "push"} /\ ~main_work.spare)
           => c <= q + b
  BY <1>2, <1>3, <1>4, <1>5 DEF RoomInv, HasRoom, MainOK
<1>9. UNCHANGED <<staged_work, opt_queue, mainVars>> => RoomInv'
  <2>. SUFFICES ASSUME UNCHANGED <<staged_work, opt_queue, mainVars>> PROVE RoomInv'
    OBVIOUS
  <2>1. Count(staged_work, Owed)' = Count(staged_work, Owed)
    BY <1>7
  <2>. QED BY <1>1, <1>4, <1>5, <2>1, NoLessRoom
\* The scheduler goes on without staging a work, as far as there is room.
<1>10. ASSUME UNCHANGED <<staged_work, opt_queue>>,
              max_staged' \in Nat, max_staged' <= q + b,
              (main_pc' = "fetch" \/ (main_pc' \in {"retry", "push"} /\ ~main_work'.spare))
                => c <= q + b
       PROVE  RoomInv'
  <2>1. Count(staged_work, Owed)' = c
    BY <1>5, <1>7, <1>10
  <2>. QED BY <1>1, <1>3, <1>4, <1>8, <1>10, <2>1 DEF RoomInv, HasRoom
<1>11. CASE Top
  <2>1. max_staged' = q + b /\ UNCHANGED <<staged_work, opt_queue>>
    BY <1>3, <1>4, <1>11 DEF Top, queueVars
  <2>2. main_pc' = "fetch" => c <= q + b
    BY <1>6, <1>11, <2>1 DEF Top, ScanAfter
  <2>3. main_pc' \notin {"retry", "push"}
    BY <1>11 DEF Top, ScanAfter
  <2>. QED BY <1>10, <2>1, <2>2, <2>3
<1>12. CASE SelectSpare
  <2>1. UNCHANGED <<staged_work, opt_queue, max_staged>>
    BY <1>12 DEF SelectSpare, queueVars
  <2>2. main_pc' \in {"retry", "push"} => main_work'.spare
    BY <1>12 DEF SelectSpare, ScanAfter, NoWork
  <2>3. main_pc' # "fetch"
    BY <1>12 DEF SelectSpare, ScanAfter
  <2>. QED BY <1>8, <1>10, <2>1, <2>2, <2>3
<1>13. CASE Woken
  <2>1. UNCHANGED <<staged_work, opt_queue, max_staged>>
    BY <1>13 DEF Woken, queueVars, tuneVars
  <2>2. main_pc' = "fetch" => c <= q + b
    BY <1>6, <1>8, <1>13 DEF Woken
  <2>3. main_pc' \notin {"retry", "push"}
    BY <1>13 DEF Woken
  <2>. QED BY <1>8, <1>10, <2>1, <2>2, <2>3
<1>14. CASE Fetch
  <2>1. UNCHANGED <<staged_work, opt_queue, max_staged>> /\ main_pc = "fetch"
    BY <1>14 DEF Fetch, queueVars, tuneVars
  <2>. QED BY <1>8, <1>10, <2>1
<1>15. CASE StratumDown \/ Generate
  <2>1. UNCHANGED <<staged_work, opt_queue, max_staged>> /\ main_pc = "retry"
    BY <1>15 DEF StratumDown, Generate, queueVars, tuneVars
  <2>2. main_work'.spare = main_work.spare
    BY <1>2, <1>15 DEF StratumDown, Generate, NextPool, Stamp, MainOK, Work
  <2>3. main_pc' # "fetch"
    BY <1>15 DEF StratumDown, Generate, NextPool
  <2>. QED BY <1>8, <1>10, <2>1, <2>2, <2>3
<1>16. CASE StageMain
  <2>1. PICK w \in Work : w = main_work
    BY <1>2 DEF MainOK
  <2>2. HashPush(w) /\ goal_malgo \in [Pools -> Algos]
    BY <1>1, <1>16, <2>1 DEF StageMain, StagedInv, PoolOK
  <2>3. PICK i \in 1 .. Len(staged_work) + 1 : staged_work' = InsertAt(staged_work, i, w)
    BY <1>2, <2>2, PushKeeps
  <2>4. Count(staged_work, Owed)' = c + (IF w \in Owed THEN 1 ELSE 0)
    BY <1>2, <1>5, <1>7, <2>3, CountInserted DEF QueueOK
  <2>5. w \in Owed => c <= q + b
    BY <1>8, <1>16, <2>1 DEF Owed, StageMain
  <2>6. Count(staged_work, Owed)' <= q + b + 1
    BY <1>8, <2>4, <2>5
  <2>7. main_pc' = "top" /\ max_staged' = 0 /\ opt_queue' = q
    BY <1>4, <1>16 DEF StageMain, tuneVars
  <2>. QED BY <1>1, <1>3, <2>6, <2>7 DEF RoomInv, HasRoom
<1>17. ASSUME ScheduleClone \/ Request \/ Reply \/ RequestFails \/ Failover
       PROVE  FALSE
  BY <1>1, <1>17 DEF ScheduleClone, Request, Reply, RequestFails, Failover, StratumOnly
<1>18. ASSUME NEW m \in Miners, PopNothing(m) PROVE RoomInv'
  <2>1. UNCHANGED staged_work /\ UNCHANGED mainVars
    BY <1>18 DEF PopNothing, queueVars
  <2>2. opt_queue' = q + 1 \/ opt_queue' = q + 0
    BY <1>4, <1>18 DEF PopNothing, If
  <2>3. Count(staged_work, Owed)' <= Count(staged_work, Owed)
    BY <1>5, <1>7, <2>1
  <2>4. opt_queue' >= opt_queue
    BY <1>4, <2>2
  <2>. QED BY <1>1, <2>1, <2>3, <2>4, NoLessRoom
<1>19. ASSUME NEW m \in Miners, PopWork(m) PROVE RoomInv'
  <2>1. {Found(m)} \in SUBSET DOMAIN staged_work
    BY <1>2, <1>19, FoundIsUsable DEF PopWork, QueueOK
  <2>2. Count(staged_work, Owed)' <= Count(staged_work, Owed)
    BY <1>2, <1>19, <2>1, UnstageOwed DEF PopWork
  <2>3. opt_queue' >= opt_queue /\ UNCHANGED mainVars
    BY <1>4, <1>19 DEF PopWork
  <2>. QED BY <1>1, <2>2, <2>3, NoLessRoom
<1>20. ASSUME NEW m \in Miners,
              \/ ClearRestart(m) \/ PopRollable(m) \/ CheckWork(m) \/ WakeGws(m)
              \/ FinishWork(m)
       PROVE  RoomInv'
  BY <1>9, <1>20 DEF ClearRestart, PopRollable, CheckWork, WakeGws, FinishWork,
     queueVars, tuneVars
<1>21. ASSUME NEW m \in Miners, MinerClone(m) \/ MinerPush(m) PROVE FALSE
  BY <1>1, <1>21 DEF MinerClone, MinerPush, StratumOnly
<1>22. ASSUME NEW p \in Pools, DiscardStale(p) \/ ClearPoolWork(p) PROVE RoomInv'
  <2>1. PICK S \in SUBSET DOMAIN staged_work : Unstage(S)
    BY <1>22 DEF DiscardStale, ClearPoolWork
  <2>2. Count(staged_work, Owed)' <= Count(staged_work, Owed)
    BY <1>2, <2>1, UnstageOwed
  <2>3. opt_queue' >= opt_queue /\ UNCHANGED mainVars
    BY <1>4, <1>22 DEF DiscardStale, ClearPoolWork
  <2>. QED BY <1>1, <2>2, <2>3, NoLessRoom
<1>23. ASSUME NEW p \in Pools,
              Notify(p) \/ FlagThreads(p) \/ ConnectionLost(p) \/ Revive(p)
       PROVE  RoomInv'
  BY <1>9, <1>23 DEF Notify, FlagThreads, ConnectionLost, Revive, queueVars, tuneVars
<1>24. ASSUME NEW p \in Pools, Longpoll(p) \/ Convert(p) PROVE FALSE
  BY <1>1, <1>24 DEF Longpoll, Convert, ConvertToWork, CloneWork, StageLast, StratumOnly
<1>25. CASE UNCHANGED vars
  BY <1>9, <1>25 DEF vars, queueVars, tuneVars
<1>. QED BY <1>11, <1>12, <1>13, <1>14, <1>15, <1>16, <1>17, <1>18, <1>19, <1>20, <1>21,
        <1>22, <1>23, <1>24, <1>25
     DEF Next, Scheduler, MinerStep, Restart

\* With stratum pools the queue holds, beside the spare works, at most one work
\* more than the devices and opt_queue ask for, however opt_queue grows and
\* works are taken, dropped and replaced.
THEOREM NotOverfilled ==
  ASSUME GetworkPools = {}
  PROVE  Spec => []NeverOverfills
<1>1. Init => RoomInv
  BY RoomInvInit
<1>2. RoomInv /\ [Next]_vars => RoomInv'
  BY RoomInvStep
<1>3. RoomInv => NeverOverfills
  BY TotalIsOwed DEF RoomInv, StagedInv, NeverOverfills
<1>. QED BY <1>1, <1>2, <1>3, PTL DEF Spec

-----------------------------------------------------------------------------
(* No header is mined twice.                                               *)

\* Two works from the same answer of a getwork pool.
Twins(v, w) == v.answer > 0 /\ v.answer = w.answer /\ v.pool = w.pool
Same(v, w) ==
    v.pool = w.pool /\ v.answer = w.answer /\ v.rolls = w.rolls /\ v.clone = w.clone

\* Twins differ in their rolls, and a master is ahead of all of its clones; the
\* masters in L, which are still to be cloned by convert_to_work, by two rolls.
Apart(v, w) ==
    Twins(v, w) => /\ v.rolls # w.rolls
                   /\ ~v.clone => w.rolls < v.rolls
                   /\ ~w.clone => v.rolls < w.rolls
Ahead(v, w) == Twins(v, w) => w.rolls + 1 < v.rolls
Clear(W, L, h, k) ==
    /\ Apart(W[h], W[k])
    /\ h \in L => Ahead(W[h], W[k])
    /\ k \in L => Ahead(W[k], W[h])

\* The works W in hands, with A answers given by each pool.
Separate(W, L, A) ==
    /\ \A h, k \in DOMAIN W : h # k => Clear(W, L, h, k)
    /\ \A h \in L : W[h].answer > 0 => ~W[h].clone
    /\ \A h \in DOMAIN W : W[h].answer <= A[W[h].pool]

Held == [h \in Hands |-> WorkIn(h)]
Open == {<<"update", p>> : p \in
          {q \in Pools : update_pc[q] \in {"discard", "flag", "convert", "clone"}}}

\* A work that is being made is of no answer yet, and a stratum pool's thread
\* holds none.
Unanswered ==
    /\ main_pc \in {"retry", "request", "failed"} => main_work.answer = 0
    /\ \A p \in StratumPools : update_work[p].answer = 0

HandInv == StagedInv /\ Unanswered /\ Separate(Held, Open, answers)

\* The works W come, but for those in the hands New, from the works V: that in h
\* is the one f[h] held, and no two are from one hand.
Moved(V, M, W, L, New, f) ==
    /\ \A h \in DOMAIN W \ New : W[h].answer > 0 =>
         f[h] \in DOMAIN V /\ Same(W[h], V[f[h]]) /\ (h \in L => f[h] \in M)
    /\ \A h, k \in DOMAIN W \ New :
         W[h].answer > 0 /\ W[k].answer > 0 /\ f[h] = f[k] => h = k

\* The new or changed works do not meet a twin that is like them.
NewClear(W, L, A, New) ==
    /\ \A h \in New : \A k \in DOMAIN W : h # k => Clear(W, L, h, k)
    /\ \A h \in New : h \in L /\ W[h].answer > 0 => ~W[h].clone
    /\ \A h \in New : W[h].answer <= A[W[h].pool]

\* Then the works stay separate.
LEMMA Carried ==
  ASSUME NEW V, NEW M, NEW A, Separate(V, M, A),
         NEW W, NEW L, NEW B, L \subseteq DOMAIN W,
         \A h \in DOMAIN W : W[h] \in Work,
         A \in [Pools -> Nat], B \in [Pools -> Nat], \A p \in Pools : A[p] <= B[p],
         NEW New, NEW f, Moved(V, M, W, L, New, f), NewClear(W, L, B, New)
  PROVE  Separate(W, L, B)
<1>. USE DEF Moved, NewClear
<1>1. ASSUME NEW h \in DOMAIN W, NEW k \in DOMAIN W, h # k
      PROVE  Clear(W, L, h, k)
  <2>1. CASE h \in New
    BY <1>1, <2>1
  <2>2. CASE k \in New
    <3>1. Clear(W, L, k, h)
      BY <1>1, <2>2
    <3>. QED BY <3>1 DEF Clear, Apart, Ahead, Twins
  <2>3. CASE h \notin New /\ k \notin New
    <3>. SUFFICES ASSUME Twins(W[h], W[k])
                  PROVE  Clear(W, L, h, k)
      BY DEF Clear, Apart, Ahead, Twins
    <3>1. W[h].answer > 0 /\ W[k].answer > 0
      BY DEF Twins
    <3>2. /\ f[h] \in DOMAIN V /\ Same(W[h], V[f[h]]) /\ (h \in L => f[h] \in M)
          /\ f[k] \in DOMAIN V /\ Same(W[k], V[f[k]]) /\ (k \in L => f[k] \in M)
          /\ f[h] # f[k]
      BY <1>1, <2>3, <3>1
    <3>3. Clear(V, M, f[h], f[k])
      BY <3>2 DEF Separate
    <3>. QED BY <3>2, <3>3 DEF Clear, Apart, Ahead, Same, Twins
  <2>. QED BY <2>1, <2>2, <2>3
<1>2. ASSUME NEW h \in L, W[h].answer > 0
      PROVE  ~W[h].clone
  <2>1. CASE h \in New
    BY <1>2, <2>1
  <2>2. CASE h \notin New
    <3>1. Same(W[h], V[f[h]]) /\ f[h] \in M
      BY <1>2, <2>2
    <3>. QED BY <1>2, <3>1 DEF Separate, Same
  <2>. QED BY <2>1, <2>2
<1>3. ASSUME NEW h \in DOMAIN W
      PROVE  W[h].answer <= B[W[h].pool]
  <2>1. CASE h \in New
    BY <1>3, <2>1
  <2>2. PICK p \in Pools, a \in Nat : p = W[h].pool /\ a = W[h].answer
    BY DEF Work
  <2>3. CASE h \notin New /\ a > 0
    <3>1. f[h] \in DOMAIN V /\ Same(W[h], V[f[h]])
      BY <2>2, <2>3
    <3>2. a <= A[p]
      BY <2>2, <3>1 DEF Separate, Same
    <3>3. A[p] <= B[p] /\ A[p] \in Nat /\ B[p] \in Nat
      OBVIOUS
    <3>. QED BY <2>2, <3>2, <3>3
  <2>4. CASE ~(a > 0)
    BY <2>2, <2>4
  <2>. QED BY <2>1, <2>3, <2>2, <2>4
<1>. QED BY <1>1, <1>2, <1>3 DEF Separate

\* What is in which hand.
HandsHold ==
  /\ DOMAIN Held = Hands
  /\ <<"main", 0>> \in Hands /\ Held[<<"main", 0>>] = main_work
  /\ \A m \in Miners : <<"miner", m>> \in Hands /\ Held[<<"miner", m>>] = miner_work[m]
  /\ \A p \in Pools : <<"update", p>> \in Hands /\ Held[<<"update", p>>] = update_work[p]
  /\ \A i \in DOMAIN staged_work :
       <<"queue", i>> \in Hands /\ Held[<<"queue", i>>] = staged_work[i]
  /\ \A h \in Hands : \/ h = <<"main", 0>>
                      \/ \E m \in Miners : h = <<"miner", m>>
                      \/ \E p \in Pools : h = <<"update", p>>
                      \/ \E i \in DOMAIN staged_work : h = <<"queue", i>>

LEMMA HeldWorks == HandsHold
BY DEF HandsHold, Held, Hands, WorkIn

LEMMA HeldWorksNext == HandsHold'
<1>1. HandsHold
  BY HeldWorks
<1>. QED BY <1>1, PTL

\* The hands are different.
LEMMA HandsDiffer ==
  /\ \A m : /\ <<"main", 0>> # <<"miner", m>> /\ <<"main", 0>> # <<"update", m>>
            /\ <<"main", 0>> # <<"queue", m>>
  /\ \A m, n : /\ <<"miner", m>> # <<"update", n>> /\ <<"miner", m>> # <<"queue", n>>
               /\ <<"update", m>> # <<"queue", n>>
               /\ (<<"miner", m>> = <<"miner", n>> => m = n)
               /\ (<<"update", m>> = <<"update", n>> => m = n)
               /\ (<<"queue", m>> = <<"queue", n>> => m = n)
  OBVIOUS

HandsTyped ==
  /\ \A h \in Hands : Held[h] \in Work
  /\ answers \in [Pools -> Nat]
  /\ Open \subseteq Hands
  /\ \A p \in Pools : <<"update", p>> \in Open
       <=> update_pc[p] \in {"discard", "flag", "convert", "clone"}
  /\ \A h \in Open : \E p \in Pools : h = <<"update", p>>

LEMMA HeldTypes == StagedInv => HandsTyped
<1>. SUFFICES ASSUME StagedInv PROVE HandsTyped
  OBVIOUS
<1>1. /\ main_work \in Work /\ miner_work \in [Miners -> Work]
      /\ update_work \in [Pools -> Work] /\ staged_work \in Seq(Work)
      /\ answers \in [Pools -> 0 .. MaxAnswers]
  BY DEF StagedInv, MainOK, MinerOK, UpdateOK, QueueOK, PoolOK
<1>2. \A i \in DOMAIN staged_work : staged_work[i] \in Work
  BY <1>1, ElementOfSeq, LenProperties
<1>3. ASSUME NEW h \in Hands PROVE Held[h] \in Work
  <2>1. CASE h = <<"main", 0>>
    BY <1>1, <2>1, HeldWorks DEF HandsHold
  <2>2. ASSUME NEW m \in Miners, h = <<"miner", m>> PROVE Held[h] \in Work
    BY <1>1, <2>2, HeldWorks DEF HandsHold
  <2>3. ASSUME NEW p \in Pools, h = <<"update", p>> PROVE Held[h] \in Work
    BY <1>1, <2>3, HeldWorks DEF HandsHold
  <2>4. ASSUME NEW i \in DOMAIN staged_work, h = <<"queue", i>> PROVE Held[h] \in Work
    BY <1>2, <2>4, HeldWorks DEF HandsHold
  <2>. QED BY <2>1, <2>2, <2>3, <2>4, HeldWorks DEF HandsHold
<1>4. answers \in [Pools -> Nat]
  <2>1. \A p \in Pools : answers[p] \in Nat
    BY <1>1, Constants
  <2>. QED BY <1>1, <2>1
<1>5. /\ Open \subseteq Hands
      /\ \A h \in Open : \E p \in Pools : h = <<"update", p>>
  BY HeldWorks DEF HandsHold, Open
<1>6. ASSUME NEW p \in Pools
      PROVE  <<"update", p>> \in Open
               <=> update_pc[p] \in {"discard", "flag", "convert", "clone"}
  BY HandsDiffer DEF Open
<1>. QED BY <1>3, <1>4, <1>5, <1>6 DEF HandsTyped

LEMMA HeldTypesNext == StagedInv' => HandsTyped'
<1>1. StagedInv => HandsTyped
  BY HeldTypes
<1>. QED BY <1>1, PTL

\* The same, for a step: New are the hands with new or changed works, f says where
\* the works of the other hands come from.
LEMMA HandsStep ==
  ASSUME HandInv, StagedInv', \A p \in Pools : answers[p] <= answers'[p],
         NEW New, NEW f, Moved(Held, Open, Held', Open', New, f),
         NewClear(Held', Open', answers', New)
  PROVE  Separate(Held, Open, answers)'
<1>1. Separate(Held, Open, answers) /\ HandsTyped
  BY HeldTypes DEF HandInv
<1>2. HandsTyped' /\ DOMAIN Held' = Hands' /\ DOMAIN Held = Hands
  BY HeldTypesNext, HeldWorks, HeldWorksNext DEF HandsHold
<1>3. PICK V : V = Held
  OBVIOUS
<1>4. PICK W : W = Held'
  OBVIOUS
<1>5. PICK A : A = answers
  OBVIOUS
<1>6. PICK B : B = answers'
  OBVIOUS
<1>7. PICK M : M = Open
  OBVIOUS
<1>8. PICK L : L = Open'
  OBVIOUS
<1>9. /\ Separate(V, M, A) /\ L \subseteq DOMAIN W
      /\ \A h \in DOMAIN W : W[h] \in Work
      /\ A \in [Pools -> Nat] /\ B \in [Pools -> Nat] /\ \A p \in Pools : A[p] <= B[p]
  BY <1>1, <1>2, <1>3, <1>4, <1>5, <1>6, <1>7, <1>8 DEF HandsTyped
<1>10. Moved(V, M, W, L, New, f) /\ NewClear(W, L, B, New)
  BY <1>3, <1>4, <1>6, <1>7, <1>8
<1>11. Separate(W, L, B)
  BY ONLY <1>9, <1>10, Carried
<1>. QED BY <1>4, <1>6, <1>8, <1>11

\* The hands of the threads.
Seats ==
    {<<"main", 0>>} \cup {<<"miner", m>> : m \in Miners} \cup {<<"update", p>> : p \in Pools}

LEMMA SeatedHands ==
  /\ Hands = Seats \cup {<<"queue", i>> : i \in DOMAIN staged_work}
  /\ Hands' = Seats \cup {<<"queue", i>> : i \in DOMAIN staged_work'}
  /\ \A i : <<"queue", i>> \notin Seats
  /\ StagedInv => Open \subseteq Seats
  /\ StagedInv' => Open' \subseteq Seats
<1>1. /\ Hands = Seats \cup {<<"queue", i>> : i \in DOMAIN staged_work}
      /\ Hands' = Seats \cup {<<"queue", i>> : i \in DOMAIN staged_work'}
      /\ \A i : <<"queue", i>> \notin Seats
  BY DEF Hands, Seats
<1>2. StagedInv => Open \subseteq Seats
  BY HeldTypes DEF HandsTyped, Seats
<1>3. StagedInv' => Open' \subseteq Seats
  BY HeldTypesNext DEF HandsTyped, Seats
<1>. QED BY <1>1, <1>2, <1>3

\* A thread's hand h is emptied or keeps its work.
Kept(h) ==
    /\ Held'[h].answer > 0 => Same(Held'[h], Held[h])
    /\ h \in Open' /\ Held'[h].answer > 0 => h \in Open

\* The queue stays as it is, and no work gets into a new hand.
LEMMA HandsStill ==
  ASSUME HandInv, StagedInv', answers' = answers, staged_work' = staged_work,
         \A h \in Seats : Kept(h)
  PROVE  Separate(Held, Open, answers)'
<1>1. PICK f : f = [h \in Hands |-> h]
  OBVIOUS
<1>2. Hands' = Hands
  BY SeatedHands
<1>3. ASSUME NEW h \in Hands', Held'[h].answer > 0
      PROVE  f[h] \in Hands /\ Same(Held'[h], Held[f[h]]) /\ (h \in Open' => f[h] \in Open)
  <2>1. f[h] = h /\ h \in Hands
    BY <1>1, <1>2
  <2>2. CASE h \in Seats
    BY <1>3, <2>1, <2>2 DEF Kept
  <2>3. CASE h \notin Seats
    <3>1. PICK i \in DOMAIN staged_work : h = <<"queue", i>>
      BY <2>1, <2>3, SeatedHands
    <3>2. Held'[h] = Held[h]
      BY <3>1, HeldWorks, HeldWorksNext DEF HandsHold
    <3>3. h \notin Open'
      BY <2>3, SeatedHands
    <3>. QED BY <2>1, <3>2, <3>3 DEF Same
  <2>. QED BY <2>2, <2>3
<1>4. \A p \in Pools : answers[p] <= answers'[p]
  BY HeldTypes DEF HandInv, HandsTyped
<1>5. \A h, k \in Hands' : f[h] = f[k] => h = k
  BY <1>1, <1>2
<1>6. PICK New : New = {}
  OBVIOUS
<1>7. DOMAIN Held' = Hands' /\ DOMAIN Held = Hands
  BY HeldWorks, HeldWorksNext DEF HandsHold
<1>8. Moved(Held, Open, Held', Open', New, f)
  BY <1>3, <1>5, <1>6, <1>7 DEF Moved
<1>9. NewClear(Held', Open', answers', New)
  BY <1>6 DEF NewClear
<1>. QED BY <1>4, <1>8, <1>9, HandsStep

\* A work v that gets into some hand while g gives up what it has: how it compares
\* with the works of the other hands.
Fits(v, g) ==
    \A k \in Hands \ {g} : Apart(v, Held[k]) /\ (k \in Open => Ahead(Held[k], v))
Leads(v, g) == \A k \in Hands \ {g} : Ahead(v, Held[k])

\* The work that was in g fits; so does one of no answer.
LEMMA OwnFits ==
  ASSUME HandInv, NEW g \in Hands, NEW v, v.answer > 0 => Same(v, Held[g])
  PROVE  /\ Fits(v, g)
         /\ g \in Open => Leads(v, g) /\ (v.answer > 0 => ~v.clone)
<1>1. Separate(Held, Open, answers) /\ DOMAIN Held = Hands
  BY HeldWorks DEF HandInv, HandsHold
<1>2. \A k \in Hands \ {g} : Clear(Held, Open, g, k)
  BY <1>1 DEF Separate
<1>3. Fits(v, g)
  BY <1>2 DEF Fits, Clear, Apart, Ahead, Twins, Same
<1>4. g \in Open => Leads(v, g)
  BY <1>2 DEF Leads, Clear, Ahead, Twins, Same
<1>5. g \in Open => (v.answer > 0 => ~v.clone)
  BY <1>1 DEF Separate, Same
<1>. QED BY <1>3, <1>4, <1>5

\* A thread puts the work w into the queue, and has another one then, or none.
LEMMA HandsPush ==
  ASSUME HandInv, StagedInv', answers' = answers,
         NEW g \in Seats, NEW i \in 1 .. Len(staged_work) + 1, NEW w \in Work,
         staged_work' = InsertAt(staged_work, i, w),
         \A h \in Seats \ {g} : Kept(h),
         Fits(w, g), Fits(Held'[g], g), Apart(w, Held'[g]),
         g \in Open' => /\ Leads(Held'[g], g) /\ Ahead(Held'[g], w)
                        /\ Held'[g].answer > 0 => ~Held'[g].clone,
         w.answer <= answers[w.pool], Held'[g].answer <= answers[Held'[g].pool]
  PROVE  Separate(Held, Open, answers)'
<1>1. staged_work \in Seq(Work)
  BY DEF HandInv, StagedInv, QueueOK
<1>2. PICK n \in Nat : n = Len(staged_work) /\ DOMAIN staged_work = 1 .. n
  BY <1>1, LenProperties
<1>3. /\ i \in 1 .. n + 1 /\ DOMAIN staged_work' = 1 .. n + 1
      /\ \A k \in 1 .. n + 1 : staged_work'[k] =
           IF k < i THEN staged_work[k] ELSE IF k = i THEN w ELSE staged_work[k - 1]
  BY <1>1, <1>2, Inserted
<1>4. PICK q : q = <<"queue", i>>
  OBVIOUS
<1>5. /\ q \in Hands' /\ q \notin Seats /\ q \notin Open' /\ q # g
      /\ Held'[q] = w /\ g \in Hands' /\ g \in Hands
      /\ DOMAIN Held' = Hands' /\ DOMAIN Held = Hands
  BY <1>3, <1>4, SeatedHands, HeldWorks, HeldWorksNext DEF HandsHold
<1>6. PICK f : f = [h \in Hands' |-> IF h \in Seats THEN h
                                     ELSE IF h[2] < i THEN h ELSE <<"queue", h[2] - 1>>]
  OBVIOUS
<1>7. ASSUME NEW k \in 1 .. n + 1, k # i
      PROVE  \E j \in 1 .. n : /\ f[<<"queue", k>>] = <<"queue", j>>
                               /\ j = IF k < i THEN k ELSE k - 1
                               /\ staged_work'[k] = staged_work[j]
  <2>1. <<"queue", k>> \in Hands' /\ <<"queue", k>> \notin Seats
    BY <1>3, SeatedHands
  <2>2. CASE k < i
    <3>1. k \in 1 .. n /\ staged_work'[k] = staged_work[k]
      BY <1>3, <2>2
    <3>2. f[<<"queue", k>>] = <<"queue", k>>
      BY <1>6, <2>1, <2>2
    <3>. QED BY <2>2, <3>1, <3>2
  <2>3. CASE ~(k < i)
    <3>1. k - 1 \in 1 .. n /\ staged_work'[k] = staged_work[k - 1]
      BY <1>3, <1>7, <2>3
    <3>2. f[<<"queue", k>>] = <<"queue", k - 1>>
      BY <1>6, <2>1, <2>3
    <3>. QED BY <2>3, <3>1, <3>2
  <2>. QED BY <2>2, <2>3
<1>8. ASSUME NEW h \in Hands' \ {q, g}
      PROVE  h \in Seats \/ \E k \in 1 .. n + 1 : k # i /\ h = <<"queue", k>>
  BY <1>3, <1>4, <1>8, SeatedHands
<1>9. ASSUME NEW h \in Hands' \ {q, g}
      PROVE  /\ f[h] \in Hands \ {g}
             /\ Held'[h].answer > 0 => Same(Held'[h], Held[f[h]])
             /\ h \in Open' /\ Held'[h].answer > 0 => f[h] \in Open
  <2>1. CASE h \in Seats
    BY <1>6, <1>9, <2>1, SeatedHands DEF Kept
  <2>2. ASSUME NEW k \in 1 .. n + 1, k # i, h = <<"queue", k>>
        PROVE  /\ f[h] \in Hands \ {g}
               /\ Same(Held'[h], Held[f[h]])
               /\ h \notin Open'
    <3>1. PICK j \in 1 .. n : /\ f[<<"queue", k>>] = <<"queue", j>>
                              /\ staged_work'[k] = staged_work[j]
      BY <1>7, <2>2
    <3>2. Held'[h] = staged_work'[k]
      BY <1>3, <2>2, HeldWorksNext DEF HandsHold
    <3>3. f[h] \in Hands /\ Held[f[h]] = staged_work[j]
      BY <1>2, <2>2, <3>1, HeldWorks DEF HandsHold
    <3>4. f[h] # g /\ h \notin Open'
      BY <2>2, <3>1, SeatedHands
    <3>. QED BY <3>1, <3>2, <3>3, <3>4 DEF Same
  <2>. QED BY <1>8, <2>1, <2>2
<1>10. ASSUME NEW h \in Hands' \ {q, g}, NEW k \in Hands' \ {q, g}, f[h] = f[k]
       PROVE  h = k
  <2>1. CASE h \in Seats /\ k \in Seats
    BY <1>6, <1>10, <2>1
  <2>2. \A x \in Hands' \ {q, g} : x \in Seats => f[x] \in Seats
    BY <1>6
  <2>3. \A x \in Hands' \ {q, g} : x \notin Seats =>
          \E l \in 1 .. n + 1 : \E j \in 1 .. n :
            /\ x = <<"queue", l>> /\ l # i
            /\ f[x] = <<"queue", j>> /\ j = IF l < i THEN l ELSE l - 1
    BY <1>7, <1>8
  <2>4. CASE h \notin Seats /\ k \notin Seats
    <3>1. PICK l \in 1 .. n + 1, j \in 1 .. n :
            /\ h = <<"queue", l>> /\ l # i
            /\ f[h] = <<"queue", j>> /\ j = IF l < i THEN l ELSE l - 1
      BY <2>3, <2>4
    <3>2. PICK m \in 1 .. n + 1, o \in 1 .. n :
            /\ k = <<"queue", m>> /\ m # i
            /\ f[k] = <<"queue", o>> /\ o = IF m < i THEN m ELSE m - 1
      BY <2>3, <2>4
    <3>3. j = o
      BY <1>10, <3>1, <3>2
    <3>4. l = m
      BY <1>3, <3>1, <3>2, <3>3
    <3>. QED BY <3>1, <3>2, <3>4
  <2>5. CASE (h \in Seats /\ k \notin Seats) \/ (h \notin Seats /\ k \in Seats)
    BY <1>10, <2>2, <2>3, <2>5, SeatedHands
  <2>. QED BY <2>1, <2>4, <2>5
<1>11. Moved(Held, Open, Held', Open', {q, g}, f)
  BY <1>5, <1>9, <1>10 DEF Moved
<1>12. ASSUME NEW k \in Hands' \ {q, g}
       PROVE  Clear(Held', Open', q, k) /\ Clear(Held', Open', g, k)
  <2>1. PICK x \in Hands \ {g} :
          /\ Held'[k].answer > 0 => Same(Held'[k], Held[x])
          /\ k \in Open' /\ Held'[k].answer > 0 => x \in Open
    BY <1>9
  <2>2. Apart(w, Held[x]) /\ (x \in Open => Ahead(Held[x], w))
    BY <2>1 DEF Fits
  <2>3. Apart(Held'[g], Held[x]) /\ (x \in Open => Ahead(Held[x], Held'[g]))
    BY <2>1 DEF Fits
  <2>4. g \in Open' => Ahead(Held'[g], Held[x])
    BY <2>1 DEF Leads
  <2>5. Clear(Held', Open', q, k)
    BY <1>5, <2>1, <2>2 DEF Clear, Apart, Ahead, Twins, Same
  <2>6. Clear(Held', Open', g, k)
    BY <2>1, <2>3, <2>4 DEF Clear, Apart, Ahead, Twins, Same
  <2>. QED BY <2>5, <2>6
<1>13. Clear(Held', Open', q, g) /\ Clear(Held', Open', g, q)
  BY <1>5 DEF Clear, Apart, Ahead, Twins
<1>14. NewClear(Held', Open', answers', {q, g})
  BY <1>5, <1>12, <1>13 DEF NewClear
<1>15. \A p \in Pools : answers[p] <= answers'[p]
  BY HeldTypes DEF HandInv, HandsTyped
<1>. QED BY <1>11, <1>14, <1>15, HandsStep

\* Works are taken out of the queue, and the hand g may get one of them (the hand t
\* is where its work was).
LEMMA HandsUnstage ==
  ASSUME HandInv, StagedInv', answers' = answers,
         NEW S \in SUBSET DOMAIN staged_work, staged_work' = Without(S),
         NEW g \in Seats, NEW t \in Hands, t = g \/ \E i \in S : t = <<"queue", i>>,
         Held'[g].answer > 0 => Same(Held'[g], Held[t]) /\ (g \in Open' => t \in Open),
         \A h \in Seats \ {g} : Kept(h)
  PROVE  Separate(Held, Open, answers)'
<1>1. staged_work \in Seq(Work)
  BY DEF HandInv, StagedInv, QueueOK
<1>2. PICK from \in Bijection(DOMAIN Without(S), DOMAIN staged_work \ S) :
        \A k \in DOMAIN Without(S) : Without(S)[k] = staged_work[from[k]]
  BY <1>1, WithoutQueue
<1>3. /\ \A k \in DOMAIN staged_work' : /\ from[k] \in DOMAIN staged_work \ S
                                        /\ staged_work'[k] = staged_work[from[k]]
      /\ \A j, k \in DOMAIN staged_work' : from[j] = from[k] => j = k
  BY <1>2 DEF Bijection, Injection, IsInjective
<1>4. DOMAIN Held' = Hands' /\ DOMAIN Held = Hands
  BY HeldWorks, HeldWorksNext DEF HandsHold
<1>5. PICK f : f = [h \in Hands' |-> IF h = g THEN t ELSE IF h \in Seats THEN h
                                     ELSE <<"queue", from[h[2]]>>]
  OBVIOUS
<1>6. ASSUME NEW k \in DOMAIN staged_work'
      PROVE  /\ f[<<"queue", k>>] = <<"queue", from[k]>>
             /\ <<"queue", k>> \notin Open'
             /\ <<"queue", from[k]>> \in Hands
             /\ Same(Held'[<<"queue", k>>], Held[<<"queue", from[k]>>])
  <2>1. <<"queue", k>> \in Hands' /\ <<"queue", k>> \notin Seats
    BY SeatedHands
  <2>2. f[<<"queue", k>>] = <<"queue", from[k]>>
    BY <1>5, <2>1
  <2>3. Held'[<<"queue", k>>] = staged_work'[k]
    BY HeldWorksNext DEF HandsHold
  <2>4. /\ <<"queue", from[k]>> \in Hands
        /\ Held[<<"queue", from[k]>>] = staged_work[from[k]]
    BY <1>3, HeldWorks DEF HandsHold
  <2>. QED BY <1>3, <2>1, <2>2, <2>3, <2>4, SeatedHands DEF Same
<1>7. \A h \in Hands' : h \in Seats \/ \E k \in DOMAIN staged_work' : h = <<"queue", k>>
  BY SeatedHands
<1>8. ASSUME NEW h \in Hands', Held'[h].answer > 0
      PROVE  f[h] \in Hands /\ Same(Held'[h], Held[f[h]]) /\ (h \in Open' => f[h] \in Open)
  <2>1. CASE h = g
    BY <1>5, <1>8, <2>1
  <2>2. CASE h \in Seats /\ h # g
    BY <1>5, <1>8, <2>2, SeatedHands DEF Kept
  <2>3. CASE h \notin Seats
    BY <1>6, <1>7, <2>3
  <2>. QED BY <2>1, <2>2, <2>3
<1>9. \A x \in Hands' : /\ x = g => f[x] = t
                        /\ x # g /\ x \in Seats => f[x] = x
                        /\ x \notin Seats =>
                             \E k \in DOMAIN staged_work' :
                               x = <<"queue", k>> /\ f[x] = <<"queue", from[k]>>
  BY <1>5, <1>6, <1>7
<1>10. \A k \in DOMAIN staged_work' : /\ t # <<"queue", from[k]>>
                                      /\ <<"queue", from[k]>> \notin Seats
  BY <1>3, SeatedHands, HandsDiffer
<1>11. \A x \in Seats : x # g => t # x
  BY SeatedHands
<1>12. ASSUME NEW h \in Hands', NEW k \in Hands', f[h] = f[k]
       PROVE  h = k
  <2>1. CASE h \in Seats /\ k \in Seats
    BY <1>9, <1>11, <1>12, <2>1
  <2>2. CASE h \notin Seats /\ k \notin Seats
    <3>1. PICK l \in DOMAIN staged_work' :
            h = <<"queue", l>> /\ f[h] = <<"queue", from[l]>>
      BY <1>9, <2>2
    <3>2. PICK m \in DOMAIN staged_work' :
            k = <<"queue", m>> /\ f[k] = <<"queue", from[m]>>
      BY <1>9, <2>2
    <3>3. from[l] = from[m]
      BY <1>12, <3>1, <3>2
    <3>. QED BY <1>3, <3>1, <3>2, <3>3
  <2>3. CASE h \in Seats /\ k \notin Seats
    BY <1>9, <1>10, <1>12, <2>3
  <2>4. CASE h \notin Seats /\ k \in Seats
    BY <1>9, <1>10, <1>12, <2>4
  <2>. QED BY <2>1, <2>2, <2>3, <2>4
<1>13. Moved(Held, Open, Held', Open', {}, f)
  BY <1>4, <1>8, <1>12 DEF Moved
<1>14. NewClear(Held', Open', answers', {})
  BY DEF NewClear
<1>15. \A p \in Pools : answers[p] <= answers'[p]
  BY HeldTypes DEF HandInv, HandsTyped
<1>. QED BY <1>13, <1>14, <1>15, HandsStep

\* Hands in which nothing changes while others get something new.
LEMMA RestMoved ==
  ASSUME NEW New, NEW f, f = [h \in Hands |-> h], Hands' = Hands,
         \A h \in Hands \ New : Held'[h].answer > 0 =>
           Same(Held'[h], Held[h]) /\ (h \in Open' => h \in Open)
  PROVE  Moved(Held, Open, Held', Open', New, f)
<1>1. DOMAIN Held' = Hands /\ DOMAIN Held = Hands
  BY HeldWorks, HeldWorksNext DEF HandsHold
<1>. QED BY <1>1 DEF Moved

\* A pool gives another answer.
LEMMA HandsFresh ==
  ASSUME HandInv, StagedInv', staged_work' = staged_work,
         NEW g \in Seats, NEW p \in Pools,
         answers' = [answers EXCEPT ![p] = answers[p] + 1],
         Held'[g].pool = p, Held'[g].answer = answers'[p],
         g \in Open' => ~Held'[g].clone,
         \A h \in Seats \ {g} : Kept(h)
  PROVE  Separate(Held, Open, answers)'
<1>1. answers \in [Pools -> Nat] /\ Separate(Held, Open, answers)
  BY HeldTypes DEF HandInv, HandsTyped
<1>2. answers'[p] = answers[p] + 1 /\ \A q \in Pools : answers[q] <= answers'[q]
  BY <1>1
<1>3. Hands' = Hands
  BY SeatedHands
<1>4. /\ DOMAIN Held' = Hands /\ DOMAIN Held = Hands
      /\ \A i \in DOMAIN staged_work : /\ <<"queue", i>> \in Hands
                                       /\ Held'[<<"queue", i>>] = Held[<<"queue", i>>]
  BY <1>3, HeldWorks, HeldWorksNext DEF HandsHold
<1>5. ASSUME NEW h \in Hands \ {g}, Held'[h].answer > 0
      PROVE  Same(Held'[h], Held[h]) /\ (h \in Open' => h \in Open)
  <2>1. CASE h \in Seats
    BY <1>5, <2>1 DEF Kept
  <2>2. CASE h \notin Seats
    <3>1. PICK i \in DOMAIN staged_work : h = <<"queue", i>>
      BY <2>2, SeatedHands
    <3>. QED BY <1>4, <2>2, <3>1, SeatedHands DEF Same
  <2>. QED BY <2>1, <2>2
<1>6. PICK f : f = [h \in Hands |-> h]
  OBVIOUS
<1>7. Moved(Held, Open, Held', Open', {g}, f)
  BY <1>3, <1>5, <1>6, RestMoved
<1>8. ASSUME NEW k \in Hands \ {g}
      PROVE  ~Twins(Held'[g], Held'[k])
  <2>. SUFFICES ASSUME Twins(Held'[g], Held'[k])
                PROVE  FALSE
    OBVIOUS
  <2>1. Held'[k].answer = answers[p] + 1 /\ Held'[k].pool = p
    BY <1>2 DEF Twins
  <2>2. Held'[k].answer > 0
    BY DEF Twins
  <2>3. Held[k].answer = answers[p] + 1 /\ Held[k].pool = p
    BY <1>5, <2>1, <2>2 DEF Same
  <2>4. Held[k].answer <= answers[Held[k].pool]
    BY <1>1, <1>4 DEF Separate
  <2>5. answers[p] \in Nat /\ answers[p] + 1 <= answers[p]
    BY <1>1, <2>3, <2>4
  <2>. QED BY <2>5
<1>9. \A k \in Hands \ {g} : Clear(Held', Open', g, k)
  BY <1>8 DEF Clear, Apart, Ahead, Twins
<1>10. Held'[g].answer <= answers'[Held'[g].pool]
  BY <1>1, <1>2
<1>11. NewClear(Held', Open', answers', {g})
  BY <1>4, <1>9, <1>10 DEF NewClear
<1>. QED BY <1>2, <1>7, <1>11, HandsStep

\* clone_available clones the work in place i into the hand g.
LEMMA HandsClone ==
  ASSUME HandInv, StagedInv', answers' = answers,
         NEW g \in Seats, g \notin Open', NEW i \in DOMAIN staged_work,
         ~staged_work[i].clone, CloneAt(i),
         Held'[g].pool = staged_work[i].pool, Held'[g].answer = staged_work[i].answer,
         Held'[g].rolls = staged_work[i].rolls + 1, Held'[g].clone = TRUE,
         \A h \in Seats \ {g} : Kept(h)
  PROVE  Separate(Held, Open, answers)'
<1>1. Separate(Held, Open, answers) /\ HandsTyped
  BY HeldTypes DEF HandInv
<1>2. staged_work \in Seq(Work)
  BY DEF HandInv, StagedInv, QueueOK
<1>3. PICK u \in Work : u = staged_work[i]
  BY <1>2, ElementOfSeq, LenProperties
<1>4. PICK x \in Work : x = Rolled(Rolled(u))
  BY RolledWork
<1>5. /\ x.pool = u.pool /\ x.answer = u.answer /\ x.clone = FALSE
      /\ x.rolls = u.rolls + 2
  <2>1. /\ x.pool = u.pool /\ x.answer = u.answer /\ x.clone = u.clone
        /\ x.rolls = (u.rolls + 1) + 1
    <3>1. PICK y \in Work : /\ y = Rolled(u) /\ y.pool = u.pool /\ y.answer = u.answer
                            /\ y.clone = u.clone /\ y.rolls = u.rolls + 1
      BY RolledWork
    <3>2. x = Rolled(y)
      BY <1>4, <3>1
    <3>. QED BY <3>1, <3>2, RolledWork
  <2>2. u.rolls \in Nat /\ u.clone \in BOOLEAN /\ ~u.clone
    BY <1>3 DEF Work
  <2>. QED BY <2>1, <2>2
<1>6. staged_work' = [staged_work EXCEPT ![i] = x]
  BY <1>3, <1>4 DEF CloneAt
<1>7. /\ DOMAIN staged_work' = DOMAIN staged_work /\ staged_work'[i] = x
      /\ \A j \in DOMAIN staged_work : j # i => staged_work'[j] = staged_work[j]
  BY <1>2, <1>6, LenProperties
<1>8. Hands' = Hands
  BY <1>7, SeatedHands
<1>9. PICK q : q = <<"queue", i>>
  OBVIOUS
<1>10. /\ DOMAIN Held' = Hands /\ DOMAIN Held = Hands
       /\ q \in Hands /\ Held[q] = u /\ Held'[q] = x /\ g \in Hands
       /\ q \notin Seats /\ q # g /\ q \notin Open'
       /\ \A j \in DOMAIN staged_work : j # i =>
            Held'[<<"queue", j>>] = Held[<<"queue", j>>]
  BY <1>3, <1>7, <1>8, <1>9, SeatedHands, HeldWorks, HeldWorksNext DEF HandsHold
<1>11. ASSUME NEW h \in Hands \ {q, g}, Held'[h].answer > 0
       PROVE  Same(Held'[h], Held[h]) /\ (h \in Open' => h \in Open)
  <2>1. CASE h \in Seats
    BY <1>11, <2>1 DEF Kept
  <2>2. CASE h \notin Seats
    <3>1. PICK j \in DOMAIN staged_work : h = <<"queue", j>>
      BY <2>2, SeatedHands
    <3>. QED BY <1>9, <1>10, <2>2, <3>1, SeatedHands DEF Same
  <2>. QED BY <2>1, <2>2
<1>12. PICK f : f = [h \in Hands |-> h]
  OBVIOUS
<1>13. Moved(Held, Open, Held', Open', {q, g}, f)
  BY <1>8, <1>11, <1>12, RestMoved
<1>14. PICK r \in Nat : r = u.rolls
  BY <1>3 DEF Work
<1>15. ASSUME NEW k \in Hands \ {q, g}
       PROVE  Clear(Held', Open', q, k) /\ Clear(Held', Open', g, k)
  <2>1. CASE Twins(u, Held'[k])
    <3>1. Held'[k].answer > 0 /\ Twins(u, Held[k])
      BY <1>11, <2>1 DEF Twins, Same
    <3>2. Same(Held'[k], Held[k]) /\ (k \in Open' => k \in Open)
      BY <1>11, <3>1
    <3>3. Clear(Held, Open, q, k)
      BY <1>1, <1>10 DEF Separate
    <3>4. /\ Held[k].rolls < r /\ Held[k].clone /\ k \notin Open'
          /\ Held[k].rolls \in Nat
      <4>1. Held[k].rolls \in Nat /\ Held[k].clone \in BOOLEAN
        BY <1>1 DEF HandsTyped, Work
      <4>2. Held[k].rolls < r /\ (~Held[k].clone => r < Held[k].rolls)
        BY <1>3, <1>10, <1>14, <3>1, <3>3 DEF Clear, Apart
      <4>3. k \in Open => r + 1 < Held[k].rolls
        BY <1>10, <1>14, <3>1, <3>3 DEF Clear, Ahead, Twins
      <4>4. Held[k].clone
        BY <4>1, <4>2
      <4>5. k \notin Open'
        BY <3>2, <4>1, <4>2, <4>3
      <4>. QED BY <4>1, <4>2, <4>4, <4>5
    <3>5. PICK s \in Nat : s = Held'[k].rolls /\ s < r /\ Held'[k].clone
      BY <3>2, <3>4 DEF Same
    <3>6. s # r + 1 /\ s < r + 1 /\ s # r + 2 /\ s < r + 2
      BY ONLY <3>5, r \in Nat, s \in Nat
    <3>. QED BY <1>3, <1>5, <1>10, <1>14, <3>4, <3>5, <3>6 DEF Clear, Apart, Ahead
  <2>2. CASE ~Twins(u, Held'[k])
    <3>1. ~Twins(Held'[q], Held'[k]) /\ ~Twins(Held'[g], Held'[k])
      BY <1>3, <1>5, <1>10, <2>2 DEF Twins
    <3>. QED BY <3>1 DEF Clear, Apart, Ahead, Twins
  <2>. QED BY <2>1, <2>2
<1>16. Clear(Held', Open', q, g) /\ Clear(Held', Open', g, q)
  <2>1. r + 1 # r + 2 /\ r + 1 < r + 2
    OBVIOUS
  <2>. QED BY <1>3, <1>5, <1>10, <1>14, <2>1 DEF Clear, Apart, Ahead
<1>17. u.answer <= answers[u.pool]
  BY <1>1, <1>10 DEF Separate
<1>18. NewClear(Held', Open', answers', {q, g})
  BY <1>3, <1>5, <1>10, <1>15, <1>16, <1>17 DEF NewClear
<1>19. \A p \in Pools : answers[p] <= answers'[p]
  BY <1>1 DEF HandsTyped
<1>. QED BY <1>13, <1>18, <1>19, HandsStep

\* A thread puts the work it has into the queue and is left with none.
LEMMA HandsLay ==
  ASSUME HandInv, StagedInv', answers' = answers,
         NEW g \in Seats, NEW i \in 1 .. Len(staged_work) + 1, NEW w \in Work,
         staged_work' = InsertAt(staged_work, i, w),
         w.answer > 0 => Same(w, Held[g]), Held'[g].answer = 0,
         \A h \in Seats \ {g} : Kept(h)
  PROVE  Separate(Held, Open, answers)'
<1>1. g \in Hands /\ g \in Hands' /\ Separate(Held, Open, answers) /\ HandsTyped
  BY SeatedHands, HeldTypes DEF HandInv
<1>2. Fits(w, g)
  BY <1>1, OwnFits
<1>3. Fits(Held'[g], g) /\ Leads(Held'[g], g) /\ Ahead(Held'[g], w) /\ Apart(w, Held'[g])
  BY DEF Fits, Leads, Ahead, Apart, Twins
<1>4. Held'[g].pool \in Pools
  BY <1>1, HeldTypesNext DEF HandsTyped, Work
<1>5. Held'[g].answer <= answers[Held'[g].pool]
  BY <1>1, <1>4 DEF HandsTyped
<1>6. w.answer <= answers[w.pool]
  <2>1. PICK p \in Pools, a \in Nat : p = w.pool /\ a = w.answer
    BY DEF Work
  <2>2. CASE a > 0
    BY <1>1, <2>1, <2>2, HeldWorks DEF Separate, Same, HandsHold
  <2>3. CASE ~(a > 0)
    BY <1>1, <2>1, <2>3 DEF HandsTyped
  <2>. QED BY <2>2, <2>3
<1>. QED BY <1>2, <1>3, <1>5, <1>6, HandsPush

\* A thread has the work it had, or none.
MainKept == main_work'.answer > 0 => Same(main_work', main_work)
MinerKept(m) == miner_work'[m].answer > 0 => Same(miner_work'[m], miner_work[m])
UpdateKept(p) ==
    update_work'[p].answer > 0 =>
      /\ Same(update_work'[p], update_work[p])
      /\ update_pc'[p] \in {"discard", "flag", "convert", "clone"}
           => update_pc[p] \in {"discard", "flag", "convert", "clone"}

LEMMA SeatsKept ==
  ASSUME StagedInv, StagedInv'
  PROVE  /\ MainKept => Kept(<<"main", 0>>)
         /\ \A m \in Miners : MinerKept(m) => Kept(<<"miner", m>>)
         /\ \A p \in Pools : UpdateKept(p) => Kept(<<"update", p>>)
         /\ \A h \in Seats : \/ h = <<"main", 0>>
                             \/ \E m \in Miners : h = <<"miner", m>>
                             \/ \E p \in Pools : h = <<"update", p>>
<1>1. HandsTyped /\ HandsTyped' /\ HandsHold /\ HandsHold'
  BY HeldTypes, HeldTypesNext, HeldWorks, HeldWorksNext
<1>2. ASSUME MainKept PROVE Kept(<<"main", 0>>)
  <2>1. <<"main", 0>> \notin Open'
    BY <1>1, HandsDiffer DEF HandsTyped
  <2>. QED BY <1>1, <1>2, <2>1 DEF MainKept, Kept, HandsHold
<1>3. ASSUME NEW m \in Miners, MinerKept(m) PROVE Kept(<<"miner", m>>)
  <2>1. <<"miner", m>> \notin Open'
    BY <1>1, HandsDiffer DEF HandsTyped
  <2>. QED BY <1>1, <1>3, <2>1 DEF MinerKept, Kept, HandsHold
<1>4. ASSUME NEW p \in Pools, UpdateKept(p) PROVE Kept(<<"update", p>>)
  BY <1>1, <1>4 DEF UpdateKept, Kept, HandsHold, HandsTyped
<1>. QED BY <1>2, <1>3, <1>4 DEF Seats

\* A thread that does nothing keeps its work.
LEMMA IdleKept ==
  ASSUME StagedInv, StagedInv'
  PROVE  /\ main_work' = main_work => MainKept
         /\ \A m \in Miners : miner_work'[m] = miner_work[m] => MinerKept(m)
         /\ \A p \in Pools : /\ update_work'[p] = update_work[p]
                             /\ update_pc'[p] = update_pc[p]
                             => UpdateKept(p)
         /\ UNCHANGED <<minerVars, updateVars>> =>
              \A h \in Seats \ {<<"main", 0>>} : Kept(h)
         /\ UNCHANGED <<mainVars, updateVars>> =>
              \A m \in Miners :
                /\ \A n \in Miners \ {m} : miner_work'[n] = miner_work[n]
                => \A h \in Seats \ {<<"miner", m>>} : Kept(h)
         /\ UNCHANGED <<mainVars, minerVars>> =>
              \A p \in Pools :
                /\ \A q \in Pools \ {p} : /\ update_work'[q] = update_work[q]
                                          /\ update_pc'[q] = update_pc[q]
                => \A h \in Seats \ {<<"update", p>>} : Kept(h)
<1>1. main_work' = main_work => MainKept
  BY DEF MainKept, Same
<1>2. \A m \in Miners : miner_work'[m] = miner_work[m] => MinerKept(m)
  BY DEF MinerKept, Same
<1>3. \A p \in Pools :
        update_work'[p] = update_work[p] /\ update_pc'[p] = update_pc[p] => UpdateKept(p)
  BY DEF UpdateKept, Same
<1>4. ASSUME UNCHANGED <<minerVars, updateVars>>, NEW h \in Seats \ {<<"main", 0>>}
      PROVE  Kept(h)
  BY <1>2, <1>3, <1>4, SeatsKept DEF minerVars, updateVars
<1>5. ASSUME UNCHANGED <<mainVars, updateVars>>, NEW m \in Miners,
             \A n \in Miners \ {m} : miner_work'[n] = miner_work[n],
             NEW h \in Seats \ {<<"miner", m>>}
      PROVE  Kept(h)
  BY <1>1, <1>2, <1>3, <1>5, SeatsKept DEF mainVars, updateVars
<1>6. ASSUME UNCHANGED <<mainVars, minerVars>>, NEW p \in Pools,
             \A q \in Pools \ {p} : /\ update_work'[q] = update_work[q]
                                    /\ update_pc'[q] = update_pc[q],
             NEW h \in Seats \ {<<"update", p>>}
      PROVE  Kept(h)
  BY <1>1, <1>2, <1>3, <1>6, SeatsKept DEF mainVars, minerVars
<1>. QED BY <1>1, <1>2, <1>3, <1>4, <1>5, <1>6

\* A step of the scheduler.
LEMMA SchedulerUnanswered ==
  ASSUME StagedInv, Unanswered, Scheduler
  PROVE  Unanswered'
<1>1. main_work \in Work /\ NoWork \in Work /\ NoWork.answer = 0
  BY NoWorkType DEF StagedInv, MainOK
<1>2. update_work' = update_work
  BY DEF Scheduler, Top, SelectSpare, Woken, Fetch, StratumDown, Generate, ScheduleClone,
     Request, Reply, RequestFails, Failover, StageMain, updateVars
<1>3. CASE Top \/ Woken \/ Generate \/ ScheduleClone \/ Reply \/ StageMain
  <2>1. main_pc' \notin {"retry", "request", "failed"}
    BY <1>3 DEF Top, ScanAfter, Woken, Generate, ScheduleClone, Reply, StageMain
  <2>. QED BY <1>2, <2>1 DEF Unanswered
<1>4. CASE SelectSpare \/ Fetch
  <2>1. main_pc' \in {"retry", "request", "failed"} => main_work'.answer = 0
    BY <1>1, <1>4 DEF SelectSpare, Fetch, ScanAfter, Work
  <2>. QED BY <1>2, <2>1 DEF Unanswered
<1>5. CASE StratumDown \/ Failover
  <2>1. main_work.answer = 0
    BY <1>5 DEF Unanswered, StratumDown, Failover
  <2>2. main_work'.answer = 0
    BY <1>1, <1>5, <2>1 DEF StratumDown, Failover, NextPool, Work
  <2>. QED BY <1>2, <2>2 DEF Unanswered
<1>6. CASE Request \/ RequestFails
  <2>1. main_work.answer = 0
    BY <1>6 DEF Unanswered, Request, RequestFails
  <2>2. main_work'.answer = 0
    BY <1>1, <1>6, <2>1 DEF Request, RequestFails, Work
  <2>. QED BY <1>2, <2>2 DEF Unanswered
<1>. QED BY <1>3, <1>4, <1>5, <1>6 DEF Scheduler

LEMMA SchedulerHands ==
  ASSUME HandInv, StagedInv', Scheduler
  PROVE  Separate(Held, Open, answers)'
<1>1. StagedInv /\ Unanswered /\ HandsHold /\ HandsHold'
  BY HeldWorks, HeldWorksNext DEF HandInv
<1>2. /\ main_work \in Work /\ NoWork \in Work /\ NoWork.answer = 0
      /\ QueueOK /\ PoolOK
  BY <1>1, NoWorkType DEF StagedInv, MainOK
<1>3. UNCHANGED <<minerVars, updateVars>>
  BY DEF Scheduler, Top, SelectSpare, Woken, Fetch, StratumDown, Generate, ScheduleClone,
     Request, Reply, RequestFails, Failover, StageMain
<1>4. \A h \in Seats \ {<<"main", 0>>} : Kept(h)
  BY <1>1, <1>3, IdleKept
<1>5. PICK g : g = <<"main", 0>>
  OBVIOUS
<1>6. g \in Seats /\ g \notin Open' /\ Held[g] = main_work /\ Held'[g] = main_work'
  BY <1>1, <1>5, HeldTypesNext, HandsDiffer DEF HandsHold, HandsTyped, Seats
<1>7. CASE Top \/ SelectSpare \/ Woken \/ Fetch \/ StratumDown \/ Generate \/ Request
           \/ RequestFails \/ Failover
  <2>1. answers' = answers /\ staged_work' = staged_work
    BY <1>7 DEF Top, SelectSpare, Woken, Fetch, StratumDown, Generate, Request,
       RequestFails, Failover, queueVars, poolVars
  <2>2. MainKept
    <3>1. CASE Top \/ Woken \/ RequestFails
      BY <3>1 DEF Top, Woken, RequestFails, MainKept, Same
    <3>2. CASE SelectSpare \/ Fetch
      <4>1. main_work' = main_work \/ main_work'.answer = 0
        BY <1>2, <3>2 DEF SelectSpare, Fetch, Work
      <4>. QED BY <4>1 DEF MainKept, Same
    <3>3. CASE StratumDown \/ Failover
      <4>1. main_work.answer = 0
        BY <1>1, <3>3 DEF Unanswered, StratumDown, Failover
      <4>2. main_work'.answer = 0
        BY <1>2, <3>3, <4>1 DEF StratumDown, Failover, NextPool, Work
      <4>. QED BY <4>2 DEF MainKept
    <3>4. CASE Request
      BY <1>2, <3>4 DEF Request, MainKept, Same, Work
    <3>5. CASE Generate
      <4>1. PICK j \in Nat : j = job[main_work.pool]
        BY <1>2 DEF Work, PoolOK
      <4>2. PICK v \in Work : v = main_work
        BY <1>2
      <4>3. PICK w : w = [v EXCEPT !.job = j]
        OBVIOUS
      <4>4. w \in Work /\ w.answer = v.answer
        BY <4>1, <4>3 DEF Work
      <4>5. main_work' = Stamp(w) /\ main_work.answer = 0
        BY <1>1, <3>5, <4>1, <4>2, <4>3 DEF Generate, Unanswered
      <4>6. main_work'.answer = 0
        BY <1>2, <4>2, <4>4, <4>5, StampedWork
      <4>. QED BY <4>6 DEF MainKept
    <3>. QED BY <1>7, <3>1, <3>2, <3>3, <3>4, <3>5
  <2>3. \A h \in Seats : Kept(h)
    BY <1>1, <1>4, <2>2, SeatsKept
  <2>. QED BY <2>1, <2>3, HandsStill
<1>8. CASE ScheduleClone
  <2>1. PICK i \in DOMAIN staged_work : i = FirstRollable /\ CanRoll(staged_work[i])
    BY <1>2, <1>8, FirstIsRollable DEF ScheduleClone, QueueOK
  <2>2. PICK u \in Work : u = staged_work[i]
    BY <1>2, ElementOfSeq, LenProperties DEF QueueOK
  <2>3. PICK y \in Work : y = Rolled(u) /\ y.pool = u.pool /\ y.answer = u.answer
                          /\ y.rolls = u.rolls + 1
    BY RolledWork
  <2>4. PICK z \in Work : z = CloneOf(y) /\ z.pool = y.pool /\ z.answer = y.answer
                          /\ z.rolls = y.rolls /\ z.clone = TRUE
    BY RolledWork
  <2>5. CloneAt(i) /\ main_work' = Stamp(z) /\ answers' = answers
    BY <1>8, <2>1, <2>2, <2>3, <2>4 DEF ScheduleClone, TheClone, poolVars
  <2>6. /\ main_work'.pool = u.pool /\ main_work'.answer = u.answer
        /\ main_work'.rolls = u.rolls + 1 /\ main_work'.clone = TRUE
    BY <1>2, <2>3, <2>4, <2>5, StampedWork
  <2>7. ~u.clone
    BY <2>1, <2>2 DEF CanRoll
  <2>. QED BY <1>4, <1>5, <1>6, <2>2, <2>5, <2>6, <2>7, HandsClone
<1>9. CASE Reply
  <2>1. PICK p \in Pools : p = main_work.pool
    BY <1>2 DEF Work
  <2>2. answers' = [answers EXCEPT ![p] = answers[p] + 1] /\ staged_work' = staged_work
    BY <1>9, <2>1 DEF Reply, queueVars
  <2>3. PICK a \in Nat : a = answers'[p]
    BY <1>6, <2>1, HeldTypesNext DEF HandsTyped
  <2>4. PICK j \in {main_work.job, job[p]}, r \in BOOLEAN :
          main_work' = Stamp([main_work EXCEPT !.job = j, !.rolltime = r, !.answer = a])
    BY <1>9, <2>1, <2>3 DEF Reply
  <2>5. j \in Nat
    BY <1>2 DEF PoolOK, Work
  <2>6. PICK v \in Work : v = main_work /\ v.pool = p
    BY <1>2, <2>1
  <2>7. PICK w : w = [v EXCEPT !.job = j, !.rolltime = r, !.answer = a]
    OBVIOUS
  <2>8. w \in Work /\ w.pool = v.pool /\ w.answer = a
    BY <2>5, <2>7 DEF Work
  <2>9. main_work'.pool = p /\ main_work'.answer = a
    BY <1>2, <2>4, <2>6, <2>7, <2>8, StampedWork
  <2>. QED BY <1>4, <1>5, <1>6, <2>2, <2>3, <2>9, HandsFresh
<1>10. CASE StageMain
  <2>1. PICK w \in Work : w = main_work
    BY <1>2
  <2>2. HashPush(w) /\ goal_malgo \in [Pools -> Algos] /\ answers' = answers
    BY <1>2, <1>10, <2>1 DEF StageMain, PoolOK, poolVars
  <2>3. PICK i \in 1 .. Len(staged_work) + 1 : staged_work' = InsertAt(staged_work, i, w)
    BY <1>2, <2>2, PushKeeps
  <2>4. main_work'.answer = 0
    BY <1>2, <1>10 DEF StageMain
  <2>5. Same(w, Held[g])
    BY <1>6, <2>1 DEF Same
  <2>. QED BY <1>4, <1>5, <1>6, <2>2, <2>3, <2>4, <2>5, HandsLay
<1>. QED BY <1>7, <1>8, <1>9, <1>10 DEF Scheduler

\* A step of a mining thread.
LEMMA MinerHands ==
  ASSUME HandInv, StagedInv', NEW m \in Miners, MinerStep(m)
  PROVE  Separate(Held, Open, answers)'
<1>1. StagedInv /\ Unanswered /\ HandsHold /\ HandsHold'
  BY HeldWorks, HeldWorksNext DEF HandInv
<1>2. /\ miner_work \in [Miners -> Work] /\ NoWork \in Work /\ NoWork.answer = 0
      /\ QueueOK /\ PoolOK
  BY <1>1, NoWorkType DEF StagedInv, MinerOK
<1>3. UNCHANGED <<mainVars, updateVars>> /\ answers' = answers
  BY DEF MinerStep, ClearRestart, PopNothing, PopRollable, PopWork, MinerClone,
     MinerPush, CheckWork, WakeGws, FinishWork, poolVars
<1>4. \A n \in Miners \ {m} : miner_work'[n] = miner_work[n]
  BY <1>2 DEF MinerStep, ClearRestart, PopNothing, PopRollable, PopWork, MinerClone,
     MinerPush, CheckWork, WakeGws, FinishWork, minerVars
<1>5. \A h \in Seats \ {<<"miner", m>>} : Kept(h)
  BY <1>1, <1>3, <1>4, IdleKept
<1>6. PICK g : g = <<"miner", m>>
  OBVIOUS
<1>7. g \in Seats /\ g \notin Open' /\ Held[g] = miner_work[m] /\ Held'[g] = miner_work'[m]
  BY <1>1, <1>6, HeldTypesNext, HandsDiffer DEF HandsHold, HandsTyped, Seats
<1>8. ASSUME staged_work' = staged_work,
             miner_work'[m] = miner_work[m] \/ miner_work'[m] = NoWork
      PROVE  Separate(Held, Open, answers)'
  <2>1. MinerKept(m)
    BY <1>2, <1>8 DEF MinerKept, Same
  <2>2. \A h \in Seats : Kept(h)
    BY <1>1, <1>5, <2>1, SeatsKept
  <2>. QED BY <1>3, <1>8, <2>2, HandsStill
<1>9. CASE \/ ClearRestart(m) \/ PopNothing(m) \/ PopRollable(m) \/ CheckWork(m)
           \/ WakeGws(m) \/ FinishWork(m)
  BY <1>2, <1>8, <1>9 DEF ClearRestart, PopNothing, PopRollable, CheckWork, WakeGws,
     FinishWork, queueVars, minerVars
<1>10. CASE PopWork(m)
  <2>1. PICK i \in DOMAIN staged_work : i = Found(m)
    BY <1>2, <1>10, FoundIsUsable DEF PopWork, QueueOK
  <2>2. PICK t : t = <<"queue", i>>
    OBVIOUS
  <2>3. t \in Hands /\ Held[t] = staged_work[i]
    BY <1>1, <2>2 DEF HandsHold
  <2>4. miner_work'[m] = staged_work[i] /\ staged_work' = Without({i})
    BY <1>2, <1>10, <2>1 DEF PopWork, Unstage
  <2>5. Same(Held'[g], Held[t])
    BY <1>7, <2>3, <2>4 DEF Same
  <2>. QED BY <1>3, <1>5, <1>6, <1>7, <2>2, <2>3, <2>4, <2>5, HandsUnstage
<1>11. CASE MinerClone(m)
  <2>1. CASE FirstRollable = 0
    BY <1>8, <1>11, <2>1 DEF MinerClone
  <2>2. CASE FirstRollable # 0
    <3>1. PICK i \in DOMAIN staged_work : i = FirstRollable /\ CanRoll(staged_work[i])
      BY <1>2, <2>2, FirstIsRollable DEF QueueOK
    <3>2. PICK u \in Work : u = staged_work[i]
      BY <1>2, ElementOfSeq, LenProperties DEF QueueOK
    <3>3. PICK y \in Work : y = Rolled(u) /\ y.pool = u.pool /\ y.answer = u.answer
                            /\ y.rolls = u.rolls + 1
      BY RolledWork
    <3>4. PICK z \in Work : z = CloneOf(y) /\ z.pool = y.pool /\ z.answer = y.answer
                            /\ z.rolls = y.rolls /\ z.clone = TRUE
      BY RolledWork
    <3>5. CloneAt(i) /\ miner_work'[m] = Stamp(z)
      BY <1>2, <1>11, <2>2, <3>1, <3>2, <3>3, <3>4 DEF MinerClone, TheClone
    <3>6. /\ miner_work'[m].pool = u.pool /\ miner_work'[m].answer = u.answer
          /\ miner_work'[m].rolls = u.rolls + 1 /\ miner_work'[m].clone = TRUE
      BY <1>2, <3>3, <3>4, <3>5, StampedWork
    <3>7. ~u.clone
      BY <3>1, <3>2 DEF CanRoll
    <3>. QED BY <1>3, <1>5, <1>6, <1>7, <3>2, <3>5, <3>6, <3>7, HandsClone
  <2>. QED BY <2>1, <2>2
<1>12. CASE MinerPush(m)
  <2>1. PICK w \in Work : w = miner_work[m]
    BY <1>2
  <2>2. HashPush(w) /\ goal_malgo \in [Pools -> Algos]
    BY <1>2, <1>12, <2>1 DEF MinerPush, PoolOK
  <2>3. PICK i \in 1 .. Len(staged_work) + 1 : staged_work' = InsertAt(staged_work, i, w)
    BY <1>2, <2>2, PushKeeps
  <2>4. miner_work'[m].answer = 0
    BY <1>2, <1>12 DEF MinerPush
  <2>5. Same(w, Held[g])
    BY <1>7, <2>1 DEF Same
  <2>. QED BY <1>3, <1>5, <1>6, <1>7, <2>3, <2>4, <2>5, HandsLay
<1>. QED BY <1>9, <1>10, <1>11, <1>12 DEF MinerStep

\* A step of a pool's thread.
LEMMA UpdateUnanswered ==
  ASSUME StagedInv, Unanswered, NEW p \in Pools,
         \/ Notify(p) \/ Longpoll(p) \/ Restart(p) \/ Convert(p)
         \/ ConnectionLost(p) \/ ClearPoolWork(p) \/ Revive(p)
  PROVE  Unanswered'
<1>1. update_work \in [Pools -> Work] /\ NoWork \in Work /\ NoWork.answer = 0
  BY NoWorkType DEF StagedInv, UpdateOK
<1>2. UNCHANGED mainVars
  BY DEF Notify, Longpoll, Restart, DiscardStale, FlagThreads, Convert, ConvertToWork,
     CloneWork, StageLast, ConnectionLost, ClearPoolWork, Revive
<1>3. \A q \in Pools \ {p} : update_work'[q] = update_work[q]
  BY <1>1 DEF Notify, Longpoll, Restart, DiscardStale, FlagThreads, Convert,
     ConvertToWork, CloneWork, StageLast, ConnectionLost, ClearPoolWork, Revive
<1>4. ASSUME p \in StratumPools PROVE update_work'[p].answer = 0
  <2>1. update_work[p].answer = 0 /\ p \notin GetworkPools
    BY <1>4, StagedAssumption DEF Unanswered
  <2>2. CASE update_work'[p] = update_work[p] \/ update_work'[p] = NoWork
    BY <1>1, <2>1, <2>2
  <2>3. CASE CloneWork(p)
    <3>1. PICK v \in Work : v = update_work[p] /\ v.answer = 0
      BY <1>1, <2>1
    <3>2. /\ Rolled(Rolled(v)).answer = 0
          /\ \A r : CloneOf([v EXCEPT !.rolls = r]).answer = 0
      BY <3>1 DEF Rolled, CloneOf, Work
    <3>. QED BY <1>1, <3>1, <3>2, <2>3 DEF CloneWork
  <2>4. update_work'[p] = update_work[p] \/ update_work'[p] = NoWork \/ CloneWork(p)
    BY <1>1, <2>1 DEF Notify, Longpoll, Restart, DiscardStale, FlagThreads, Convert,
       ConvertToWork, StageLast, ConnectionLost, ClearPoolWork, Revive
  <2>. QED BY <2>2, <2>3, <2>4
<1>5. \A q \in StratumPools : update_work'[q].answer = 0
  BY <1>3, <1>4 DEF Unanswered, Pools
<1>. QED BY <1>2, <1>5 DEF Unanswered, mainVars

\* The last clone clone_work makes of a work is behind it, and ahead of the rest.
LEMMA LatestFits ==
  ASSUME HandInv, NEW p \in Pools, <<"update", p>> \in Open,
         NEW v \in Work, v = update_work[p], NEW w \in Work,
         w.pool = v.pool, w.answer = v.answer, w.clone = TRUE,
         w.rolls = IF v.rolls = 0 THEN 0 ELSE v.rolls - 1
  PROVE  Fits(w, <<"update", p>>)
<1>1. PICK g : g = <<"update", p>>
  OBVIOUS
<1>2. /\ g \in Hands /\ Held[g] = v /\ DOMAIN Held = Hands
      /\ Separate(Held, Open, answers) /\ HandsTyped
  BY <1>1, HeldWorks, HeldTypes DEF HandInv, HandsHold
<1>3. PICK r \in Nat : r = v.rolls
  BY DEF Work
<1>4. ASSUME NEW k \in Hands \ {g}, Twins(w, Held[k])
      PROVE  Held[k].rolls < w.rolls /\ Held[k].clone /\ k \notin Open
  <2>1. Twins(v, Held[k]) /\ Twins(Held[k], v)
    BY <1>4 DEF Twins
  <2>2. Clear(Held, Open, g, k) /\ Held[k] \in Work
    BY <1>2 DEF Separate, HandsTyped
  <2>3. PICK s \in Nat : s = Held[k].rolls
    BY <2>2 DEF Work
  <2>4. /\ s + 1 < r /\ (~Held[k].clone => r < s) /\ (k \in Open => r + 1 < s)
    BY <1>1, <1>2, <1>3, <2>1, <2>2, <2>3 DEF Clear, Apart, Ahead
  <2>5. s + 1 < r => ~(r < s) /\ ~(r + 1 < s) /\ r # 0 /\ s < r - 1
    OBVIOUS
  <2>6. w.rolls = r - 1 /\ s < r - 1
    BY <1>3, <2>4, <2>5
  <2>7. Held[k].clone \in BOOLEAN
    BY <2>2 DEF Work
  <2>. QED BY <2>3, <2>4, <2>5, <2>6, <2>7
<1>5. ASSUME NEW k \in Hands \ {g}
      PROVE  Apart(w, Held[k]) /\ (k \in Open => Ahead(Held[k], w))
  <2>1. CASE Twins(w, Held[k])
    <3>1. PICK s \in Nat, t \in Nat : s = Held[k].rolls /\ t = w.rolls
      BY <1>2 DEF HandsTyped, Work
    <3>2. s < t /\ Held[k].clone /\ k \notin Open
      BY <1>4, <2>1, <3>1
    <3>. QED BY <3>1, <3>2 DEF Apart
  <2>2. CASE ~Twins(w, Held[k])
    BY <2>2 DEF Apart, Ahead, Twins
  <2>. QED BY <2>1, <2>2
<1>. QED BY <1>1, <1>5 DEF Fits

\* Rolled past the clone, the work is still ahead of all of its clones.
LEMMA RolledFits ==
  ASSUME HandInv, NEW p \in Pools, <<"update", p>> \in Open,
         NEW v \in Work, v = update_work[p], NEW w \in Work,
         w.pool = v.pool, w.answer = v.answer, w.clone = v.clone, w.rolls = v.rolls + 2
  PROVE  /\ Fits(w, <<"update", p>>) /\ Leads(w, <<"update", p>>)
         /\ w.answer > 0 => ~w.clone
<1>1. PICK g : g = <<"update", p>>
  OBVIOUS
<1>2. /\ g \in Hands /\ Held[g] = v /\ DOMAIN Held = Hands
      /\ Separate(Held, Open, answers) /\ HandsTyped
  BY <1>1, HeldWorks, HeldTypes DEF HandInv, HandsHold
<1>3. PICK r \in Nat : r = v.rolls /\ w.rolls = r + 2
  BY DEF Work
<1>4. ASSUME NEW k \in Hands \ {g}, Twins(w, Held[k])
      PROVE  Held[k].rolls + 1 < w.rolls /\ Held[k].clone /\ k \notin Open
  <2>1. Twins(v, Held[k]) /\ Twins(Held[k], v)
    BY <1>4 DEF Twins
  <2>2. Clear(Held, Open, g, k) /\ Held[k] \in Work
    BY <1>2 DEF Separate, HandsTyped
  <2>3. PICK s \in Nat : s = Held[k].rolls
    BY <2>2 DEF Work
  <2>4. /\ s + 1 < r /\ (~Held[k].clone => r < s) /\ (k \in Open => r + 1 < s)
    BY <1>1, <1>2, <1>3, <2>1, <2>2, <2>3 DEF Clear, Apart, Ahead
  <2>5. s + 1 < r => ~(r < s) /\ ~(r + 1 < s) /\ s + 1 < r + 2
    OBVIOUS
  <2>6. Held[k].clone \in BOOLEAN
    BY <2>2 DEF Work
  <2>. QED BY <1>3, <2>3, <2>4, <2>5, <2>6
<1>5. ASSUME NEW k \in Hands \ {g}
      PROVE  Apart(w, Held[k]) /\ (k \in Open => Ahead(Held[k], w)) /\ Ahead(w, Held[k])
  <2>1. CASE Twins(w, Held[k])
    <3>1. PICK s \in Nat, t \in Nat : s = Held[k].rolls /\ t = w.rolls
      BY <1>2 DEF HandsTyped, Work
    <3>2. s + 1 < t /\ Held[k].clone /\ k \notin Open
      BY <1>4, <2>1, <3>1
    <3>3. s < t /\ s # t
      BY <3>1, <3>2
    <3>. QED BY <3>1, <3>2, <3>3 DEF Apart, Ahead
  <2>2. CASE ~Twins(w, Held[k])
    BY <2>2 DEF Apart, Ahead, Twins
  <2>. QED BY <2>1, <2>2
<1>6. w.answer > 0 => ~w.clone
  BY <1>1, <1>2 DEF Separate
<1>. QED BY <1>1, <1>5, <1>6 DEF Fits, Leads

LEMMA CloneWorkHands ==
  ASSUME HandInv, StagedInv', NEW p \in Pools, CloneWork(p),
         \A h \in Seats \ {<<"update", p>>} : Kept(h)
  PROVE  Separate(Held, Open, answers)'
<1>1. StagedInv /\ HandsTyped /\ HandsTyped' /\ HandsHold /\ HandsHold'
      /\ Separate(Held, Open, answers)
  BY HeldWorks, HeldWorksNext, HeldTypes, HeldTypesNext DEF HandInv
<1>2. /\ update_work \in [Pools -> Work] /\ update_pc \in [Pools -> UpdatePlaces]
      /\ NoWork \in Work /\ NoWork.answer = 0
      /\ QueueOK /\ PoolOK /\ goal_malgo \in [Pools -> Algos]
  BY <1>1, NoWorkType DEF StagedInv, UpdateOK, PoolOK
<1>3. PICK g : g = <<"update", p>>
  OBVIOUS
<1>4. /\ g \in Seats /\ g \in Hands /\ g \in Hands' /\ g \in Open
      /\ g \in Open' <=> update_pc'[p] \in {"discard", "flag", "convert", "clone"}
      /\ Held[g] = update_work[p] /\ Held'[g] = update_work'[p]
  BY <1>1, <1>3, SeatedHands DEF HandsHold, HandsTyped, Seats, CloneWork
<1>5. PICK v \in Work, r \in Nat : v = update_work[p] /\ r = v.rolls
  BY <1>2 DEF Work
<1>6. PICK l \in Nat : l = IF r = 0 THEN 0 ELSE r - 1
  OBVIOUS
<1>7. PICK y : y = [v EXCEPT !.rolls = l]
  OBVIOUS
<1>8. /\ y \in Work /\ y.pool = v.pool /\ y.answer = v.answer /\ y.rolls = l
  BY <1>7 DEF Work
<1>9. PICK latest \in Work : /\ latest = CloneOf(y) /\ latest.pool = v.pool
                             /\ latest.answer = v.answer /\ latest.rolls = l
                             /\ latest.clone = TRUE
  <2>1. /\ CloneOf(y) \in Work /\ CloneOf(y).pool = y.pool /\ CloneOf(y).answer = y.answer
        /\ CloneOf(y).rolls = y.rolls /\ CloneOf(y).clone = TRUE
    BY ONLY <1>8, RolledWork
  <2>. QED BY ONLY <1>8, <2>1
<1>10. latest = CloneOf([v EXCEPT !.rolls = IF @ = 0 THEN 0 ELSE @ - 1])
  BY <1>5, <1>6, <1>7, <1>9
<1>11. PICK z \in Work : z = Rolled(v) /\ z.pool = v.pool /\ z.answer = v.answer
                         /\ z.clone = v.clone /\ z.rolls = r + 1
  BY <1>5, RolledWork
<1>12. PICK next \in Work : next = Rolled(z) /\ next.pool = v.pool
                            /\ next.answer = v.answer /\ next.clone = v.clone
                            /\ next.rolls = r + 2
  <2>1. /\ Rolled(z) \in Work /\ Rolled(z).pool = v.pool /\ Rolled(z).answer = v.answer
        /\ Rolled(z).clone = v.clone /\ Rolled(z).rolls = (r + 1) + 1
    BY <1>11, RolledWork
  <2>2. (r + 1) + 1 = r + 2
    OBVIOUS
  <2>. QED BY <2>1, <2>2
<1>13. answers' = answers
  BY DEF CloneWork, poolVars
<1>14. v.answer <= answers[v.pool] /\ v.clone \in BOOLEAN
  BY <1>1, <1>4, <1>5 DEF Separate, HandsHold, Work
<1>15. Fits(latest, g)
  BY <1>3, <1>4, <1>5, <1>6, <1>9, LatestFits
<1>16. ASSUME NEW w \in Work, StageOf(p, w, update_pc'[p])
       PROVE  \E i \in 1 .. Len(staged_work) + 1, x \in Work :
                /\ staged_work' = InsertAt(staged_work, i, x)
                /\ Same(x, w)
  <2>1. PICK x \in Work : x = Stamp(w) /\ Same(x, w)
    BY <1>2, StampedWork DEF Same
  <2>2. HashPush(x)
    BY <1>16, <2>1 DEF StageOf
  <2>3. PICK i \in 1 .. Len(staged_work) + 1 : staged_work' = InsertAt(staged_work, i, x)
    BY <1>2, <2>2, PushKeeps
  <2>. QED BY <2>1, <2>3
<1>17. CASE mrs[p] > 0 /\ CanRoll(v)
  <2>1. StageOf(p, latest, "clone") /\ update_work'[p] = next
    BY <1>2, <1>5, <1>10, <1>11, <1>12, <1>17 DEF CloneWork
  <2>2. update_pc'[p] = "clone"
    BY <1>2, <2>1 DEF StageOf
  <2>3. PICK i \in 1 .. Len(staged_work) + 1, x \in Work :
          staged_work' = InsertAt(staged_work, i, x) /\ Same(x, latest)
    BY <1>16, <2>1, <2>2
  <2>4. Fits(next, g) /\ Leads(next, g) /\ (next.answer > 0 => ~next.clone)
    BY <1>3, <1>4, <1>5, <1>12, RolledFits
  <2>5. Fits(x, g)
    BY <1>15, <2>3 DEF Fits, Apart, Ahead, Twins, Same
  <2>6. l # r + 2 /\ l < r + 2 /\ l + 1 < r + 2
    BY <1>6
  <2>7. Apart(x, next) /\ Ahead(next, x)
    BY <1>9, <1>12, <2>3, <2>6 DEF Apart, Ahead, Same
  <2>8. x.answer <= answers[x.pool] /\ next.answer <= answers[next.pool]
    BY <1>9, <1>12, <1>14, <2>3 DEF Same
  <2>. QED BY <1>3, <1>4, <1>13, <2>1, <2>3, <2>4, <2>5, <2>7, <2>8, HandsPush
<1>18. CASE ~(mrs[p] > 0 /\ CanRoll(v)) /\ r > 0
  <2>1. StageOf(p, v, "last") /\ update_work'[p] = latest
    BY <1>2, <1>5, <1>10, <1>18 DEF CloneWork
  <2>2. update_pc'[p] = "last"
    BY <1>2, <2>1 DEF StageOf
  <2>3. PICK i \in 1 .. Len(staged_work) + 1, x \in Work :
          staged_work' = InsertAt(staged_work, i, x) /\ Same(x, v)
    BY <1>16, <2>1, <2>2
  <2>4. g \notin Open'
    BY <1>4, <2>2
  <2>5. Fits(x, g)
    BY <1>4, <1>5, <2>3, OwnFits
  <2>6. r # l /\ l < r
    BY <1>6, <1>18
  <2>7. Apart(x, latest)
    BY <1>5, <1>9, <2>3, <2>6 DEF Apart, Same
  <2>8. x.answer <= answers[x.pool] /\ latest.answer <= answers[latest.pool]
    BY <1>9, <1>14, <2>3 DEF Same
  <2>. QED BY <1>3, <1>4, <1>13, <1>15, <2>1, <2>3, <2>4, <2>5, <2>7, <2>8, HandsPush
<1>19. CASE ~(mrs[p] > 0 /\ CanRoll(v)) /\ ~(r > 0)
  <2>1. StageOf(p, v, "idle") /\ update_work'[p] = NoWork
    BY <1>2, <1>5, <1>19 DEF CloneWork
  <2>2. update_pc'[p] = "idle"
    BY <1>2, <2>1 DEF StageOf
  <2>3. PICK i \in 1 .. Len(staged_work) + 1, x \in Work :
          staged_work' = InsertAt(staged_work, i, x) /\ Same(x, v)
    BY <1>16, <2>1, <2>2
  <2>. QED BY <1>2, <1>3, <1>4, <1>5, <1>13, <2>1, <2>3, HandsLay
<1>. QED BY <1>17, <1>18, <1>19

LEMMA UpdateHands ==
  ASSUME HandInv, StagedInv', NEW p \in Pools,
         \/ Notify(p) \/ Longpoll(p) \/ Restart(p) \/ Convert(p)
         \/ ConnectionLost(p) \/ ClearPoolWork(p) \/ Revive(p)
  PROVE  Separate(Held, Open, answers)'
<1>1. StagedInv /\ Unanswered /\ HandsHold /\ HandsHold' /\ HandsTyped /\ HandsTyped'
  BY HeldWorks, HeldWorksNext, HeldTypes, HeldTypesNext DEF HandInv
<1>2. /\ update_work \in [Pools -> Work] /\ update_pc \in [Pools -> UpdatePlaces]
      /\ NoWork \in Work /\ NoWork.answer = 0 /\ QueueOK /\ PoolOK
  BY <1>1, NoWorkType DEF StagedInv, UpdateOK
<1>3. main_work' = main_work /\ miner_work' = miner_work
  BY DEF Notify, Longpoll, Restart, DiscardStale, FlagThreads, Convert, ConvertToWork,
     CloneWork, StageLast, ConnectionLost, ClearPoolWork, Revive, mainVars, minerVars
<1>4. \A q \in Pools \ {p} : update_work'[q] = update_work[q] /\ update_pc'[q] = update_pc[q]
  BY <1>2 DEF Notify, Longpoll, Restart, DiscardStale, FlagThreads, Convert, ConvertToWork,
     CloneWork, StageLast, StageOf, ConnectionLost, ClearPoolWork, Revive
<1>5. PICK g : g = <<"update", p>>
  OBVIOUS
<1>6. \A h \in Seats \ {g} : Kept(h)
  BY <1>1, <1>3, <1>4, <1>5, SeatsKept, IdleKept
<1>7. g \in Seats /\ Held[g] = update_work[p] /\ Held'[g] = update_work'[p]
  BY <1>1, <1>5 DEF HandsHold, Seats
<1>8. UpdateKept(p) => \A h \in Seats : Kept(h)
  BY <1>1, <1>5, <1>6, SeatsKept
<1>9. CASE Notify(p) \/ FlagThreads(p) \/ ConvertToWork(p) \/ ConnectionLost(p) \/ Revive(p)
  <2>1. answers' = answers /\ staged_work' = staged_work
    BY <1>9 DEF Notify, FlagThreads, ConvertToWork, ConnectionLost, Revive, queueVars,
       poolVars
  <2>2. UpdateKept(p)
    <3>1. CASE Notify(p)
      BY <1>1, <3>1 DEF Notify, Unanswered, UpdateKept
    <3>2. CASE FlagThreads(p)
      BY <3>2 DEF FlagThreads, UpdateKept, Same
    <3>3. CASE ConvertToWork(p)
      <4>1. update_work'[p] = update_work[p] \/ update_work'[p] = NoWork
        BY <1>2, <3>3 DEF ConvertToWork
      <4>2. update_pc[p] = "convert"
        BY <3>3 DEF ConvertToWork
      <4>. QED BY <1>2, <4>1, <4>2 DEF UpdateKept, Same
    <3>4. CASE ConnectionLost(p) \/ Revive(p)
      <4>1. update_work' = update_work
        BY <3>4 DEF ConnectionLost, Revive
      <4>2. update_pc'[p] \in {"lost", "idle", update_pc[p]}
        BY <1>2, <3>4 DEF ConnectionLost, Revive
      <4>. QED BY <4>1, <4>2 DEF UpdateKept, Same
    <3>. QED BY <1>9, <3>1, <3>2, <3>3, <3>4
  <2>. QED BY <1>8, <2>1, <2>2, HandsStill
<1>10. CASE Longpoll(p)
  <2>1. answers' = [answers EXCEPT ![p] = answers[p] + 1] /\ staged_work' = staged_work
    BY <1>10 DEF Longpoll, queueVars
  <2>2. PICK a \in Nat : a = answers'[p]
    BY <1>1 DEF HandsTyped
  <2>3. PICK j \in Nat : j = job'[p]
    BY DEF StagedInv, PoolOK
  <2>4. PICK r \in BOOLEAN : update_work'[p] =
          [NoWork EXCEPT !.pool = p, !.job = j, !.rolltime = r, !.answer = a]
    BY <1>2, <1>10, <2>2, <2>3 DEF Longpoll
  <2>5. /\ update_work'[p].pool = p /\ update_work'[p].answer = a
        /\ ~update_work'[p].clone
    BY <2>4 DEF NoWork
  <2>. QED BY <1>6, <1>7, <2>1, <2>2, <2>5, HandsFresh
<1>11. CASE DiscardStale(p) \/ ClearPoolWork(p)
  <2>1. PICK S \in SUBSET DOMAIN staged_work : staged_work' = Without(S)
    BY <1>11 DEF DiscardStale, ClearPoolWork, Unstage
  <2>2. answers' = answers /\ update_work' = update_work
    BY <1>11 DEF DiscardStale, ClearPoolWork, poolVars
  <2>3. UpdateKept(p)
    BY <1>2, <1>11, <2>2 DEF DiscardStale, ClearPoolWork, UpdateKept, Same
  <2>4. \A h \in Seats : Kept(h)
    BY <1>8, <2>3
  <2>5. g \in Hands /\ (Held'[g].answer > 0 => Same(Held'[g], Held[g])
                                               /\ (g \in Open' => g \in Open))
    BY <1>7, <2>4, SeatedHands DEF Kept
  <2>. QED BY <1>7, <2>1, <2>2, <2>4, <2>5, HandsUnstage
<1>12. CASE CloneWork(p)
  BY <1>5, <1>6, <1>12, CloneWorkHands
<1>13. CASE StageLast(p)
  <2>1. PICK v \in Work, w \in Work : v = update_work[p] /\ w = Stamp(v) /\ Same(w, v)
    BY <1>2, StampedWork DEF Same
  <2>2. HashPush(w) /\ goal_malgo \in [Pools -> Algos] /\ answers' = answers
    BY <1>2, <1>13, <2>1 DEF StageLast, StageOf, PoolOK, poolVars
  <2>3. PICK i \in 1 .. Len(staged_work) + 1 : staged_work' = InsertAt(staged_work, i, w)
    BY <1>2, <2>2, PushKeeps
  <2>4. update_work'[p].answer = 0
    BY <1>2, <1>13 DEF StageLast
  <2>. QED BY <1>6, <1>7, <2>1, <2>2, <2>3, <2>4, HandsLay
<1>. QED BY <1>9, <1>10, <1>11, <1>12, <1>13 DEF Restart, Convert

LEMMA HandInvInit == Init => HandInv
<1>. SUFFICES ASSUME Init PROVE HandInv
  OBVIOUS
<1>1. StagedInv /\ NoWork.answer = 0
  BY StagedInvInit, NoWorkType
<1>2. HandsHold /\ HandsTyped
  BY <1>1, HeldWorks, HeldTypes
<1>3. \A h \in Hands : Held[h] = NoWork
  BY <1>2 DEF Init, HandsHold
<1>4. ASSUME NEW h \in Hands PROVE Held[h].answer <= answers[Held[h].pool]
  BY <1>1, <1>2, <1>3, <1>4, StagedAssumption DEF HandsTyped, NoWork
<1>5. Separate(Held, Open, answers)
  BY <1>1, <1>2, <1>3, <1>4
     DEF Separate, Clear, Apart, Ahead, Twins, HandsHold, HandsTyped
<1>6. Unanswered
  BY <1>1 DEF Init, Unanswered, Pools
<1>. QED BY <1>1, <1>5, <1>6 DEF HandInv

LEMMA HandInvStep ==
  ASSUME HandInv, [Next]_vars
  PROVE  HandInv'
<1>1. StagedInv' /\ StagedInv /\ Unanswered
  BY StagedInvStep DEF HandInv
<1>2. CASE Scheduler
  BY <1>1, <1>2, SchedulerUnanswered, SchedulerHands DEF HandInv
<1>3. ASSUME NEW m \in Miners, MinerStep(m) PROVE HandInv'
  <2>1. Unanswered'
    BY <1>1, <1>3 DEF Unanswered, MinerStep, ClearRestart, PopNothing, PopRollable,
       PopWork, MinerClone, MinerPush, CheckWork, WakeGws, FinishWork, mainVars, updateVars
  <2>. QED BY <1>1, <1>3, <2>1, MinerHands DEF HandInv
<1>4. ASSUME NEW p \in Pools,
             \/ Notify(p) \/ Longpoll(p) \/ Restart(p) \/ Convert(p)
             \/ ConnectionLost(p) \/ ClearPoolWork(p) \/ Revive(p)
      PROVE  HandInv'
  BY <1>1, <1>4, UpdateUnanswered, UpdateHands DEF HandInv
<1>5. CASE UNCHANGED vars
  <2>1. Unanswered'
    BY <1>1, <1>5 DEF Unanswered, vars, mainVars, updateVars
  <2>2. /\ answers' = answers /\ staged_work' = staged_work
        /\ main_work' = main_work /\ miner_work' = miner_work
        /\ UNCHANGED updateVars
    BY <1>5 DEF vars, mainVars, minerVars, queueVars, poolVars
  <2>3. \A h \in Seats : Kept(h)
    BY <1>1, <2>2, SeatsKept, IdleKept DEF updateVars
  <2>4. Separate(Held, Open, answers)'
    BY <1>1, <2>2, <2>3, HandsStill
  <2>. QED BY <1>1, <2>1, <2>4 DEF HandInv
<1>. QED BY <1>2, <1>3, <1>4, <1>5 DEF Next

\* No two threads ever hold the same header of a getwork pool, however many
\* threads, pools, rolls and answers there are: whoever clones a work rolls its
\* time for the clone and past it (clone_available, clone_work).
THEOREM NoDuplicateCorrect == Spec => []NoDuplicateWork
<1>1. Init => HandInv
  BY HandInvInit
<1>2. HandInv /\ [Next]_vars => HandInv'
  BY HandInvStep
<1>3. HandInv => NoDuplicateWork
  <2>. SUFFICES ASSUME HandInv, NEW h \in Hands, NEW k \in Hands, h # k,
                       Twins(WorkIn(h), WorkIn(k))
                PROVE  WorkIn(h).rolls # WorkIn(k).rolls
    BY DEF NoDuplicateWork, Twins
  <2>1. Held[h] = WorkIn(h) /\ Held[k] = WorkIn(k) /\ DOMAIN Held = Hands
    BY DEF Held
  <2>2. Clear(Held, Open, h, k)
    BY <2>1 DEF HandInv, Separate
  <2>. QED BY <2>1, <2>2 DEF Clear, Apart
<1>. QED BY <1>1, <1>2, <1>3, PTL DEF Spec

-----------------------------------------------------------------------------
(* The restart of the mining threads.                                      *)
(*                                                                         *)
(* A work of the current pool becomes stale in Notify and Longpoll alone,  *)
(* which both send the pool's thread into restart_threads; it leaves       *)
(* restart_threads by setting every device's flag; a device that clears    *)
(* its flag has no work, and get_work gives it none that is stale.         *)

\* The functions RestartNoticed looks at have the domains they start with, and
\* the flags are Booleans.
RestartType ==
    /\ DOMAIN miner_work = Miners
    /\ DOMAIN miner_pc = Miners
    /\ work_restart \in [Miners -> BOOLEAN]
    /\ DOMAIN update_pc = Pools
    /\ DOMAIN job = Pools /\ DOMAIN work_restart_id = Pools

\* The current pool does not lose its connection (ConnectionLost and
\* RequestFails are about backup pools).
CurrentActive == Current \in active

RestartInv == RestartType /\ CurrentActive /\ RestartNoticed

\* What RestartNoticed says of one device.
Noticed(m) ==
    (/\ miner_pc[m] = "mining" /\ miner_work[m].pool = Current
     /\ Stale(miner_work[m]) /\ update_pc[Current] \notin {"discard", "flag"})
    => work_restart[m]

\* A step that leaves a device, its flag and the current pool's job alone, and
\* does not bring the current pool's thread out of restart_threads.
LEMMA QuietStep ==
    ASSUME CurrentActive, CurrentActive',
           NEW m \in Miners, Noticed(m),
           miner_pc'[m] = miner_pc[m], miner_work'[m] = miner_work[m],
           work_restart'[m] = work_restart[m],
           job'[Current] = job[Current],
           work_restart_id'[Current] = work_restart_id[Current],
           update_pc[Current] \in {"discard", "flag"}
             => update_pc'[Current] \in {"discard", "flag"}
    PROVE  Noticed(m)'
<1>1. CASE miner_work[m].pool = Current
  <2>1. Stale(miner_work[m])' <=> Stale(miner_work[m])
    BY <1>1 DEF Stale, CurrentActive
  <2>. QED BY <2>1 DEF Noticed
<1>2. CASE miner_work[m].pool # Current
  BY <1>2 DEF Noticed
<1>. QED BY <1>1, <1>2

\* The domains and the Booleans are kept by every step.
LEMMA TypeStep == RestartType /\ [Next]_vars => RestartType'
<1>. SUFFICES ASSUME RestartType, [Next]_vars PROVE RestartType'
  OBVIOUS
<1>1. CASE Scheduler
  BY <1>1 DEF RestartType, Scheduler, Top, SelectSpare, Woken, Fetch, StratumDown,
     Generate, ScheduleClone, Request, Reply, RequestFails, Failover, StageMain,
     minerVars, updateVars, poolVars
<1>2. ASSUME NEW m \in Miners, MinerStep(m) PROVE RestartType'
  BY <1>2 DEF RestartType, MinerStep, ClearRestart, PopNothing, PopRollable, PopWork,
     MinerClone, MinerPush, CheckWork, WakeGws, FinishWork,
     minerVars, updateVars, poolVars
<1>3. ASSUME NEW p \in Pools, Notify(p) \/ Longpoll(p) PROVE RestartType'
  BY <1>3 DEF RestartType, Notify, Longpoll, minerVars
<1>4. ASSUME NEW p \in Pools, Restart(p) PROVE RestartType'
  BY <1>4 DEF RestartType, Restart, DiscardStale, FlagThreads, minerVars, poolVars
<1>5. ASSUME NEW p \in Pools, Convert(p) PROVE RestartType'
  BY <1>5 DEF RestartType, Convert, ConvertToWork, CloneWork, StageLast, StageOf,
     minerVars, poolVars
<1>6. ASSUME NEW p \in Pools, ConnectionLost(p) \/ ClearPoolWork(p) \/ Revive(p)
      PROVE  RestartType'
  BY <1>6 DEF RestartType, ConnectionLost, ClearPoolWork, Revive, minerVars, poolVars
<1>7. CASE UNCHANGED vars
  BY <1>7 DEF RestartType, vars, minerVars, updateVars, poolVars
<1>. QED BY <1>1, <1>2, <1>3, <1>4, <1>5, <1>6, <1>7 DEF Next

\* The current pool stays active.
LEMMA ActiveStep == CurrentActive /\ [Next]_vars => CurrentActive'
<1>. SUFFICES ASSUME CurrentActive, [Next]_vars PROVE CurrentActive'
  OBVIOUS
<1>1. CASE Scheduler
  BY <1>1 DEF CurrentActive, Scheduler, Top, SelectSpare, Woken, Fetch, StratumDown,
     Generate, ScheduleClone, Request, Reply, RequestFails, Failover, StageMain, poolVars
<1>2. ASSUME NEW m \in Miners, MinerStep(m) PROVE CurrentActive'
  BY <1>2 DEF CurrentActive, MinerStep, ClearRestart, PopNothing, PopRollable, PopWork,
     MinerClone, MinerPush, CheckWork, WakeGws, FinishWork, poolVars
<1>3. ASSUME NEW p \in Pools, Notify(p) \/ Longpoll(p) PROVE CurrentActive'
  BY <1>3 DEF CurrentActive, Notify, Longpoll
<1>4. ASSUME NEW p \in Pools, Restart(p) \/ Convert(p) PROVE CurrentActive'
  BY <1>4 DEF CurrentActive, Restart, DiscardStale, FlagThreads, Convert,
     ConvertToWork, CloneWork, StageLast, poolVars
<1>5. ASSUME NEW p \in Pools, ConnectionLost(p) \/ ClearPoolWork(p) \/ Revive(p)
      PROVE  CurrentActive'
  BY <1>5 DEF CurrentActive, ConnectionLost, ClearPoolWork, Revive, poolVars
<1>6. CASE UNCHANGED vars
  BY <1>6 DEF CurrentActive, vars, poolVars
<1>. QED BY <1>1, <1>2, <1>3, <1>4, <1>5, <1>6 DEF Next

\* Every device goes on being warned.
LEMMA NoticedStep ==
    ASSUME RestartType, RestartType', CurrentActive, CurrentActive', Next,
           NEW m \in Miners, Noticed(m)
    PROVE  Noticed(m)'
<1>. Current \in Pools
  BY StagedAssumption
<1>1. CASE Scheduler
  <2>. /\ UNCHANGED <<miner_pc, miner_work, work_restart, update_pc>>
       /\ UNCHANGED <<job, work_restart_id>>
    BY <1>1 DEF Scheduler, Top, SelectSpare, Woken, Fetch, StratumDown, Generate,
       ScheduleClone, Request, Reply, RequestFails, Failover, StageMain, minerVars,
       updateVars, poolVars
  <2>. QED BY QuietStep
<1>2. ASSUME NEW n \in Miners, MinerStep(n) PROVE Noticed(m)'
  <2>. UNCHANGED <<job, work_restart_id, update_pc, active>>
    BY <1>2 DEF MinerStep, ClearRestart, PopNothing, PopRollable, PopWork, MinerClone,
       MinerPush, CheckWork, WakeGws, FinishWork, updateVars, poolVars
  <2>1. CASE n # m
    <3>. /\ miner_pc'[m] = miner_pc[m] /\ miner_work'[m] = miner_work[m]
         /\ work_restart'[m] = work_restart[m]
      BY <1>2, <2>1 DEF MinerStep, ClearRestart, PopNothing, PopRollable, PopWork,
         MinerClone, MinerPush, CheckWork, WakeGws, FinishWork, minerVars, RestartType
    <3>. QED BY QuietStep
  <2>2. CASE n = m /\ CheckWork(m)
    <3>1. CASE Stale(miner_work[m])
      BY <2>2, <3>1 DEF CheckWork, Noticed, RestartType
    <3>2. CASE ~Stale(miner_work[m])
      <4>. miner_work' = miner_work
        BY <2>2, <3>2 DEF CheckWork
      <4>. ~Stale(miner_work[m])'
        BY <3>2 DEF Stale
      <4>. QED BY DEF Noticed
    <3>. QED BY <3>1, <3>2
  <2>3. CASE n = m /\ ~CheckWork(m)
    <3>. miner_pc'[m] # "mining"
      BY <1>2, <2>3 DEF MinerStep, ClearRestart, PopNothing, PopRollable, PopWork,
         Popping, MinerClone, MinerPush, WakeGws, FinishWork, minerVars, RestartType
    <3>. QED BY DEF Noticed
  <2>. QED BY <2>1, <2>2, <2>3
<1>3. ASSUME NEW p \in Pools, Notify(p) \/ Longpoll(p) PROVE Noticed(m)'
  <2>. UNCHANGED <<miner_pc, miner_work, work_restart>>
    BY <1>3 DEF Notify, Longpoll, minerVars
  <2>1. CASE p = Current
    <3>. update_pc'[Current] = "discard"
      BY <1>3, <2>1 DEF Notify, Longpoll, RestartType
    <3>. QED BY DEF Noticed
  <2>2. CASE p # Current
    <3>. /\ job'[Current] = job[Current] /\ update_pc'[Current] = update_pc[Current]
         /\ work_restart_id'[Current] = work_restart_id[Current]
      BY <1>3, <2>2 DEF Notify, Longpoll, RestartType
    <3>. QED BY QuietStep
  <2>. QED BY <2>1, <2>2
<1>4. ASSUME NEW p \in Pools, FlagThreads(p) PROVE Noticed(m)'
  <2>. work_restart'[m]
    BY <1>4 DEF FlagThreads
  <2>. QED BY DEF Noticed
<1>5. ASSUME NEW p \in Pools, DiscardStale(p) \/ Convert(p) \/ ClearPoolWork(p)
      PROVE  Noticed(m)'
  <2>. /\ UNCHANGED <<miner_pc, miner_work, work_restart, job, work_restart_id>>
       /\ update_pc[Current] \in {"discard", "flag"}
            => update_pc'[Current] \in {"discard", "flag"}
    BY <1>5 DEF DiscardStale, Convert, ConvertToWork, CloneWork, StageLast, StageOf,
       ClearPoolWork, minerVars, poolVars, RestartType
  <2>. QED BY QuietStep
<1>6. ASSUME NEW p \in Pools, ConnectionLost(p) \/ Revive(p) PROVE Noticed(m)'
  <2>. p # Current
    BY <1>6 DEF ConnectionLost, Revive, CurrentActive
  <2>. /\ UNCHANGED <<miner_pc, miner_work, work_restart, work_restart_id>>
       /\ job'[Current] = job[Current] /\ update_pc'[Current] = update_pc[Current]
    BY <1>6 DEF ConnectionLost, Revive, minerVars, RestartType
  <2>. QED BY QuietStep
<1>. QED BY <1>1, <1>2, <1>3, <1>4, <1>5, <1>6 DEF Next, Restart

LEMMA RestartInit == Init => RestartInv
<1>. SUFFICES ASSUME Init PROVE RestartInv
  OBVIOUS
<1>1. RestartType
  BY DEF Init, RestartType
<1>2. CurrentActive
  BY StagedAssumption DEF Init, CurrentActive
<1>3. RestartNoticed
  BY DEF Init, RestartNoticed
<1>. QED BY <1>1, <1>2, <1>3 DEF RestartInv

LEMMA RestartStep == RestartInv /\ [Next]_vars => RestartInv'
<1>. SUFFICES ASSUME RestartInv, [Next]_vars PROVE RestartInv'
  OBVIOUS
<1>1. RestartType'
  BY TypeStep DEF RestartInv
<1>2. CurrentActive'
  BY ActiveStep DEF RestartInv
<1>3. ASSUME NEW m \in Miners PROVE Noticed(m)'
  <2>1. Noticed(m)
    BY DEF RestartInv, RestartNoticed, Noticed
  <2>2. CASE Next
    BY <1>1, <1>2, <2>1, <2>2, NoticedStep DEF RestartInv
  <2>3. CASE UNCHANGED vars
    BY <1>2, <2>1, <2>3, QuietStep
       DEF RestartInv, vars, minerVars, updateVars, poolVars
  <2>. QED BY <2>2, <2>3
<1>4. RestartNoticed'
  BY <1>3 DEF RestartNoticed, Noticed
<1>. QED BY <1>1, <1>2, <1>4 DEF RestartInv

\* Whatever the number of devices and pools and of jobs they announce, a device
\* that goes on mining a work its current pool has withdrawn has been told to
\* stop once restart_threads is over.
THEOREM RestartCorrect == Spec => []RestartNoticed
<1>1. Init => RestartInv
  BY RestartInit
<1>2. RestartInv /\ [Next]_vars => RestartInv'
  BY RestartStep
<1>3. RestartInv => RestartNoticed
  BY DEF RestartInv
<1>. QED BY <1>1, <1>2, <1>3, PTL DEF Spec
=============================================================================
