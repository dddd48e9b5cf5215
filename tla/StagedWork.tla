----------------------------- MODULE StagedWork -----------------------------
(***************************************************************************)
(* The queue of work between the pools and the mining threads (miner.c).   *)
(*                                                                         *)
(* main() ends as the getwork scheduler: it keeps staged_work filled up to *)
(* opt_queue + base_queue works, and beyond that with spare works for      *)
(* mining algorithms that are short of them, then sleeps on gws_cond.      *)
(* Mining threads take works in hash_pop and sleep on getq->cond when none *)
(* suits their device.  Getwork works with a roll time are not consumed:   *)
(* they are rolled, and the clone is staged and taken instead.  A pool's   *)
(* stratum or long poll thread makes staged works stale, drops them and    *)
(* restarts the mining threads.                                            *)
(*                                                                         *)
(* stgd_lock guards the queue and its counters: a step below is one        *)
(* critical section of it or what a thread does between two.  The current  *)
(* pool does not change and does not fail here, every pool has a goal of   *)
(* its own, and the block a work is for stands for its age: a work goes    *)
(* stale when its pool announces another job or block, asks for a restart  *)
(* or loses its stratum connection.                                        *)
(***************************************************************************)
EXTENDS Integers, SequencesExt

CONSTANTS
    Miners,           \* the mining threads, one per device
    mining_algorithms,\* the list of algorithms, in order
    DeviceAlgos,      \* algorithms of a device (drv_min_nonce_diff >= 0)
    StratumPools,     \* pools that push jobs over stratum
    GetworkPools,     \* pools asked for each work, with a long poll
    Current,          \* current_pool()
    Priority,         \* pool->prio
    GoalAlgo,         \* pool->goal->malgo at the start
    GoalReset,        \* stratum pools whose jobs may name another algorithm
    OptQueue,         \* opt_queue at the start
    QueueLimit,       \* 10 + mining_threads, where opt_queue stops growing
    OptFailOnly,      \* opt_fail_only
    MaxRolls,         \* rolls of a work, 7000 in the code
    MaxUpdates,       \* bound on the jobs and long polls of a pool
    MaxAnswers,       \* bound on the works a getwork pool gives
    MaxDrops          \* bound on the connections lost and requests failed

Pools == StratumPools \cup GetworkPools
Algos == ToSet(mining_algorithms)
NoPool == "none"
NoAlgo == "none"

ASSUME StagedAssumption ==
    /\ IsFiniteSet(Miners) /\ IsFiniteSet(Pools)
    /\ StratumPools \cap GetworkPools = {}
    /\ NoPool \notin Pools /\ NoAlgo \notin Algos
    /\ mining_algorithms \in Seq(Algos) /\ mining_algorithms # <<>>
    /\ DeviceAlgos \in [Miners -> SUBSET Algos]
    /\ Current \in Pools
    /\ Priority \in [Pools -> Nat]
    /\ GoalAlgo \in [Pools -> Algos]
    /\ GoalReset \subseteq StratumPools
    /\ {OptQueue, QueueLimit, MaxRolls} \subseteq Nat
    /\ {MaxUpdates, MaxAnswers, MaxDrops} \subseteq Nat
    /\ OptFailOnly \in BOOLEAN

VARIABLES
    staged_work,      \* the queue, in tv_staged order
    staged_rollable, staged_spare, malgo_staged,  \* its counters
    staged_full,      \* the queue has been full since the last underrun
    opt_queue,
    getq_waiters,     \* mining threads asleep on getq->cond
    gws_waiting,      \* the scheduler is asleep on gws_cond
    main_pc, main_work, \* the scheduler and the work it is making
    max_staged, lagging,
    malgo,            \* its place in the list of algorithms, 0 for none
    miner_pc, miner_work, work_restart,
    update_pc, update_work, mrs, \* a pool's stratum or long poll thread
    job,              \* the job or block a pool is on
    work_restart_id,  \* pool->work_restart_id
    goal_malgo,       \* pool->goal->malgo
    active,           \* pools that can be used
    answers, drops    \* works given and connections lost so far

queueVars  == <<staged_work, staged_rollable, staged_spare, malgo_staged>>
tuneVars   == <<staged_full, opt_queue>>
sleepVars  == <<getq_waiters, gws_waiting>>
mainVars   == <<main_pc, main_work, max_staged, lagging, malgo>>
minerVars  == <<miner_pc, miner_work, work_restart>>
updateVars == <<update_pc, update_work, mrs>>
poolVars   == <<job, work_restart_id, goal_malgo, active, answers, drops>>
vars == <<queueVars, tuneVars, sleepVars, mainVars, minerVars, updateVars, poolVars>>

\* A work: the answer of its pool it comes from and how often its time was
\* rolled tell two getwork works apart.
Work == [pool : Pools, job : Nat, work_restart_id : Nat, answer : Nat,
         rolltime : BOOLEAN, rolls : Nat, clone : BOOLEAN, spare : BOOLEAN]
NoWork == [pool |-> Current, job |-> 0, work_restart_id |-> 0, answer |-> 0,
           rolltime |-> FALSE, rolls |-> 0, clone |-> FALSE, spare |-> FALSE]

\* The assignment of stage_work that hides an older stamp.
Stamp(w) == [w EXCEPT !.work_restart_id = work_restart_id[w.pool]]

If(b) == IF b THEN 1 ELSE 0
AlgoOf(w) == goal_malgo[w.pool]
Rollable(w) == ~w.clone /\ w.rolltime
Stale(w) ==
    \/ w.job # job[w.pool]
    \/ w.work_restart_id # work_restart_id[w.pool]
    \/ w.pool \in StratumPools \ active
InUse(p) ==
    /\ p \in active
    /\ \/ p = Current
       \/ \A q \in active : Priority[q] < Priority[p] => goal_malgo[q] # goal_malgo[p]

\* can_roll and should_roll, but for the age of the work.
CanRoll(w) ==
    /\ w.pool \in GetworkPools /\ ~w.clone
    /\ w.rolltime /\ w.rolls < MaxRolls
    /\ ~Stale(w) /\ InUse(w.pool)

Rolled(w) == [w EXCEPT !.rolls = @ + 1]
CloneOf(w) == [w EXCEPT !.clone = TRUE]

base_queue == Cardinality(Miners)
base_queue_of(a) == Cardinality({m \in Miners : a \in DeviceAlgos[m]})
TotalStaged == Len(staged_work) - staged_spare

-----------------------------------------------------------------------------
Init ==
    /\ staged_work = <<>> /\ staged_rollable = 0 /\ staged_spare = 0
    /\ malgo_staged = [a \in Algos |-> 0]
    /\ staged_full = FALSE /\ opt_queue = OptQueue
    /\ getq_waiters = {} /\ gws_waiting = FALSE
    /\ main_pc = "top" /\ main_work = NoWork
    /\ max_staged = 0 /\ lagging = FALSE /\ malgo = 0
    /\ miner_pc = [m \in Miners |-> "clear"]
    /\ miner_work = [m \in Miners |-> NoWork]
    /\ work_restart = [m \in Miners |-> FALSE]
    /\ update_pc = [p \in Pools |-> "idle"]
    /\ update_work = [p \in Pools |-> NoWork] /\ mrs = [p \in Pools |-> 0]
    /\ job = [p \in Pools |-> 0] /\ work_restart_id = [p \in Pools |-> 0]
    /\ goal_malgo = GoalAlgo
    /\ active = Pools /\ drops = 0 /\ answers = [p \in Pools |-> 0]

-----------------------------------------------------------------------------
(* The queue.                                                              *)

\* Where the sort by tv_staged can put a work.  A stratum work was stamped
\* last; a clone is a second older than its master; a getwork work carries the
\* time it was decoded, and others may have been staged since.
Places(w) ==
    LET master(v) == Rollable(v) /\ v.pool = w.pool /\ v.answer = w.answer
        last == Len(staged_work) + 1
    IN IF w.pool \in StratumPools THEN {last}
       ELSE {i \in 1 .. last : w.clone =>
                \A j \in DOMAIN staged_work : master(staged_work[j]) => i <= j}

\* Faulty variant: only one waiting thread is woken.
MutantHashPush(w) ==
    /\ staged_rollable' = staged_rollable + If(Rollable(w))
    /\ malgo_staged' = [malgo_staged EXCEPT ![AlgoOf(w)] = @ + 1]
    /\ staged_spare' = staged_spare + If(w.spare)
    /\ \E i \in Places(w) : staged_work' = InsertAt(staged_work, i, w)
    /\ IF getq_waiters = {} THEN UNCHANGED getq_waiters
       ELSE \E m \in getq_waiters : getq_waiters' = getq_waiters \ {m}

\* Faulty variant: nobody is woken.
MutantSilentPush(w) ==
    /\ staged_rollable' = staged_rollable + If(Rollable(w))
    /\ malgo_staged' = [malgo_staged EXCEPT ![AlgoOf(w)] = @ + 1]
    /\ staged_spare' = staged_spare + If(w.spare)
    /\ \E i \in Places(w) : staged_work' = InsertAt(staged_work, i, w)
    /\ UNCHANGED getq_waiters

\* Faulty variant: spare works are not counted.
MutantUncounted(w) ==
    /\ staged_rollable' = staged_rollable + If(Rollable(w))
    /\ malgo_staged' = [malgo_staged EXCEPT ![AlgoOf(w)] = @ + 1]
    /\ \E i \in Places(w) : staged_work' = InsertAt(staged_work, i, w)
    /\ UNCHANGED staged_spare
    /\ getq_waiters' = {}

\* hash_push
HashPush(w) ==
    /\ staged_rollable' = staged_rollable + If(Rollable(w))
    /\ malgo_staged' = [malgo_staged EXCEPT ![AlgoOf(w)] = @ + 1]
    /\ staged_spare' = staged_spare + If(w.spare)
    /\ \E i \in Places(w) : staged_work' = InsertAt(staged_work, i, w)
    /\ getq_waiters' = {}

\* The queue without the works in places S, in the order it had.
Without(S) ==
    LET left == DOMAIN staged_work \ S
        before(i) == Cardinality({j \in left : j < i})
    IN [k \in 1 .. Cardinality(left) |->
          staged_work[CHOOSE i \in left : before(i) = k - 1]]
CountIn(S, P(_)) == Cardinality({i \in S : P(staged_work[i])})

\* Faulty variant: the spare counter is forgotten.
MutantUnstage(S) ==
    /\ staged_work' = Without(S)
    /\ malgo_staged' = [a \in Algos |->
                          malgo_staged[a] - CountIn(S, LAMBDA w : AlgoOf(w) = a)]
    /\ staged_rollable' = staged_rollable - CountIn(S, Rollable)
    /\ UNCHANGED staged_spare
    /\ staged_full' = (staged_full /\ S = {})

\* unstage_work, of the works in places S.
Unstage(S) ==
    /\ staged_work' = Without(S)
    /\ malgo_staged' = [a \in Algos |->
                          malgo_staged[a] - CountIn(S, LAMBDA w : AlgoOf(w) = a)]
    /\ staged_rollable' = staged_rollable - CountIn(S, Rollable)
    /\ staged_spare' = staged_spare - CountIn(S, LAMBDA w : w.spare)
    /\ staged_full' = (staged_full /\ S = {})

SignalGws == gws_waiting' = FALSE

\* The first work in the queue clone_available can roll, 0 for none.
FirstRollable ==
    LET S == {i \in DOMAIN staged_work : CanRoll(staged_work[i])}
    IN IF staged_rollable = 0 \/ S = {} THEN 0 ELSE Min(S)

\* Faulty variant: the master is not rolled past its clone.
MutantCloneAt(i) ==
    staged_work' = [staged_work EXCEPT ![i] = Rolled(@)]

\* The locked part of clone_available.
CloneAt(i) ==
    staged_work' = [staged_work EXCEPT ![i] = Rolled(Rolled(@))]
TheClone(i) == CloneOf(Rolled(staged_work[i]))

-----------------------------------------------------------------------------
(* The scheduler, the end of main().                                       *)

Algo == IF malgo = 0 THEN NoAlgo ELSE mining_algorithms[malgo]

\* select_pool, strategy failover: what it may return.  Looking beyond the
\* current pool for an algorithm, it tries pools again until one is active.
SelectPool(lag, a) ==
    LET serving == {p \in active : a = NoAlgo \/ goal_malgo[p] = a}
        first == {p \in serving : \A q \in serving : Priority[p] <= Priority[q]}
    IN IF ~lag \/ OptFailOnly
       THEN IF a \in {NoAlgo, goal_malgo[Current]} THEN {Current}
            ELSE IF serving = {} THEN {NoPool} ELSE first
       ELSE IF \A p \in Pools : a \notin {NoAlgo, goal_malgo[p]} THEN {NoPool}
            ELSE serving

\* Faulty variant: the devices of the algorithm are not counted.
MutantShort(k) ==
    LET a == mining_algorithms[k]
    IN /\ \E p \in Pools : goal_malgo[p] = a
       /\ base_queue_of(a) > 0
       /\ malgo_staged[a] < opt_queue

\* A mining algorithm in use that is short of staged works.
Short(k) ==
    LET a == mining_algorithms[k]
    IN /\ \E p \in Pools : goal_malgo[p] = a
       /\ base_queue_of(a) > 0
       /\ malgo_staged[a] < base_queue_of(a) + opt_queue

\* The loop over the algorithms after the k-th: a spare work for one of them,
\* or sleep.
ScanAfter(k) ==
    LET short == {j \in DOMAIN mining_algorithms : j > k /\ Short(j)}
    IN IF short # {}
       THEN /\ main_pc' = "select" /\ malgo' = Min(short)
            /\ UNCHANGED <<staged_full, gws_waiting>>
       ELSE /\ main_pc' = "asleep" /\ malgo' = 0
            /\ staged_full' = TRUE /\ gws_waiting' = TRUE

Top ==
    /\ main_pc = "top"
    /\ max_staged' = opt_queue + base_queue
    /\ lagging' = (Current \in GetworkPools /\ TotalStaged = 0 /\ ~OptFailOnly)
    /\ IF TotalStaged > max_staged' THEN ScanAfter(0)
       ELSE /\ main_pc' = "fetch" /\ UNCHANGED <<malgo, staged_full, gws_waiting>>
    /\ UNCHANGED <<queueVars, opt_queue, getq_waiters, main_work, minerVars,
                   updateVars, poolVars>>

\* stgd_lock is dropped for select_pool and taken again if it finds no pool.
SelectSpare ==
    /\ main_pc = "select"
    /\ \E p \in SelectPool(lagging, Algo) :
         IF p = NoPool THEN ScanAfter(malgo) /\ UNCHANGED main_work
         ELSE /\ main_work' = [NoWork EXCEPT !.pool = p, !.spare = TRUE]
              /\ main_pc' = "retry" /\ UNCHANGED <<malgo, staged_full, gws_waiting>>
    /\ UNCHANGED <<queueVars, opt_queue, getq_waiters, max_staged, lagging,
                   minerVars, updateVars, poolVars>>

\* Faulty variant: a woken scheduler does not look whether works are missing.
MutantWoken ==
    /\ main_pc = "asleep" /\ ~gws_waiting
    /\ main_pc' = "fetch"
    /\ UNCHANGED <<queueVars, tuneVars, sleepVars, main_work, max_staged, lagging,
                   malgo, minerVars, updateVars, poolVars>>

Woken ==
    /\ main_pc = "asleep" /\ ~gws_waiting
    /\ main_pc' = IF TotalStaged > max_staged THEN "top" ELSE "fetch"
    /\ UNCHANGED <<queueVars, tuneVars, sleepVars, main_work, max_staged, lagging,
                   malgo, minerVars, updateVars, poolVars>>

Fetch ==
    /\ main_pc = "fetch"
    /\ \E p \in SelectPool(lagging, Algo) : main_work' = [NoWork EXCEPT !.pool = p]
    /\ main_pc' = "retry"
    /\ UNCHANGED <<queueVars, tuneVars, sleepVars, max_staged, lagging, malgo,
                   minerVars, updateVars, poolVars>>

\* The pool in hand is given up; there may be no other, and its NULL is used.
NextPool(lag) ==
    \E p \in SelectPool(lag, Algo) :
      IF p = NoPool THEN main_pc' = "crashed" /\ UNCHANGED main_work
      ELSE main_pc' = "retry" /\ main_work' = [main_work EXCEPT !.pool = p]

StratumDown ==
    /\ main_pc = "retry" /\ main_work.pool \in StratumPools \ active
    /\ NextPool(TRUE)
    /\ UNCHANGED <<queueVars, tuneVars, sleepVars, max_staged, lagging, malgo,
                   minerVars, updateVars, poolVars>>

\* gen_stratum_work
Generate ==
    /\ main_pc = "retry" /\ main_work.pool \in StratumPools \cap active
    /\ main_work' = Stamp([main_work EXCEPT !.job = job[main_work.pool]])
    /\ main_pc' = "push"
    /\ UNCHANGED <<queueVars, tuneVars, sleepVars, max_staged, lagging, malgo,
                   minerVars, updateVars, poolVars>>

\* clone_available made a clone: the new work is not needed.
ScheduleClone ==
    /\ main_pc = "retry" /\ main_work.pool \in GetworkPools
    /\ FirstRollable # 0
    /\ CloneAt(FirstRollable)
    /\ main_work' = Stamp(TheClone(FirstRollable))
    /\ main_pc' = "push"
    /\ UNCHANGED <<staged_rollable, staged_spare, malgo_staged, tuneVars, sleepVars,
                   max_staged, lagging, malgo, minerVars, updateVars, poolVars>>

Request ==
    /\ main_pc = "retry" /\ main_work.pool \in GetworkPools
    /\ FirstRollable = 0
    /\ main_work' = [main_work EXCEPT !.job = job[main_work.pool]]
    /\ main_pc' = "request"
    /\ UNCHANGED <<queueVars, tuneVars, sleepVars, max_staged, lagging, malgo,
                   minerVars, updateVars, poolVars>>

\* get_upstream_work: the pool may have written the answer before or after it
\* changed blocks; an answered pool is no longer idle.
Reply ==
    LET p == main_work.pool
    IN /\ main_pc = "request" /\ answers[p] < MaxAnswers
       /\ answers' = [answers EXCEPT ![p] = @ + 1]
       /\ \E j \in {main_work.job, job[p]}, r \in BOOLEAN :
            main_work' = Stamp([main_work EXCEPT !.job = j, !.rolltime = r,
                                                 !.answer = answers'[p]])
       /\ active' = active \cup {p}
       /\ main_pc' = "push"
       /\ UNCHANGED <<queueVars, tuneVars, sleepVars, max_staged, lagging, malgo,
                      minerVars, updateVars, job, work_restart_id, goal_malgo, drops>>

RequestFails ==
    LET p == main_work.pool
    IN /\ main_pc = "request" /\ p # Current /\ drops < MaxDrops
       /\ drops' = drops + 1 /\ active' = active \ {p}
       /\ main_pc' = "failed"
       /\ UNCHANGED <<queueVars, tuneVars, sleepVars, main_work, max_staged, lagging,
                      malgo, minerVars, updateVars, job, work_restart_id, goal_malgo,
                      answers>>

Failover ==
    /\ main_pc = "failed"
    /\ NextPool(~OptFailOnly)
    /\ UNCHANGED <<queueVars, tuneVars, sleepVars, max_staged, lagging, malgo,
                   minerVars, updateVars, poolVars>>

\* stage_work, and the end of the loop's body with its variables.
StageMain ==
    /\ main_pc = "push"
    /\ HashPush(main_work)
    /\ main_pc' = "top" /\ main_work' = NoWork
    /\ max_staged' = 0 /\ lagging' = FALSE /\ malgo' = 0
    /\ UNCHANGED <<tuneVars, gws_waiting, minerVars, updateVars, poolVars>>

Scheduler ==
    \/ Top \/ SelectSpare \/ Woken \/ Fetch \/ StratumDown \/ Generate
    \/ ScheduleClone \/ Request \/ Reply \/ RequestFails \/ Failover \/ StageMain

-----------------------------------------------------------------------------
(* A mining thread, minerloop_scanhash.                                    *)

ClearRestart(m) ==
    /\ miner_pc[m] = "clear"
    /\ work_restart' = [work_restart EXCEPT ![m] = FALSE]
    /\ miner_pc' = [miner_pc EXCEPT ![m] = "pop"]
    /\ UNCHANGED <<queueVars, tuneVars, sleepVars, mainVars, miner_work, updateVars,
                   poolVars>>

\* The places of the works hash_pop may hand to a device: it takes the first,
\* for the scores it gives the others are lost in the macro's own loop.
Usable(m) == {i \in DOMAIN staged_work : AlgoOf(staged_work[i]) \in DeviceAlgos[m]}
Found(m) == Min(Usable(m))
Popping(m) == miner_pc[m] = "pop" /\ m \notin getq_waiters

\* No work: an underrun of a queue that was full makes it longer.
PopNothing(m) ==
    /\ Popping(m) /\ Usable(m) = {}
    /\ opt_queue' = opt_queue + If(staged_full /\ opt_queue < QueueLimit)
    /\ staged_full' = FALSE
    /\ SignalGws /\ getq_waiters' = getq_waiters \cup {m}
    /\ UNCHANGED <<queueVars, mainVars, minerVars, updateVars, poolVars>>

PopRollable(m) ==
    /\ Popping(m) /\ Usable(m) # {}
    /\ CanRoll(staged_work[Found(m)])
    /\ miner_pc' = [miner_pc EXCEPT ![m] = "clone"]
    /\ UNCHANGED <<queueVars, tuneVars, sleepVars, mainVars, miner_work, work_restart,
                   updateVars, poolVars>>

PopWork(m) ==
    /\ Popping(m) /\ Usable(m) # {}
    /\ ~CanRoll(staged_work[Found(m)])
    /\ miner_work' = [miner_work EXCEPT ![m] = staged_work[Found(m)]]
    /\ miner_pc' = [miner_pc EXCEPT ![m] = "check"]
    /\ Unstage({Found(m)})
    /\ SignalGws
    /\ IF getq_waiters = {} THEN UNCHANGED getq_waiters
       ELSE \E n \in getq_waiters : getq_waiters' = getq_waiters \ {n}
    /\ UNCHANGED <<opt_queue, mainVars, work_restart, updateVars, poolVars>>

\* clone_available, which looks at the whole queue again.
MinerClone(m) ==
    /\ miner_pc[m] = "clone"
    /\ IF FirstRollable = 0
       THEN /\ miner_pc' = [miner_pc EXCEPT ![m] = "pop"]
            /\ UNCHANGED <<staged_work, miner_work>>
       ELSE /\ CloneAt(FirstRollable)
            /\ miner_work' = [miner_work EXCEPT ![m] = Stamp(TheClone(FirstRollable))]
            /\ miner_pc' = [miner_pc EXCEPT ![m] = "push"]
    /\ UNCHANGED <<staged_rollable, staged_spare, malgo_staged, tuneVars, sleepVars,
                   mainVars, work_restart, updateVars, poolVars>>

MinerPush(m) ==
    /\ miner_pc[m] = "push"
    /\ HashPush(miner_work[m])
    /\ miner_work' = [miner_work EXCEPT ![m] = NoWork]
    /\ miner_pc' = [miner_pc EXCEPT ![m] = "pop"]
    /\ UNCHANGED <<tuneVars, gws_waiting, mainVars, work_restart, updateVars, poolVars>>

\* Faulty variant: the work is not checked again after it was taken.
MutantCheckWork(m) ==
    /\ miner_pc[m] = "check"
    /\ miner_pc' = [miner_pc EXCEPT ![m] = "mining"]
    /\ UNCHANGED <<queueVars, tuneVars, sleepVars, mainVars, miner_work, work_restart,
                   updateVars, poolVars>>

\* get_work drops a stale work.
CheckWork(m) ==
    /\ miner_pc[m] = "check"
    /\ IF Stale(miner_work[m])
       THEN /\ staged_full' = FALSE
            /\ miner_work' = [miner_work EXCEPT ![m] = NoWork]
            /\ miner_pc' = [miner_pc EXCEPT ![m] = "wake"]
       ELSE /\ miner_pc' = [miner_pc EXCEPT ![m] = "mining"]
            /\ UNCHANGED <<staged_full, miner_work>>
    /\ UNCHANGED <<queueVars, opt_queue, sleepVars, mainVars, work_restart, updateVars,
                   poolVars>>

WakeGws(m) ==
    /\ miner_pc[m] = "wake"
    /\ SignalGws
    /\ miner_pc' = [miner_pc EXCEPT ![m] = "pop"]
    /\ UNCHANGED <<queueVars, tuneVars, getq_waiters, mainVars, miner_work,
                   work_restart, updateVars, poolVars>>

\* scanhash returned for a restart, or the work was abandoned.
FinishWork(m) ==
    /\ miner_pc[m] = "mining"
    /\ miner_pc' = [miner_pc EXCEPT ![m] = "clear"]
    /\ miner_work' = [miner_work EXCEPT ![m] = NoWork]
    /\ UNCHANGED <<queueVars, tuneVars, sleepVars, mainVars, work_restart, updateVars,
                   poolVars>>

MinerStep(m) ==
    \/ ClearRestart(m) \/ PopNothing(m) \/ PopRollable(m) \/ PopWork(m)
    \/ MinerClone(m) \/ MinerPush(m) \/ CheckWork(m) \/ WakeGws(m) \/ FinishWork(m)

-----------------------------------------------------------------------------
(* A pool's own thread: stratum_thread or longpoll_thread.                 *)

StageOf(p, w, pc) ==
    /\ HashPush(Stamp(w))
    /\ update_pc' = [update_pc EXCEPT ![p] = pc]

\* A job pushed over stratum (every one is taken for a clean one): the threads
\* restart if it is the current pool's or for a new block.
Notify(p) ==
    /\ p \in StratumPools \cap active /\ update_pc[p] = "idle"
    /\ job[p] < MaxUpdates
    /\ job' = [job EXCEPT ![p] = @ + 1]
    /\ work_restart_id' = [work_restart_id EXCEPT ![p] = @ + 1]
    /\ \E a \in IF p \in GoalReset THEN Algos ELSE {goal_malgo[p]} :
         goal_malgo' = [goal_malgo EXCEPT ![p] = a]
    /\ \E newblock \in BOOLEAN :
         update_pc' = [update_pc EXCEPT ![p] =
                         IF newblock \/ p = Current THEN "discard" ELSE "idle"]
    /\ UNCHANGED <<queueVars, tuneVars, sleepVars, mainVars, minerVars, update_work,
                   mrs, active, answers, drops>>

\* A long poll answered with a work, for a new block or as a request to
\* restart; only the latter counts in work_restart_id, and the work has no
\* stamp yet.
Longpoll(p) ==
    /\ p \in GetworkPools /\ update_pc[p] = "idle"
    /\ job[p] + work_restart_id[p] < MaxUpdates /\ answers[p] < MaxAnswers
    /\ answers' = [answers EXCEPT ![p] = @ + 1]
    /\ \E newblock \in BOOLEAN, r \in BOOLEAN :
         /\ job' = [job EXCEPT ![p] = @ + If(newblock)]
         /\ work_restart_id' = [work_restart_id EXCEPT ![p] = @ + If(~newblock)]
         /\ update_work' = [update_work EXCEPT ![p] =
              [NoWork EXCEPT !.pool = p, !.job = job'[p], !.rolltime = r,
                             !.answer = answers'[p]]]
         /\ update_pc' = [update_pc EXCEPT ![p] =
                            IF newblock \/ p = Current THEN "discard" ELSE "convert"]
    /\ UNCHANGED <<queueVars, tuneVars, sleepVars, mainVars, minerVars, mrs, goal_malgo,
                   active, drops>>

\* restart_threads begins with discard_stale.
DiscardStale(p) ==
    /\ update_pc[p] = "discard"
    /\ Unstage({i \in DOMAIN staged_work : Stale(staged_work[i])})
    /\ SignalGws
    /\ update_pc' = [update_pc EXCEPT ![p] = "flag"]
    /\ UNCHANGED <<opt_queue, getq_waiters, mainVars, minerVars, update_work, mrs,
                   poolVars>>

FlagThreads(p) ==
    /\ update_pc[p] = "flag"
    /\ work_restart' = [m \in Miners |-> TRUE]
    /\ update_pc' = [update_pc EXCEPT ![p] =
                       IF p \in GetworkPools THEN "convert" ELSE "idle"]
    /\ UNCHANGED <<queueVars, tuneVars, sleepVars, mainVars, miner_pc, miner_work,
                   update_work, mrs, poolVars>>

\* convert_to_work: a backup pool's work is not used with opt_fail_only.
ConvertToWork(p) ==
    /\ update_pc[p] = "convert"
    /\ IF p # Current /\ OptFailOnly
       THEN /\ update_pc' = [update_pc EXCEPT ![p] = "idle"]
            /\ update_work' = [update_work EXCEPT ![p] = NoWork]
            /\ UNCHANGED mrs
       ELSE /\ update_pc' = [update_pc EXCEPT ![p] = "clone"]
            /\ mrs' = [mrs EXCEPT ![p] = base_queue + opt_queue - TotalStaged]
            /\ UNCHANGED update_work
    /\ UNCHANGED <<queueVars, tuneVars, sleepVars, mainVars, minerVars, poolVars>>

\* clone_work: the first clone is of the work as it came; the last one made is
\* staged after its master.
CloneWork(p) ==
    LET w == update_work[p]
        more == mrs[p] > 0 /\ CanRoll(w)
        latest == CloneOf([w EXCEPT !.rolls = IF @ = 0 THEN 0 ELSE @ - 1])
    IN /\ update_pc[p] = "clone"
       /\ mrs' = [mrs EXCEPT ![p] = IF more THEN @ - 1 ELSE 0]
       /\ IF more
          THEN /\ StageOf(p, latest, "clone")
               /\ update_work' = [update_work EXCEPT ![p] = Rolled(Rolled(w))]
          ELSE /\ StageOf(p, w, IF w.rolls > 0 THEN "last" ELSE "idle")
               /\ update_work' = [update_work EXCEPT ![p] =
                                    IF w.rolls > 0 THEN latest ELSE NoWork]
       /\ UNCHANGED <<tuneVars, gws_waiting, mainVars, minerVars, poolVars>>

StageLast(p) ==
    /\ update_pc[p] = "last"
    /\ StageOf(p, update_work[p], "idle")
    /\ update_work' = [update_work EXCEPT ![p] = NoWork]
    /\ UNCHANGED <<tuneVars, gws_waiting, mainVars, minerVars, mrs, poolVars>>

\* A backup pool's stratum connection is lost.
ConnectionLost(p) ==
    /\ p \in StratumPools \cap active /\ p # Current
    /\ update_pc[p] = "idle" /\ drops < MaxDrops
    /\ drops' = drops + 1 /\ active' = active \ {p}
    /\ update_pc' = [update_pc EXCEPT ![p] = "lost"]
    /\ UNCHANGED <<queueVars, tuneVars, sleepVars, mainVars, minerVars, update_work, mrs,
                   job, work_restart_id, goal_malgo, answers>>

\* clear_pool_work, which tells nobody.
ClearPoolWork(p) ==
    /\ update_pc[p] = "lost"
    /\ Unstage({i \in DOMAIN staged_work : staged_work[i].pool = p})
    /\ update_pc' = [update_pc EXCEPT ![p] = "down"]
    /\ UNCHANGED <<opt_queue, sleepVars, mainVars, minerVars, update_work, mrs, poolVars>>

\* The pool is back, for stratum with another job.
Revive(p) ==
    /\ p \notin active
    /\ p \in StratumPools => update_pc[p] = "down"
    /\ active' = active \cup {p}
    /\ job' = [job EXCEPT ![p] = @ + If(p \in StratumPools)]
    /\ update_pc' = [update_pc EXCEPT ![p] = IF p \in StratumPools THEN "idle" ELSE @]
    /\ UNCHANGED <<queueVars, tuneVars, sleepVars, mainVars, minerVars, update_work, mrs,
                   work_restart_id, goal_malgo, answers, drops>>

Restart(p) == DiscardStale(p) \/ FlagThreads(p)
Convert(p) == ConvertToWork(p) \/ CloneWork(p) \/ StageLast(p)

Next ==
    \/ Scheduler
    \/ \E m \in Miners : MinerStep(m)
    \/ \E p \in Pools :
         \/ Notify(p) \/ Longpoll(p) \/ Restart(p) \/ Convert(p)
         \/ ConnectionLost(p) \/ ClearPoolWork(p) \/ Revive(p)

Spec == Init /\ [][Next]_vars

FairSpec ==
    /\ Spec
    /\ WF_vars(Scheduler)
    /\ \A m \in Miners : WF_vars(MinerStep(m))
    /\ \A p \in Pools : WF_vars(Restart(p) \/ Convert(p) \/ ClearPoolWork(p))

-----------------------------------------------------------------------------
(* Properties.                                                             *)

\* Every variable has its type; the pool threads and the places of the queue
\* are those of the code (StagedWork's control state).
TypeOK ==
    /\ staged_work \in Seq(Work)
    /\ staged_rollable \in Nat /\ staged_spare \in Nat
    /\ malgo_staged \in [Algos -> Int]
    /\ staged_full \in BOOLEAN /\ opt_queue \in Nat
    /\ getq_waiters \subseteq {m \in Miners : miner_pc[m] = "pop"}
    /\ gws_waiting \in BOOLEAN /\ (gws_waiting => main_pc = "asleep")
    /\ main_pc \in {"top", "select", "asleep", "fetch", "retry", "request", "failed",
                    "push", "crashed"}
    /\ main_work \in Work /\ max_staged \in Nat /\ lagging \in BOOLEAN
    /\ malgo \in 0 .. Len(mining_algorithms)
    /\ miner_pc \in [Miners -> {"clear", "pop", "clone", "push", "check", "mining", "wake"}]
    /\ miner_work \in [Miners -> Work] /\ work_restart \in [Miners -> BOOLEAN]
    /\ update_pc \in [Pools -> {"idle", "discard", "flag", "convert", "clone", "last",
                                "lost", "down"}]
    /\ update_work \in [Pools -> Work] /\ mrs \in [Pools -> Int]
    /\ job \in [Pools -> Nat] /\ work_restart_id \in [Pools -> Nat]
    /\ goal_malgo \in [Pools -> Algos] /\ active \subseteq Pools
    /\ answers \in [Pools -> 0 .. MaxAnswers] /\ drops \in 0 .. MaxDrops

\* The counters kept beside the queue (staged_rollable, staged_spare and
\* malgo->staged) agree with what is in it, whoever adds or removes works:
\* the scheduler decides on them alone (miner.c:13882, 13894).
CountersExact ==
    LET count(P(_)) == CountIn(DOMAIN staged_work, P)
    IN /\ staged_rollable = count(Rollable)
       /\ staged_spare = count(LAMBDA w : w.spare)
       /\ \A a \in Algos : malgo_staged[a] = count(LAMBDA w : AlgoOf(w) = a)

\* No mining thread sleeps on getq->cond while the queue holds a work its
\* device can mine (hash_pop's wait and hash_push's broadcast).
WaitersHaveNothing == \A m \in getq_waiters : Usable(m) = {}

\* "Wait until hash_pop tells us we need to create more work": the scheduler
\* never sleeps while a mining thread waits for an algorithm some pool serves.
SchedulerHeeds ==
    gws_waiting =>
      \A m \in getq_waiters : \A p \in active : goal_malgo[p] \notin DeviceAlgos[m]

\* The queue is not filled past what the devices and opt_queue ask for: at
\* most one work more, beside the spare ones (stratum pools only).
NeverOverfills == TotalStaged <= opt_queue + base_queue + 1

\* A device never goes on mining a work its current pool has withdrawn without
\* having been told to stop, once the restart is over: the flag is set after
\* the stale works are dropped and get_work checks what it takes.
RestartNoticed ==
    \A m \in Miners :
      (/\ miner_pc[m] = "mining" /\ miner_work[m].pool = Current
       /\ Stale(miner_work[m]) /\ update_pc[Current] \notin {"discard", "flag"})
      => work_restart[m]

\* Works that are staged, being mined or on their way.
Hands ==
    {<<"main", 0>>} \cup {<<"miner", m>> : m \in Miners}
    \cup {<<"update", p>> : p \in Pools} \cup {<<"queue", i>> : i \in DOMAIN staged_work}
WorkIn(h) ==
    IF h[1] = "main" THEN main_work
    ELSE IF h[1] = "miner" THEN miner_work[h[2]]
    ELSE IF h[1] = "update" THEN update_work[h[2]]
    ELSE staged_work[h[2]]

\* No two threads ever hold the same header of a getwork pool: clones are made
\* by the scheduler, the mining threads and the long poll threads at once, and
\* each rolls the time for itself and past the clone.
NoDuplicateWork ==
    \A h, k \in Hands :
      LET v == WorkIn(h)   w == WorkIn(k)
      IN (v.answer > 0 /\ v.answer = w.answer /\ v.pool = w.pool /\ v.rolls = w.rolls)
         => h = k

\* When every mining thread has run out of work, some thread gets work again:
\* the signals between hash_pop and the scheduler are not lost for good.
WorkArrives == getq_waiters = Miners ~> \E m \in Miners : miner_pc[m] = "mining"

=============================================================================
