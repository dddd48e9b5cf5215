---------------------------- MODULE PoolControl ----------------------------
(***************************************************************************)
(* Which pool BFGMiner mines for (miner.c, api.c): enabling and disabling, *)
(* death and revival, priorities, switch_pools, select_pool, and the       *)
(* stratum connections that are closed while nobody needs them.            *)
(*                                                                         *)
(* The same few functions are called by the API thread, the operator at    *)
(* the terminal, the watchpool thread, the getwork scheduler (main) and    *)
(* the stratum thread of each pool.  todo[t] is the call stack of thread   *)
(* t: the calls it is still to make, the innermost first.  Locks:          *)
(* control_lock, a reader/writer lock whose writers wait with its mutex    *)
(* held (cg_wlock), so that no reader can come in any more; and lp_lock.   *)
(*                                                                         *)
(* Every pool is a stratum pool of one goal.  What switch_pools does to    *)
(* staged work is in StagedWork.                                           *)
(***************************************************************************)
EXTENDS Integers, SequencesExt, FiniteSetsExt

CONSTANTS
    Pools,            \* the pools of the command line, in any order
    NoPool,           \* NULL
    Order,            \* the array pools[] at the start, a sequence
    Strategy,         \* the strategy of the command line
    Strategies,       \* the strategies the operator may change to
    Orders,           \* the orders of pools poolpriority is given
    Quoted,           \* pools with a quota at the start
    FailoverOnly,     \* pools marked failover_only at the start
    OptFailOnly,      \* opt_fail_only
    OptDisablePool,   \* opt_disable_pool
    Lagging,          \* whether the queue may run short of work
    MaxCommands,      \* bound on the commands of the operators
    MaxVerdicts,      \* bound on rejects and coinbase checks that disable a pool
    MaxFailures       \* bound on the times a pool goes down

ASSUME PoolAssumption ==
    /\ Order \in Seq(Pools) /\ Order # <<>> /\ IsInjective(Order)
    /\ ToSet(Order) = Pools /\ NoPool \notin Pools
    /\ Strategies \cup {Strategy} \subseteq
                            {"FAILOVER", "ROUNDROBIN", "ROTATE", "LOADBALANCE",
                             "BALANCE"}
    /\ Quoted \subseteq Pools /\ FailoverOnly \subseteq Pools
    /\ \A order \in Orders : order \in Seq(Pools) /\ IsInjective(order)
    /\ OptFailOnly \in BOOLEAN /\ OptDisablePool \in BOOLEAN /\ Lagging \in BOOLEAN
    /\ MaxCommands \in Nat /\ MaxVerdicts \in Nat /\ MaxFailures \in Nat

VARIABLES
    enabled,          \* pool->enabled
    idle,             \* pools whose idle flag is set
    prio,             \* pool->prio
    pools,            \* the array pools[0 .. total_pools - 1]
    enabled_pools,    \* the count kept by hand
    currentpool,
    pool_strategy,
    quota,            \* pools whose quota is not zero
    failover_only,    \* pools marked failover_only
    alive,            \* pools that would answer now
    sthread,          \* what the stratum thread of a pool is doing
    todo,             \* the call stack of each thread
    cgmutex, readers, \* control_lock: who has its mutex, who reads
    lp_lock,          \* who has lp_lock
    torn,             \* priorities changed by two threads at once, or for a
                      \* removed pool
    miscounted,       \* two threads have counted or removed one pool at once
    crashed,          \* an entry past the end of pools[] was used
    commands, verdicts, failures

poolVars    == <<enabled, enabled_pools, miscounted, failover_only>>
orderVars   == <<prio, pools, currentpool, pool_strategy, quota, torn, crashed>>
lockVars    == <<cgmutex, readers, lp_lock>>
worldVars   == <<alive, commands, verdicts, failures>>
connVars    == <<idle, sthread>>

vars == <<poolVars, orderVars, lockVars, worldVars, connVars, todo>>

\* The callers: the API, the terminal, watchpool, the scheduler, and each
\* pool's stratum thread.
Operators == {"api", "tui"}
Threads == Operators \cup {"watchpool", "main"} \cup Pools
Nobody == "nobody"

N == Len(pools)
Listed == ToSet(pools)

Call(op, p) == [op |-> op, pool |-> p, arg |-> NoPool]
With(op, p, x) == [op |-> op, pool |-> p, arg |-> x]

Doing(t, op) == todo[t] # <<>> /\ Head(todo[t]).op = op
Callee(t) == Head(todo[t]).pool
Argument(t) == Head(todo[t]).arg

\* switch_pools(p) enables the pool it is given and goes on in SelectPool.
Switching(p) ==
    IF p = NoPool THEN <<Call("select", NoPool)>>
    ELSE <<Call("enable", p), Call("select", p)>>

\* The call at the top of t's stack is replaced by the calls it makes.
Proceed(t, calls) == todo' = [todo EXCEPT ![t] = calls \o Tail(@)]
Begin(t, calls) == todo[t] = <<>> /\ todo' = [todo EXCEPT ![t] = calls]

-----------------------------------------------------------------------------
(* Locks and conditions.                                                   *)

\* cg_rlock goes through the mutex, which a waiting writer keeps.
MayRead(t) == cgmutex = Nobody

LpFree == lp_lock = Nobody

\* pthread_cond_broadcast(&lp_cond): all sleepers look again.
LpBroadcast ==
    sthread' = [q \in Pools |-> IF sthread[q] = "asleep" THEN "suspended"
                                ELSE sthread[q]]

-----------------------------------------------------------------------------
(* What the code asks about a pool.                                        *)

Enabled(p) == enabled[p] = "ENABLED"

\* pool_unusable and pool_unworkable, negated.
Usable(p) == p \notin idle /\ Enabled(p)
Workable(p) == Usable(p) /\ (p \in Listed => sthread[p] = "serve")

\* priority_pool(i) under the priorities pr: "WTF No pool found!" gives the
\* i'th pool of the array instead.
PriorityPool(pr, i) ==
    LET at == {k \in 1 .. N : pr[pools[k]] = i}
    IN pools[IF at = {} THEN i + 1 ELSE Min(at)]

\* pool_actively_desired
ActivelyDesired(p, cp) ==
    /\ Enabled(p)
    /\ \/ pool_strategy = "LOADBALANCE" /\ p \in quota
       \/ pool_strategy = "BALANCE" /\ p \notin failover_only
       \/ p = cp
       \/ \E i \in 0 .. N - 1 :
            /\ PriorityPool(prio, i) = p
            /\ \A j \in 0 .. i - 1 : ~Usable(PriorityPool(prio, j))

\* cnx_needed, but for the two minutes a connection is kept for stray shares.
\* no_work is what hash_pop sets when it finds nothing and clears when it does:
\* either, whenever it is looked at.
ConnectionNeeded(p, no_work) ==
    /\ enabled[p] # "DISABLED"
    /\ \/ p \in idle
       \/ ActivelyDesired(p, currentpool)
       \/ pool_strategy = "FAILOVER" /\ prio[p] < prio[currentpool]
       \/ ~Workable(currentpool)
       \/ no_work

-----------------------------------------------------------------------------
Init ==
    /\ pools = Order
    /\ prio = [p \in Pools |-> (CHOOSE k \in 1 .. N : pools[k] = p) - 1]
    /\ currentpool = pools[1]
    /\ enabled = [p \in Pools |-> "ENABLED"]
    /\ enabled_pools = N
    /\ idle = {} /\ alive = Pools
    /\ pool_strategy = Strategy
    /\ quota = Quoted /\ failover_only = FailoverOnly
    /\ sthread = [p \in Pools |-> "serve"]
    /\ todo = [t \in Threads |->
                 IF t = "watchpool" THEN <<With("probe", NoPool, 1)>> ELSE <<>>]
    /\ cgmutex = Nobody /\ readers = {} /\ lp_lock = Nobody
    /\ torn = FALSE /\ miscounted = FALSE /\ crashed = FALSE
    /\ commands = 0 /\ verdicts = 0 /\ failures = 0

-----------------------------------------------------------------------------
(* enable_pool and disable_pool.                                           *)

\* Another thread is past its test of p, or removes p, or has removed it.
Overlap(t, p) ==
    \/ p \notin Listed
    \/ \E u \in Threads \ {t} : \E i \in DOMAIN todo[u] :
         todo[u][i].pool = p /\ todo[u][i].op \in {"count", "uncount", "unlink"}

\* enable_pool tests the pool outside lp_lock ...
EnablePool(t) ==
    /\ Doing(t, "enable")
    /\ Proceed(t, IF ~Enabled(Callee(t))
                  THEN <<Call("count", Callee(t))>> ELSE <<>>)
    /\ UNCHANGED <<poolVars, orderVars, lockVars, worldVars, connVars>>

\* ... counts it inside ...
CountEnabled(t) ==
    /\ Doing(t, "count") /\ LpFree
    /\ enabled_pools' = enabled_pools + 1
    /\ enabled' = [enabled EXCEPT ![Callee(t)] = "ENABLED"]
    /\ miscounted' = (miscounted \/ Overlap(t, Callee(t)))
    /\ LpBroadcast
    /\ Proceed(t, <<Call("compare", Callee(t))>>)
    /\ UNCHANGED <<orderVars, lockVars, worldVars, idle, failover_only>>

\* ... and switches to it if it comes before the current pool.
ComparePrio(t) ==
    /\ Doing(t, "compare") /\ MayRead(t)
    /\ Proceed(t, IF prio[Callee(t)] < prio[currentpool]
                  THEN Switching(Callee(t)) ELSE <<>>)
    /\ UNCHANGED <<poolVars, orderVars, lockVars, worldVars, connVars>>

\* manual_enable_pool: a quota of zero becomes one.
ManualEnable(t) ==
    /\ Doing(t, "manual")
    /\ failover_only' = failover_only \ {Callee(t)}
    /\ quota' = quota \cup {Callee(t)}
    /\ Proceed(t, <<Call("enable", Callee(t))>>)
    /\ UNCHANGED <<lockVars, worldVars, connVars, enabled, enabled_pools,
                   miscounted, prio, pools, currentpool, pool_strategy, torn, crashed>>

\* Faulty variant: a pool that is disabled already is counted again.
MutantDisablePool(t) ==
    /\ Doing(t, "disable")
    /\ Proceed(t, <<With("uncount", Callee(t), Argument(t))>>)
    /\ UNCHANGED <<poolVars, orderVars, lockVars, worldVars, connVars>>

\* disable_pool: nothing to do, or only another status ...
DisablePool(t) ==
    /\ Doing(t, "disable")
    /\ LET p == Callee(t)
       IN /\ enabled' = [enabled EXCEPT ![p] =
                           IF @ \in {"DISABLED", "ENABLED"} THEN @ ELSE Argument(t)]
          /\ Proceed(t, IF Enabled(p)
                        THEN <<With("uncount", p, Argument(t))>> ELSE <<>>)
    /\ UNCHANGED <<orderVars, lockVars, worldVars, connVars, enabled_pools,
                   miscounted, failover_only>>

\* ... or the count goes down under lp_lock, and the current pool is left.
Uncount(t) ==
    /\ Doing(t, "uncount") /\ LpFree
    /\ enabled_pools' = enabled_pools - 1
    /\ enabled' = [enabled EXCEPT ![Callee(t)] = Argument(t)]
    /\ miscounted' = (miscounted \/ Overlap(t, Callee(t)))
    /\ Proceed(t, <<Call("ifcurrent", Callee(t))>>)
    /\ UNCHANGED <<orderVars, lockVars, worldVars, connVars, failover_only>>

\* if (pool == current_pool()) switch_pools(NULL)
IfCurrent(t) ==
    /\ Doing(t, "ifcurrent") /\ MayRead(t)
    /\ Proceed(t, IF Callee(t) = currentpool
                  THEN Switching(NoPool) ELSE <<>>)
    /\ UNCHANGED <<poolVars, orderVars, lockVars, worldVars, connVars>>

\* pool_died: the first to see it wakes the sleepers and leaves the pool.
PoolDied(t) ==
    /\ Doing(t, "died") /\ LpFree
    /\ idle' = idle \cup {Callee(t)}
    /\ IF Callee(t) \in idle
       THEN Proceed(t, <<>>) /\ UNCHANGED sthread
       ELSE Proceed(t, <<Call("ifcurrent", Callee(t))>>) /\ LpBroadcast
    /\ UNCHANGED <<poolVars, orderVars, lockVars, worldVars>>

-----------------------------------------------------------------------------
(* switch_pools.                                                           *)

\* cg_wlock while somebody reads: wait with the mutex.
AwaitReaders(t) ==
    /\ Doing(t, "select") /\ readers # {} /\ cgmutex = Nobody
    /\ cgmutex' = t
    /\ UNCHANGED <<poolVars, orderVars, worldVars, connVars, todo, readers, lp_lock>>

\* prioritize_pools takes no lock.
Reordering(t) ==
    \E u \in Threads \ {t} : Doing(u, "priority") \/ Doing(u, "priorest")

\* The selected pool comes first and those before it move down by one.
Raised(sel) ==
    IF sel = NoPool \/ prio[sel] = 0 THEN prio
    ELSE [p \in Pools |-> IF p = sel THEN 0
                          ELSE IF p \in Listed /\ prio[p] < prio[sel]
                               THEN prio[p] + 1 ELSE prio[p]]

\* currentpool->pool_no, counted from 1; that of a removed pool is past the end.
Position(p) == IF p \in Listed THEN CHOOSE k \in 1 .. N : pools[k] = p ELSE N + 1

\* FAILOVER, LOADBALANCE, BALANCE: the first usable pool by priority.
FirstUsable(pr) ==
    LET ok == {i \in 0 .. N - 1 : Usable(PriorityPool(pr, i))}
    IN IF ok = {} THEN NoPool ELSE PriorityPool(pr, Min(ok))

\* ROUNDROBIN, ROTATE: the next usable pool after the current one, preferring
\* those that are not failover_only.
NextUsable ==
    LET from == IF Position(currentpool) > N THEN N ELSE Position(currentpool)
        at(i) == pools[((from + i - 1) % N) + 1]
        ok == {i \in 1 .. N - 1 : Usable(at(i))}
        regular == {i \in ok : at(i) \notin failover_only}
    IN IF regular # {} THEN at(Min(regular))
       ELSE IF ok # {} /\ ~Usable(currentpool) THEN at(Min(ok)) ELSE NoPool

Selection(pr, sel) ==
    IF pool_strategy \notin {"ROUNDROBIN", "ROTATE"} THEN FirstUsable(pr)
    ELSE IF sel # NoPool /\ sel \notin idle THEN sel ELSE NextUsable

\* Faulty variant: a pool is made the current one whether there is one or not.
MutantNoPool(t) ==
    /\ Doing(t, "select") /\ readers = {} /\ cgmutex \in {Nobody, t}
    /\ \E sel \in {Callee(t)} : \E pr \in {Raised(sel)} : \E new \in {Selection(pr, sel)} :
          /\ prio' = pr
          /\ currentpool' = new
          /\ crashed' = (crashed \/ (new = NoPool /\ currentpool \notin Listed))
          /\ torn' = (torn \/ (pr # prio /\ (Reordering(t) \/ sel \notin Listed)))
    /\ cgmutex' = Nobody
    /\ Proceed(t, <<Call("announce", NoPool)>>)
    /\ UNCHANGED <<poolVars, worldVars, connVars, readers, lp_lock, pools,
                   pool_strategy, quota>>

\* The section under control_lock.  When no pool will do, the current one stays;
\* a removed one's pool_no is past the end of the array.
SelectPool(t) ==
    /\ Doing(t, "select") /\ readers = {} /\ cgmutex \in {Nobody, t}
    /\ \E sel \in {Callee(t)} : \E pr \in {Raised(sel)} : \E new \in {Selection(pr, sel)} :
          /\ prio' = pr
          /\ currentpool' = IF new = NoPool THEN currentpool ELSE new
          /\ crashed' = (crashed \/ (new = NoPool /\ currentpool \notin Listed))
          /\ torn' = (torn \/ (pr # prio /\ (Reordering(t) \/ sel \notin Listed)))
    /\ cgmutex' = Nobody
    /\ Proceed(t, <<Call("announce", NoPool)>>)
    /\ UNCHANGED <<poolVars, worldVars, connVars, readers, lp_lock, pools,
                   pool_strategy, quota>>

\* Afterwards lp_cond is broadcast, twice.
Announce(t) ==
    /\ Doing(t, "announce") /\ LpFree
    /\ LpBroadcast
    /\ Proceed(t, <<>>)
    /\ UNCHANGED <<poolVars, orderVars, lockVars, worldVars, idle>>

-----------------------------------------------------------------------------
(* The getwork scheduler: select_pool(lagging, NULL).                      *)

\* What select_loadbalance and select_balanced may return: how the first counts quotas
\* is the subject of PoolQuota.  A discarded work can leave a unit to a pool of quota 0.
QuotaChoices == {p \in Listed : Workable(p)} \cup {NoPool}
BalancedChoices(cp) == {p \in Listed : Workable(p)} \cup {cp}

\* Nothing found: the first usable pool by priority, or else the current one.
SimpleFailover(p, cp) ==
    IF p # NoPool THEN p
    ELSE IF FirstUsable(prio) # NoPool THEN FirstUsable(prio) ELSE cp

PickPool(lagging, cp) ==
    IF pool_strategy = "BALANCE" THEN BalancedChoices(cp)
    ELSE IF pool_strategy # "LOADBALANCE" /\ (lagging = "timely" \/ OptFailOnly)
         THEN {cp}
         ELSE {SimpleFailover(p, cp) : p \in QuotaChoices}

\* pool_active: whether the pool works, and whether its connection was made just
\* now.  A pool with a stratum thread is believed; another is connected to, if
\* it has not failed within 30 seconds; one that gave work lately is believed.
PoolActive(p, patient) ==
    IF p \in Listed /\ sthread[p] # "none"
    THEN {[ok |-> sthread[p] = "serve", connected |-> FALSE]}
    ELSE {[ok |-> p \in Listed \cap alive, connected |-> p \in Listed \cap alive]}
         \cup (IF p \notin idle THEN {[ok |-> TRUE, connected |-> FALSE]}
               ELSE IF patient THEN {} ELSE {[ok |-> FALSE, connected |-> FALSE]})

\* A pool that is not known to work and be wanted is tested; one that fails is
\* dead and the search begins again.
Pick(lagging) ==
    /\ MayRead("main")
    /\ todo["main"] \in {<<>>, <<With("pick", NoPool, lagging)>>}
    /\ \E p \in PickPool(lagging, currentpool) :
         IF Workable(p) /\ ActivelyDesired(p, currentpool)
         THEN /\ todo' = [todo EXCEPT !["main"] = <<>>]
              /\ UNCHANGED connVars
         ELSE \E a \in PoolActive(p, FALSE) :
                /\ idle' = IF a.ok THEN idle \ {p} ELSE idle
                /\ sthread' = IF a.connected THEN [sthread EXCEPT ![p] = "serve"]
                              ELSE sthread
                /\ todo' = [todo EXCEPT !["main"] =
                              IF a.ok THEN <<>>
                              ELSE <<Call("died", p), With("pick", NoPool, lagging)>>]
    /\ UNCHANGED <<poolVars, orderVars, lockVars, worldVars>>

-----------------------------------------------------------------------------
(* watchpool_thread, every 30 seconds: "probe" has the index of its loop.    *)

\* Faulty variant: the comparison of priorities is the wrong way round.
MutantRecovered(p, dead) ==
    /\ p \notin dead /\ Enabled(p) /\ pool_strategy = "FAILOVER"
    /\ prio[p] > prio[currentpool]

\* A better pool that has been alive for opt_fail_switch_delay is taken.
Recovered(p, dead) ==
    /\ p \notin dead /\ Enabled(p) /\ pool_strategy = "FAILOVER"
    /\ prio[p] < prio[currentpool]

\* An idle pool is tested, unless it is disabled; stable says that the pool has
\* been alive for long enough.
Probe(stable) ==
    /\ Doing("watchpool", "probe") /\ Argument("watchpool") <= N
    /\ MayRead("watchpool")
    /\ LET p == pools[Argument("watchpool")]
           next == <<With("probe", NoPool, Argument("watchpool") + 1)>>
       IN IF enabled[p] = "DISABLED"
          THEN ~stable /\ Proceed("watchpool", next) /\ UNCHANGED connVars
          ELSE \E a \in IF p \in idle THEN PoolActive(p, TRUE)
                        ELSE {[ok |-> TRUE, connected |-> FALSE]} :
                 /\ idle' = IF a.ok THEN idle \ {p} ELSE idle
                 /\ sthread' = IF a.connected THEN [sthread EXCEPT ![p] = "serve"]
                               ELSE sthread
                 /\ stable => Recovered(p, idle')
                 /\ Proceed("watchpool",
                            IF stable THEN Switching(NoPool) \o next ELSE next)
    /\ UNCHANGED <<poolVars, orderVars, lockVars, worldVars>>

\* Faulty variant: the watchpool thread only rotates.
MutantWatched(rotates) ==
    /\ Doing("watchpool", "probe") /\ Argument("watchpool") > N
    /\ MayRead("watchpool")
    /\ rotates => pool_strategy = "ROTATE"
    /\ Proceed("watchpool", (IF rotates THEN Switching(NoPool) ELSE <<>>)
                            \o <<With("probe", NoPool, 1)>>)
    /\ UNCHANGED <<poolVars, orderVars, lockVars, worldVars, connVars>>

\* A dead current pool is left; ROTATE moves on when its period is over.
Watched(rotates) ==
    /\ Doing("watchpool", "probe") /\ Argument("watchpool") > N
    /\ MayRead("watchpool")
    /\ rotates => pool_strategy = "ROTATE"
    /\ Proceed("watchpool", (IF currentpool \in idle \/ rotates
                             THEN Switching(NoPool) ELSE <<>>)
                            \o <<With("probe", NoPool, 1)>>)
    /\ UNCHANGED <<poolVars, orderVars, lockVars, worldVars, connVars>>

-----------------------------------------------------------------------------
(* The stratum thread of pool p.                                           *)

ThreadMoves(p, from, to) ==
    /\ sthread[p] = from /\ todo[p] = <<>>
    /\ sthread' = [sthread EXCEPT ![p] = to]

othersOfConn == <<poolVars, orderVars, lockVars, worldVars, idle>>

Interrupted(p) ==
    /\ ThreadMoves(p, "serve", IF p \in Listed THEN "broken" ELSE "none")
    /\ p \notin alive \cap Listed
    /\ UNCHANGED <<othersOfConn, todo>>

\* One attempt to reconnect; if it fails the thread ends.
Reconnect(p) ==
    /\ sthread[p] = "broken"
    /\ IF p \in alive
       THEN ThreadMoves(p, "broken", "serve") /\ UNCHANGED todo
       ELSE ThreadMoves(p, "broken", "none") /\ Begin(p, <<Call("died", p)>>)
    /\ UNCHANGED othersOfConn

\* "Connection not needed, suspending"
Suspend(p) ==
    /\ ThreadMoves(p, "serve", "suspended") /\ MayRead(p)
    /\ p \in Listed /\ ~ConnectionNeeded(p, FALSE)
    /\ UNCHANGED <<othersOfConn, todo>>

\* wait_lpcurrent holds lp_lock while it looks, and what it looks at takes
\* control_lock: it may have to wait for that with lp_lock held.
AwaitWriter(p) ==
    /\ sthread[p] = "suspended" /\ todo[p] = <<>> /\ LpFree /\ ~MayRead(p)
    /\ lp_lock' = p
    /\ UNCHANGED <<poolVars, orderVars, cgmutex, readers, worldVars, connVars, todo>>

\* It sleeps unless the connection is needed; a pool that does not answer then is
\* dead and tried for ever.
WaitLpCurrent(p, no_work) ==
    /\ sthread[p] = "suspended" /\ lp_lock \in {Nobody, p} /\ MayRead(p)
    /\ lp_lock' = Nobody
    /\ IF ~ConnectionNeeded(p, no_work)
       THEN ThreadMoves(p, "suspended", "asleep") /\ UNCHANGED todo
       ELSE IF p \in alive
       THEN ThreadMoves(p, "suspended", "serve") /\ UNCHANGED todo
       ELSE ThreadMoves(p, "suspended", "retry") /\ Begin(p, <<Call("died", p)>>)
    /\ UNCHANGED <<poolVars, orderVars, cgmutex, readers, worldVars, idle>>

Retry(p) ==
    /\ ThreadMoves(p, "retry", IF p \in Listed THEN "serve" ELSE "none")
    /\ p \in Listed => p \in alive
    /\ UNCHANGED <<othersOfConn, todo>>

\* stratum_resumed
Resumed(p) ==
    /\ sthread[p] = "serve" /\ todo[p] = <<>> /\ p \in idle \cap alive
    /\ idle' = idle \ {p}
    /\ UNCHANGED <<poolVars, orderVars, lockVars, worldVars, sthread, todo>>

\* share_result and pool_check_coinbase: a pool is disabled for rejected shares or
\* a bad coinbase, and enabled again when it mends its ways.
Verdict(p, calls) ==
    /\ sthread[p] = "serve" /\ Begin(p, calls) /\ verdicts < MaxVerdicts
    /\ verdicts' = verdicts + 1
    /\ UNCHANGED <<poolVars, orderVars, lockVars, connVars, alive, commands, failures>>

SharesRejected(p) ==
    /\ OptDisablePool /\ enabled_pools > 1
    /\ Verdict(p, <<With("disable", p, "REJECTING")>>)
CoinbaseBad(p) ==
    /\ Enabled(p)
    /\ Verdict(p, <<With("disable", p, "MISBEHAVING")>>)
MendsItsWays(p) ==
    /\ enabled[p] \in {"REJECTING", "MISBEHAVING"}
    /\ sthread[p] = "serve" /\ Begin(p, <<Call("enable", p)>>)
    /\ UNCHANGED <<poolVars, orderVars, lockVars, connVars, worldVars>>

-----------------------------------------------------------------------------
(* Commands of the API and of the terminal.                                *)

Command(t, calls) ==
    /\ Begin(t, calls) /\ commands < MaxCommands
    /\ commands' = commands + 1
    /\ UNCHANGED <<enabled, enabled_pools, miscounted, connVars, cgmutex, lp_lock,
                   alive, verdicts, failures>>

EnableCommand(t, p) ==
    /\ Command(t, <<Call("manual", p)>>)
    /\ t = "api" => ~Enabled(p) \/ p \in failover_only
    /\ UNCHANGED <<orderVars, readers, failover_only>>

DisableCommand(t, p) ==
    /\ Command(t, <<With("disable", p, "DISABLED")>>)
    /\ t = "api" => enabled[p] # "DISABLED"
    /\ enabled_pools > 1
    /\ UNCHANGED <<orderVars, readers, failover_only>>

\* switchpool of the API enables the pool inside a read section.
ApiSwitch(p) ==
    /\ Command("api", <<Call("manual", p), Call("runlock", p)>> \o Switching(p))
    /\ MayRead("api") /\ readers' = readers \cup {"api"}
    /\ UNCHANGED <<orderVars, failover_only>>

TuiSwitch(p) ==
    /\ Command("tui", <<Call("manual", p)>> \o Switching(p))
    /\ UNCHANGED <<orderVars, readers, failover_only>>

ReadUnlock(t) ==
    /\ Doing(t, "runlock")
    /\ readers' = readers \ {t}
    /\ Proceed(t, <<>>)
    /\ UNCHANGED <<poolVars, orderVars, cgmutex, lp_lock, worldVars, connVars>>

\* removepool: leave the pool, look again, and remove it if that worked.
RemoveCommand(t, p) ==
    /\ Command(t, <<Call("ifcurrent", p), Call("removable", p)>>)
    /\ N > 1
    /\ UNCHANGED <<orderVars, readers, failover_only>>

Removable(t) ==
    /\ Doing(t, "removable") /\ MayRead(t)
    /\ Proceed(t, IF Callee(t) = currentpool THEN <<>>
                  ELSE <<With("disable", Callee(t), "DISABLED"),
                         Call("unlink", Callee(t))>>)
    /\ UNCHANGED <<poolVars, orderVars, lockVars, worldVars, connVars>>

\* Faulty variant: the pools after the removed one do not move up.
MutantUnlinkPool(t) ==
    /\ Doing(t, "unlink")
    /\ pools' = [k \in 1 .. N - 1 |-> IF pools[k] = Callee(t) THEN pools[N] ELSE pools[k]]
    /\ torn' = (torn \/ Callee(t) \notin Listed \/ Reordering(t))
    /\ Proceed(t, <<>>)
    /\ UNCHANGED <<poolVars, lockVars, worldVars, connVars, currentpool,
                   pool_strategy, quota, crashed, prio>>

\* remove_pool: the pools after it move up, the last takes its place in the array.
UnlinkPool(t) ==
    /\ Doing(t, "unlink")
    /\ LET p == Callee(t)
       IN /\ prio' = [q \in Pools |-> IF q \in Listed /\ prio[q] > prio[p]
                                      THEN prio[q] - 1 ELSE prio[q]]
          /\ pools' = [k \in 1 .. N - 1 |-> IF pools[k] = p THEN pools[N] ELSE pools[k]]
          /\ torn' = (torn \/ p \notin Listed \/ Reordering(t))
          /\ miscounted' = (miscounted \/ Overlap(t, p))
    /\ Proceed(t, <<>>)
    /\ UNCHANGED <<enabled, enabled_pools, failover_only, lockVars, worldVars, connVars, 
                   currentpool, pool_strategy, quota, crashed>>

\* poolpriority: the pools named come first, in that order ...
PriorityCommand(t, order) ==
    /\ ToSet(order) \subseteq Listed
    /\ Command(t, <<With("priority", NoPool, order), With("priorest", NoPool, order),
                    Call("iflower", NoPool)>>)
    /\ UNCHANGED <<orderVars, readers, failover_only>>

WritePriorities(t) ==
    /\ Doing(t, "priority")
    /\ LET order == Argument(t)
       IN prio' = [p \in Pools |-> IF p \in ToSet(order)
                                   THEN (CHOOSE i \in DOMAIN order : order[i] = p) - 1
                                   ELSE prio[p]]
    /\ torn' = (torn \/ Reordering(t))
    /\ Proceed(t, <<>>)
    /\ UNCHANGED <<poolVars, lockVars, worldVars, connVars, currentpool, pools,
                   pool_strategy, quota, crashed>>

\* ... and the others after them, in the order of the priorities they have now.
AppendRest(t) ==
    /\ Doing(t, "priorest")
    /\ LET order == Argument(t)
           rest == {p \in Listed \ ToSet(order) : prio[p] \in 0 .. N - 1}
           first == {p \in rest : \A q \in rest \ {p} :
                       prio[q] = prio[p] => Position(p) < Position(q)}
       IN prio' = [p \in Pools |->
                     IF p \in first
                     THEN Len(order) + Cardinality({q \in first : prio[q] < prio[p]})
                     ELSE prio[p]]
    /\ Proceed(t, <<>>)
    /\ UNCHANGED <<poolVars, lockVars, worldVars, connVars, currentpool, pools,
                   pool_strategy, quota, crashed, torn>>

IfLower(t) ==
    /\ Doing(t, "iflower") /\ MayRead(t)
    /\ Proceed(t, IF prio[currentpool] # 0 THEN Switching(NoPool) ELSE <<>>)
    /\ UNCHANGED <<poolVars, orderVars, lockVars, worldVars, connVars>>

\* poolquota, or the terminal, to or from zero.  Nobody is woken.
QuotaCommand(t, p) ==
    /\ Command(t, <<>>)
    /\ quota' = IF p \in quota THEN quota \ {p} ELSE quota \cup {p}
    /\ failover_only' = IF t = "tui" /\ p \notin quota THEN failover_only \ {p}
                        ELSE failover_only
    /\ UNCHANGED <<prio, pools, currentpool, pool_strategy, torn, crashed, readers>>

\* bfg_strategy_change
StrategyCommand(s) ==
    /\ Command("tui", <<With("strategy", NoPool, s)>>)
    /\ s # pool_strategy
    /\ UNCHANGED <<orderVars, readers, failover_only>>

ChangeStrategy(t) ==
    /\ Doing(t, "strategy") /\ LpFree
    /\ pool_strategy' = Argument(t)
    /\ LpBroadcast
    /\ Proceed(t, Switching(NoPool))
    /\ UNCHANGED <<poolVars, lockVars, worldVars, idle, prio, pools, currentpool,
                   quota, torn, crashed>>

-----------------------------------------------------------------------------
(* The world: pools go down and come back.                                 *)

PoolGoesDown(p) ==
    /\ p \in alive /\ failures < MaxFailures
    /\ alive' = alive \ {p} /\ failures' = failures + 1
    /\ UNCHANGED <<poolVars, orderVars, lockVars, connVars, commands, verdicts, todo>>

PoolComesBack(p) ==
    /\ p \notin alive
    /\ alive' = alive \cup {p}
    /\ UNCHANGED <<poolVars, orderVars, lockVars, connVars, commands, verdicts,
                   failures, todo>>

-----------------------------------------------------------------------------
CallStep(t) ==
    \/ EnablePool(t) \/ CountEnabled(t) \/ ComparePrio(t) \/ ManualEnable(t)
    \/ DisablePool(t) \/ Uncount(t) \/ IfCurrent(t) \/ PoolDied(t)
     \/ AwaitReaders(t) \/ SelectPool(t) \/ Announce(t)

OperatorStep(t) ==
    \/ CallStep(t) \/ ReadUnlock(t) \/ Removable(t) \/ UnlinkPool(t)
    \/ WritePriorities(t) \/ AppendRest(t) \/ IfLower(t) \/ ChangeStrategy(t)

SchedulerStep ==
    CallStep("main") \/ Pick("timely") \/ (Lagging /\ Pick("lagging"))

WatchStep ==
    CallStep("watchpool") \/ Probe(FALSE) \/ Watched(FALSE)

StratumStep(p) ==
    \/ CallStep(p)
    \/ Interrupted(p) \/ Reconnect(p) \/ AwaitWriter(p)
    \/ \E no_work \in BOOLEAN : WaitLpCurrent(p, no_work)
    \/ Retry(p) \/ Resumed(p)

Commanding(t) ==
    \/ \E p \in Listed : \/ EnableCommand(t, p) \/ DisableCommand(t, p)
                         \/ RemoveCommand(t, p) \/ QuotaCommand(t, p)
    \/ \E s \in Orders : PriorityCommand(t, s)

World ==
    \E p \in Pools : PoolGoesDown(p) \/ PoolComesBack(p)

Next ==
    \/ \E t \in Operators : OperatorStep(t) \/ Commanding(t)
    \/ \E p \in Listed : ApiSwitch(p) \/ TuiSwitch(p)
    \/ \E s \in Strategies : StrategyCommand(s)
    \/ SchedulerStep
    \/ WatchStep \/ Probe(TRUE) \/ Watched(TRUE)
    \/ \E p \in Pools : \/ StratumStep(p) \/ Suspend(p)
                        \/ SharesRejected(p) \/ CoinbaseBad(p) \/ MendsItsWays(p)
    \/ World

Spec == Init /\ [][Next]_vars

\* The threads run.  A pool that stays better than the current one is some day
\* old enough to be taken.  Nothing forces commands, verdicts, a suspension, or
\* a pool to go down or come back.
Fairness ==
    /\ \A t \in Operators : WF_vars(OperatorStep(t))
    /\ WF_vars(SchedulerStep) /\ WF_vars(WatchStep) /\ SF_vars(Probe(TRUE))
    /\ \A p \in Pools : WF_vars(StratumStep(p))

FairSpec == Spec /\ Fairness

-----------------------------------------------------------------------------
Statuses == {"ENABLED", "DISABLED", "REJECTING", "MISBEHAVING"}
ThreadStates == {"none", "serve", "broken", "suspended", "asleep", "retry"}

TypeOK ==
    /\ enabled \in [Pools -> Statuses] /\ enabled_pools \in Int
    /\ failover_only \subseteq Pools /\ quota \subseteq Pools
    /\ prio \in [Pools -> Int] /\ pools \in Seq(Pools)
    /\ currentpool \in Pools /\ pool_strategy \in Strategies \cup {Strategy}
    /\ torn \in BOOLEAN /\ miscounted \in BOOLEAN /\ crashed \in BOOLEAN
    /\ cgmutex \in Threads \cup {Nobody} /\ readers \subseteq Operators
    /\ lp_lock \in Pools \cup {Nobody}
    /\ alive \subseteq Pools /\ idle \subseteq Pools
    /\ sthread \in [Pools -> ThreadStates]
    /\ DOMAIN todo = Threads
    /\ commands \in Nat /\ verdicts \in Nat /\ failures \in Nat

\* The API thread reads under control_lock and waits for what it will never get:
\* for its own lock, or for lp_lock, whose owner waits to read.
Stuck ==
    /\ cgmutex # Nobody /\ "api" \in readers
    /\ \/ Doing("api", "compare") \/ Doing("api", "select")
       \/ Doing("api", "count") /\ lp_lock # Nobody

\* priority_pool finds one pool for each priority, whoever reorders them, unless
\* two threads have reordered at once.
PrioritiesDistinct ==
    torn \/ (\E t \in Threads : Doing(t, "priorest"))
         \/ {prio[p] : p \in Listed} = 0 .. N - 1

\* enabled_pools, by which the last pool is kept from being disabled, is the number
\* of enabled pools, unless two threads were past the test of pool->enabled at once,
\* or one of them was about to remove the pool.
EnabledPoolsExact ==
    miscounted \/ enabled_pools = Cardinality({p \in Listed : Enabled(p)})

Candidate(p) == p \in Listed \cap alive /\ Enabled(p)

\* Failover: the miner does not stay with an enabled pool that gives no work while
\* another one would.
FailsOver ==
    []<>(\/ Workable(currentpool) \/ ~Enabled(currentpool)
         \/ \A p \in Pools : ~Candidate(p)
         \/ Stuck \/ crashed)

\* Failback, README:535, 536: "If any of the earlier pools recover, it will move
\* back to the higher priority ones."
FailsBack ==
    []<>(\/ pool_strategy # "FAILOVER"
         \/ \A p \in Listed : Candidate(p) => prio[p] >= prio[currentpool]
         \/ Stuck \/ crashed)
=============================================================================
