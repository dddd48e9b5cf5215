--------------------------- MODULE BlockDetection ---------------------------
(***************************************************************************)
(* How BFGMiner learns of a new block (miner.c): test_work_current looks   *)
(* the block of a work up, adds it under another lock, makes it the        *)
(* current block and restarts the mining threads; stale_work judges works  *)
(* by the current block, or by the last block of their pool.               *)
(*                                                                         *)
(* test_work_current runs in the thread that watches a pool (its stratum   *)
(* thread or its long poll thread) and in the getwork scheduler.  A work   *)
(* is [pool, block]; a pool issues work for the block net[p], and a work   *)
(* can be tested long after it was issued.                                 *)
(***************************************************************************)
EXTENDS Integers, FiniteSets

CONSTANTS
    Pools,
    LongpollPools,    \* pools watched by long poll
    StratumPools,     \* pools watched by stratum; a pool that turns out to have
                      \* stratum is in both, of one in neither only works tell
    Miners,           \* the mining threads
    MaxBlock,         \* bound on the blocks of the network, from 1
    Kept,             \* blocks kept beside the newest: 6 in the code
    OptFailOnly,      \* opt_fail_only
    Lagging,          \* whether a pool may be behind the network
    LostCounts,       \* whether an increment of new_blocks may be lost
    MaxEvents         \* bound on changes of the current pool and "zero" commands

ASSUME BlockAssumption ==
    /\ Pools # {} /\ IsFiniteSet(Pools)
    /\ LongpollPools \cup StratumPools \subseteq Pools
    /\ MaxBlock \in Nat \ {0} /\ Kept \in Nat \ {0}
    /\ OptFailOnly \in BOOLEAN /\ Lagging \in BOOLEAN
    /\ LostCounts \in BOOLEAN
    /\ MaxEvents \in Nat
    /\ "main" \notin Pools

VARIABLES
    net,              \* the block each pool issues work for
    blocks,           \* blkchain->blocks: entries [block, order]
    currentblk,       \* the block of blkchain->currentblk
    new_blocks,       \* the counter of new blocks
    block_id,         \* pool->block_id, 0 for none known
    currentpool,
    pc, work, kind,   \* of the threads that test work; kind is the caller
    order,            \* block_seen_order of the block a thread is to add
    mining,           \* the work of each mining thread, NoWork in get_work
    work_restart,     \* mining threads told to give their work up
    staged,           \* staged works
    miscounted,       \* an increment of new_blocks was lost, or it was zeroed
    forgotten,        \* pools whose block switch_pools has forgotten
    events

tableVars == <<blocks, currentblk, new_blocks, miscounted>>
historyVars == <<forgotten, events>>
testVars  == <<pc, work, kind, order>>
minerVars == <<mining, work_restart>>

vars == <<net, tableVars, block_id, currentpool, testVars, minerVars, staged,
          historyVars>>

Watched == LongpollPools \cup StratumPools
Testers == Watched \cup {"main"}
Works == [pool : Pools, block : 1 .. MaxBlock]
NoWork == [pool |-> "main", block |-> 0]

\* The dummy block of blkchain_init_block.
Dummy == [block |-> 0, order |-> 0]
Known(b) == \E e \in blocks : e.block = b

\* stale_work, as far as blocks decide: with one pool, or failover-only, by the
\* block of the pool; else by the current block.  Failover-only also has no use
\* for the works of other pools.
OtherBlock(w) ==
    IF OptFailOnly \/ Cardinality(Pools) = 1
    THEN block_id[w.pool] \notin {0, w.block}
    ELSE w.block # currentblk
Stale(w) == OtherBlock(w) \/ (OptFailOnly /\ w.pool # currentpool)

-----------------------------------------------------------------------------
Init ==
    /\ net = [p \in Pools |-> 1]
    /\ blocks = {Dummy} /\ currentblk = Dummy.block /\ new_blocks = 0
    /\ block_id = [p \in Pools |-> 0]
    /\ currentpool \in Pools
    /\ pc = [t \in Testers |-> "idle"] /\ work = [t \in Testers |-> NoWork]
    /\ kind = [t \in Testers |-> "stage"] /\ order = [t \in Testers |-> 0]
    /\ mining = [m \in Miners |-> NoWork] /\ work_restart = {}
    /\ staged = {} /\ miscounted = FALSE /\ forgotten = {}
    /\ events = 0

-----------------------------------------------------------------------------
(* Works to test.                                                          *)

Begin(t, w, k) ==
    /\ pc[t] = "idle"
    /\ pc' = [pc EXCEPT ![t] = "lookup"]
    /\ work' = [work EXCEPT ![t] = w] /\ kind' = [kind EXCEPT ![t] = k]
    /\ UNCHANGED <<net, tableVars, block_id, currentpool, order, minerVars, staged,
                   historyVars>>

\* A long poll answer, or a notify that says "clean".  One thread stands for the two
\* that watch a pool in both sets.
Watch(p) ==
    \/ p \in LongpollPools /\ Begin(p, [pool |-> p, block |-> net[p]], "longpoll")
    \/ p \in StratumPools /\ Begin(p, [pool |-> p, block |-> net[p]], "clean")

\* The scheduler got a work from a pool: from another only if not failover-only.
Fetch(p) ==
    /\ p = currentpool \/ ~OptFailOnly
    /\ Begin("main", [pool |-> p, block |-> net[p]], "stage")

\* share_result: a share of ours is a block.  It is tested as a work of its pool
\* before the pool issues any.
FoundBlock(p) ==
    /\ \E m \in Miners : mining[m] = [pool |-> p, block |-> net[p]]
    /\ \A q \in Pools : net[q] <= net[p]
    /\ net[p] < MaxBlock
    /\ Begin(p, [pool |-> p, block |-> net[p] + 1], "found")

-----------------------------------------------------------------------------
(* test_work_current.                                                      *)

\* work->longpoll, which test_work_current clears.
Marked(t) == kind[t] \in {"longpoll", "lpstage"}
Unmarked(k) ==
    CASE k = "longpoll" -> "converted" [] k = "lpstage" -> "stage" [] OTHER -> k

\* block_exists, under the read lock.  A block once known stays so while the rest is
\* done: UpdatePool does all of it.
LookUp(t) ==
    /\ pc[t] = "lookup" /\ ~Known(work[t].block)
    /\ pc' = [pc EXCEPT ![t] = "new"]
    /\ UNCHANGED <<net, tableVars, block_id, currentpool, work, kind, order,
                   minerVars, staged, historyVars>>

\* new_blocks++ takes no lock: a thread may read the count another one has read
\* and not written back yet.
CountsRead ==
    {new_blocks} \cup {order[u] : u \in {v \in Testers : LostCounts /\ pc[v] = "add"}}
TakeOrder(t) ==
    /\ pc[t] = "new"
    /\ pc' = [pc EXCEPT ![t] = "add"]
    /\ \E n \in CountsRead :
         /\ order' = [order EXCEPT ![t] = n] /\ new_blocks' = n + 1
         /\ miscounted' = (miscounted \/ n # new_blocks)
    /\ UNCHANGED <<net, blocks, currentblk, block_id, currentpool, work,
                   kind, minerVars, staged, historyVars>>

\* Under the write lock the oldest block goes when there are too many, and the new
\* one comes.
Remaining ==
    IF Cardinality(blocks) <= Kept THEN {blocks}
    ELSE {blocks \ {e} : e \in {o \in blocks : \A f \in blocks : o.order <= f.order}}

AddBlock(t) ==
    /\ pc[t] = "add"
    /\ pc' = [pc EXCEPT ![t] = "set"] /\ order' = [order EXCEPT ![t] = 0]
    /\ \E kept \in Remaining :
         blocks' = kept \cup {[block |-> work[t].block, order |-> order[t]]}
    /\ UNCHANGED <<net, currentblk, new_blocks, miscounted, block_id, currentpool,
                   work, kind, minerVars, staged, historyVars>>

\* The block becomes that of the pool and the current one.  The first block of all
\* restarts nothing, and leaves the mark of a long poll on its work.  After the
\* others, a "clean" notify has nothing left to do.
SetCurrent(t) ==
    /\ pc[t] = "set"
    /\ block_id' = [block_id EXCEPT ![work[t].pool] = work[t].block]
    /\ currentblk' = work[t].block
    /\ IF new_blocks = 1
       THEN /\ pc' = [pc EXCEPT ![t] = "return"]
            /\ kind' = [kind EXCEPT ![t] = IF @ = "clean" THEN "found" ELSE @]
       ELSE /\ pc' = [pc EXCEPT ![t] = "restart"]
            /\ kind' = [kind EXCEPT ![t] = IF @ = "clean" THEN "found" ELSE Unmarked(@)]
    /\ UNCHANGED <<net, blocks, new_blocks, miscounted, currentpool, work, order,
                   minerVars, staged, historyVars>>

\* The block of the pool changed, but only a long poll restarts the threads.
MutantSilentChange(t) ==
    /\ pc[t] = "lookup" /\ Known(work[t].block)
    /\ block_id' = [block_id EXCEPT ![work[t].pool] = work[t].block]
    /\ pc' = [pc EXCEPT ![t] =
                IF work[t].pool = currentpool /\ Marked(t) THEN "restart" ELSE "return"]
    /\ kind' = [kind EXCEPT ![t] = Unmarked(@)]
    /\ UNCHANGED <<net, tableVars, currentpool, work, order, minerVars, staged, historyVars>>

\* The block of the pool is set only with a block that is new.
MutantStuckPool(t) ==
    /\ pc[t] = "lookup" /\ Known(work[t].block)
    /\ pc' = [pc EXCEPT ![t] =
                IF work[t].pool = currentpool /\ Marked(t) THEN "restart" ELSE "return"]
    /\ kind' = [kind EXCEPT ![t] = Unmarked(@)]
    /\ UNCHANGED <<net, tableVars, block_id, currentpool, work, order, minerVars, staged,
                   historyVars>>

\* A block known already: the pool may have changed to it, and a long poll asks
\* for new work in any case.  Only the current pool restarts the threads.
UpdatePool(t) ==
    /\ pc[t] = "lookup" /\ Known(work[t].block)
    /\ LET p == work[t].pool
           active == block_id[p] \notin {0, work[t].block}
       IN /\ block_id' = [block_id EXCEPT ![p] = work[t].block]
          /\ pc' = [pc EXCEPT ![t] =
                      IF p = currentpool /\ (active \/ Marked(t)) THEN "restart"
                      ELSE "return"]
    /\ kind' = [kind EXCEPT ![t] = Unmarked(@)]
    /\ UNCHANGED <<net, tableVars, currentpool, work, order, minerVars, staged,
                   historyVars>>

\* restart_threads: stale works go, and every mining thread is told.
RestartThreads(t) ==
    /\ pc[t] = "restart"
    /\ pc' = [pc EXCEPT ![t] = "return"]
    /\ staged' = {w \in staged : ~Stale(w)}
    /\ work_restart' = Miners
    /\ UNCHANGED <<net, tableVars, block_id, currentpool, work, kind, order, mining,
                   historyVars>>

-----------------------------------------------------------------------------
(* What the callers of test_work_current do next.                          *)

Returning(t, kinds) ==
    /\ pc[t] = "return" /\ kind[t] \in kinds
    /\ UNCHANGED <<net, tableVars, block_id, currentpool, order, minerVars, historyVars>>

\* The caller keeps the work it has staged.
MutantKeepsWork(t) ==
    /\ pc' = [pc EXCEPT ![t] = "idle"] /\ kind' = [kind EXCEPT ![t] = "stage"]
    /\ UNCHANGED work

Done(t) ==
    /\ pc' = [pc EXCEPT ![t] = "idle"] /\ work' = [work EXCEPT ![t] = NoWork]
    /\ kind' = [kind EXCEPT ![t] = "stage"]

\* stage_work: the work goes to the queue, however stale it is by now.
Stage(t) ==
    /\ Returning(t, {"stage", "lpstage"})
    /\ staged' = staged \cup {work[t]}
    /\ Done(t)

\* convert_to_work: a clone of the work is staged, unless only the current pool's
\* works are of use.
ConvertToWork(t) ==
    /\ Returning(t, {"longpoll", "converted"})
    /\ IF OptFailOnly /\ work[t].pool # currentpool THEN Done(t)
       ELSE /\ pc' = [pc EXCEPT ![t] = "lookup"]
            /\ kind' = [kind EXCEPT ![t] = IF @ = "longpoll" THEN "lpstage" ELSE "stage"]
            /\ UNCHANGED work
    /\ UNCHANGED staged

\* A "clean" notify restarts the threads of its pool, if test_work_current has not.
NotifyTested(t) ==
    /\ Returning(t, {"clean", "found"})
    /\ IF kind[t] = "clean" /\ work[t].pool = currentpool
       THEN /\ pc' = [pc EXCEPT ![t] = "restart"]
            /\ kind' = [kind EXCEPT ![t] = "found"]
            /\ UNCHANGED work
       ELSE Done(t)
    /\ UNCHANGED staged

-----------------------------------------------------------------------------
(* Mining threads, as minerloop_scanhash has them.                         *)

\* get_work throws stale works away until it finds another.
GetWork(m) ==
    /\ mining[m] = NoWork
    /\ \E w \in staged :
         /\ staged' = staged \ {w}
         /\ mining' = [mining EXCEPT ![m] = IF Stale(w) THEN NoWork ELSE w]
    /\ UNCHANGED <<net, tableVars, block_id, currentpool, testVars, work_restart,
                   historyVars>>

\* A work is used up, or was scanned long enough, or the thread is told; the mark goes
\* before the next work is asked for.
GiveUp(m) ==
    /\ mining[m] # NoWork
    /\ mining' = [mining EXCEPT ![m] = NoWork]
    /\ work_restart' = work_restart \ {m}
    /\ UNCHANGED <<net, tableVars, block_id, currentpool, testVars, staged, historyVars>>

-----------------------------------------------------------------------------
(* The network and the operator.                                           *)

\* A pool learns of a newer block; all do at once unless some lag behind.
NewBlock(p) ==
    /\ \E b \in net[p] + 1 .. MaxBlock :
         net' = [q \in Pools |-> IF q = p \/ ~Lagging THEN b ELSE net[q]]
    /\ UNCHANGED <<tableVars, block_id, currentpool, testVars, minerVars, staged,
                   historyVars>>

\* switch_pools forgets the block of the pool it switches to; failover-only clears
\* the works of the old one.
SwitchPools(p) ==
    /\ p # currentpool /\ events < MaxEvents
    /\ events' = events + 1
    /\ currentpool' = p
    /\ block_id' = [block_id EXCEPT ![p] = 0]
    /\ forgotten' = IF block_id[p] = 0 THEN forgotten ELSE forgotten \cup {p}
    /\ staged' = IF OptFailOnly THEN {w \in staged : w.pool # currentpool} ELSE staged
    /\ UNCHANGED <<net, tableVars, testVars, minerVars>>

\* zero_stats, by the "zero" command.
ZeroStats ==
    /\ events < MaxEvents
    /\ events' = events + 1
    /\ new_blocks' = 0 /\ miscounted' = TRUE
    /\ UNCHANGED <<net, blocks, currentblk, block_id, currentpool, testVars, minerVars,
                   staged, forgotten>>

-----------------------------------------------------------------------------
TestStep(t) ==
    \/ LookUp(t) \/ TakeOrder(t) \/ AddBlock(t) \/ SetCurrent(t)
    \/ UpdatePool(t) \/ RestartThreads(t)
    \/ Stage(t) \/ ConvertToWork(t) \/ NotifyTested(t)

Next ==
    \/ \E t \in Testers : TestStep(t)
    \/ \E p \in Watched : Watch(p) \/ FoundBlock(p)
    \/ \E p \in Pools : Fetch(p) \/ NewBlock(p) \/ SwitchPools(p)
    \/ \E m \in Miners : GetWork(m) \/ GiveUp(m)
    \/ ZeroStats

Spec == Init /\ [][Next]_vars

\* The threads run, the scheduler gets work from the current pool again and again,
\* and every work is given up at the latest when scan time is over (abandon_work).
\* Nothing makes a pool send anything by itself.
Fairness ==
    /\ \A t \in Testers : WF_vars(TestStep(t))
    /\ SF_vars(\E p \in Pools : p = currentpool /\ Fetch(p))
    /\ \A m \in Miners : SF_vars(GetWork(m)) /\ WF_vars(GiveUp(m))

FairSpec == Spec /\ Fairness

-----------------------------------------------------------------------------
Entries == [block : 0 .. MaxBlock, order : Nat]

TypeOK ==
    /\ net \in [Pools -> 1 .. MaxBlock] /\ block_id \in [Pools -> 0 .. MaxBlock]
    /\ blocks \subseteq Entries /\ currentblk \in 0 .. MaxBlock /\ new_blocks \in Nat
    /\ currentpool \in Pools
    /\ pc \in [Testers -> {"idle", "lookup", "new", "add", "set", "restart",
                           "return"}]
    /\ work \in [Testers -> Works \cup {NoWork}]
    /\ \A t \in Testers : pc[t] = "idle" <=> work[t] = NoWork
    /\ kind \in [Testers -> {"stage", "lpstage", "longpoll", "converted", "clean",
                             "found"}]
    /\ order \in [Testers -> Nat]
    /\ mining \in [Miners -> Works \cup {NoWork}] /\ work_restart \subseteq Miners
    /\ staged \subseteq Works
    /\ miscounted \in BOOLEAN /\ forgotten \subseteq Pools
    /\ events \in Nat

Untold(m) ==
    /\ mining[m] # NoWork /\ m \notin work_restart
    /\ OtherBlock(mining[m]) /\ (OptFailOnly => mining[m].pool = currentpool)

\* Nobody mines for a block that is over without having been told, when the threads
\* that changed the block are through with restart_threads.  Failover-only, this is
\* said of the current pool's works.  It holds while new_blocks counts the blocks
\* (test_work_current takes a count of 1 for the first block, before which nothing is
\* mined), and but for works of a pool whose block switch_pools has forgotten: the next
\* one it has restarts nothing.
RestartReachesMiners ==
    \/ miscounted
    \/ \E t \in Testers : pc[t] = "restart"
    \/ \A m \in Miners : Untold(m) => mining[m].pool \in forgotten

\* The miner keeps returning to the block its current pool works on, if no count of
\* blocks was lost; failover-only, to works of that pool.
ForLatest(w) ==
    w.block = net[currentpool] /\ (OptFailOnly => w.pool = currentpool)
MinesLatestBlock ==
    []<>(miscounted \/ \E m \in Miners : ForLatest(mining[m]))
=============================================================================
