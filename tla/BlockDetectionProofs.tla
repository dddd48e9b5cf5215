------------------------ MODULE BlockDetectionProofs ------------------------
(***************************************************************************)
(* Why restart_threads reaches every thread that mines for a block that is *)
(* over, for any pools, miners, blocks and changes of the current pool.    *)
(* Two things make it so: before the second block all works are for the    *)
(* first, and a pool whose block is unknown, and was never forgotten, has  *)
(* no work that has passed test_work_current.                              *)
(***************************************************************************)
EXTENDS BlockDetection, FiniteSetTheorems, TLAPS

NothingTested ==
    /\ blocks = {Dummy} /\ staged = {}
    /\ \A t \in Testers : pc[t] \in {"idle", "lookup", "new"}
    /\ \A m \in Miners : mining[m] = NoWork

OnlyBlock(b) ==
    /\ \A e \in blocks : e.block \in {0, b}
    /\ \A w \in staged : w.block = b
    /\ \A t \in Testers : pc[t] \in {"add", "set", "restart", "return"} => work[t].block = b
    /\ \A m \in Miners : mining[m] # NoWork => mining[m].block = b

\* While new_blocks is exact, it tells no block and the first from the others.
FirstBlock ==
    \/ miscounted \/ new_blocks \notin {0, 1}
    \/ new_blocks = 0 /\ NothingTested
    \/ new_blocks = 1 /\ \E b \in 1 .. MaxBlock : OnlyBlock(b)

\* A pool without a block has no tested work.
NeverTested ==
    \A p \in Pools : p \notin forgotten /\ block_id[p] = 0 =>
        /\ \A w \in staged : w.pool # p
        /\ \A t \in Testers : pc[t] \in {"restart", "return"} => work[t].pool # p
        /\ \A m \in Miners : mining[m].pool # p

IInv == TypeOK /\ FirstBlock /\ NeverTested /\ RestartReachesMiners

-----------------------------------------------------------------------------
(* Facts about pools and works.                                            *)

\* Of one pool there are no two.
LEMMA OnePool ==
    ASSUME Cardinality(Pools) = 1, NEW p \in Pools, NEW q \in Pools
    PROVE  p = q
<1>1. IsFiniteSet(Pools) BY BlockAssumption
<1>2. /\ IsFiniteSet(Pools \ {p})
      /\ Cardinality(Pools \ {p}) = Cardinality(Pools) - 1
    BY <1>1, FS_RemoveElement
<1>3. Pools \ {p} = {} BY <1>2, FS_EmptySet
<1> QED BY <1>3

\* A work to test is of a pool and a block.
LEMMA TestedWork ==
    ASSUME TypeOK, NEW t \in Testers, pc[t] # "idle"
    PROVE  /\ work[t] \in Works /\ work[t].pool \in Pools
           /\ work[t].block \in 1 .. MaxBlock /\ work[t].block # 0
<1>1. work[t] \in Works BY DEF TypeOK
<1> QED BY <1>1, BlockAssumption DEF Works

\* NoWork is of no pool.
LEMMA NoWorkPool ==
    /\ NoWork \notin Works /\ NoWork.pool \notin Pools
    /\ \A w \in Works : w.pool \in Pools /\ w.block \in 1 .. MaxBlock
BY BlockAssumption DEF NoWork, Works

\* Threads that watch a pool, or the scheduler, can test works.
LEMMA TesterSets ==
    /\ Watched \subseteq Testers /\ "main" \in Testers /\ Watched \subseteq Pools
BY BlockAssumption DEF Watched, Testers

\* A block once in the table is that of an entry.
LEMMA RemainingSubset == ASSUME NEW kept \in Remaining PROVE kept \subseteq blocks
BY DEF Remaining

\* Counts read are numbers.
LEMMA CountsType == ASSUME TypeOK PROVE CountsRead \subseteq Nat
BY DEF CountsRead, TypeOK

-----------------------------------------------------------------------------
(* The type invariant.                                                     *)

\* A caller of test_work_current marks its kind.
LEMMA UnmarkedType ==
    ASSUME NEW k \in {"stage", "lpstage", "longpoll", "converted", "clean", "found"}
    PROVE  Unmarked(k) \in {"stage", "lpstage", "longpoll", "converted", "clean", "found"}
BY DEF Unmarked

\* Every step keeps the types.
LEMMA TypeStep == TypeOK /\ [Next]_vars => TypeOK'
<1> SUFFICES ASSUME TypeOK, [Next]_vars PROVE TypeOK' OBVIOUS
<1> USE DEF TypeOK, tableVars, testVars, minerVars, historyVars
<1>0. CASE UNCHANGED vars BY <1>0 DEF vars
<1>1. ASSUME NEW t \in Testers, LookUp(t) PROVE TypeOK'
    BY <1>1, TestedWork DEF LookUp
<1>2. ASSUME NEW t \in Testers, TakeOrder(t) PROVE TypeOK'
    BY <1>2, TestedWork, CountsType DEF TakeOrder
<1>3. ASSUME NEW t \in Testers, AddBlock(t) PROVE TypeOK'
    BY <1>3, TestedWork, RemainingSubset DEF AddBlock, Entries
<1>4. ASSUME NEW t \in Testers, SetCurrent(t) PROVE TypeOK'
    BY <1>4, TestedWork, UnmarkedType DEF SetCurrent
<1>5. ASSUME NEW t \in Testers, UpdatePool(t) PROVE TypeOK'
    BY <1>5, TestedWork, UnmarkedType DEF UpdatePool
<1>6. ASSUME NEW t \in Testers, RestartThreads(t) PROVE TypeOK'
    BY <1>6, TestedWork DEF RestartThreads
<1>7. ASSUME NEW t \in Testers, Stage(t) PROVE TypeOK'
    BY <1>7, TestedWork DEF Stage, Returning, Done
<1>8. ASSUME NEW t \in Testers, ConvertToWork(t) PROVE TypeOK'
    BY <1>8, TestedWork DEF ConvertToWork, Returning, Done
<1>9. ASSUME NEW t \in Testers, NotifyTested(t) PROVE TypeOK'
    BY <1>9, TestedWork DEF NotifyTested, Returning, Done
<1>10. ASSUME NEW p \in Watched, Watch(p) PROVE TypeOK'
    BY <1>10, TesterSets, NoWorkPool DEF Watch, Begin, Works
<1>11. ASSUME NEW p \in Watched, FoundBlock(p) PROVE TypeOK'
  <2>1. p \in Testers /\ p \in Pools BY TesterSets
  <2>2. net[p] + 1 \in 1 .. MaxBlock
    BY <1>11, <2>1, BlockAssumption DEF FoundBlock
  <2>3. [pool |-> p, block |-> net[p] + 1] \in Works BY <2>1, <2>2 DEF Works
  <2> QED
    BY <1>11, <2>1, <2>3, NoWorkPool
    DEF FoundBlock, Begin
<1>12. ASSUME NEW p \in Pools, Fetch(p) PROVE TypeOK'
    BY <1>12, TesterSets, NoWorkPool DEF Fetch, Begin, Works
<1>13. ASSUME NEW p \in Pools, NewBlock(p) PROVE TypeOK'
    BY <1>13 DEF NewBlock
<1>14. ASSUME NEW p \in Pools, SwitchPools(p) PROVE TypeOK'
  <2>1. staged' \subseteq staged /\ forgotten' \subseteq forgotten \cup {p}
    BY <1>14 DEF SwitchPools
  <2>2. block_id' \in [Pools -> 0 .. MaxBlock]
    BY <1>14, BlockAssumption DEF SwitchPools
  <2>3. events' \in Nat /\ currentpool' \in Pools BY <1>14 DEF SwitchPools
  <2> QED
    BY <1>14, <2>1, <2>2, <2>3 DEF SwitchPools
<1>15. ASSUME NEW m \in Miners, GetWork(m) PROVE TypeOK'
    BY <1>15 DEF GetWork
<1>16. ASSUME NEW m \in Miners, GiveUp(m) PROVE TypeOK'
    BY <1>16 DEF GiveUp
<1>17. ASSUME ZeroStats PROVE TypeOK'
    BY <1>17 DEF ZeroStats
<1> QED
    BY <1>0, <1>1, <1>2, <1>3, <1>4, <1>5, <1>6, <1>7, <1>8, <1>9, <1>10,
       <1>11, <1>12, <1>13, <1>14, <1>15, <1>16, <1>17
    DEF Next, TestStep

-----------------------------------------------------------------------------
(* A pool without a block has no tested work.                              *)

\* A step leaves no tested work to a pool without a block, but for a forgotten one.
LEMMA NeverTestedStep == TypeOK /\ NeverTested /\ [Next]_vars => NeverTested'
<1> SUFFICES ASSUME TypeOK, NeverTested, [Next]_vars PROVE NeverTested' OBVIOUS
<1> USE DEF NeverTested, TypeOK, tableVars, testVars, minerVars, historyVars
<1>0. CASE UNCHANGED vars BY <1>0 DEF vars
<1>1. ASSUME NEW t \in Testers, LookUp(t) PROVE NeverTested'
    BY <1>1 DEF LookUp
<1>2. ASSUME NEW t \in Testers, TakeOrder(t) PROVE NeverTested'
    BY <1>2 DEF TakeOrder
<1>3. ASSUME NEW t \in Testers, AddBlock(t) PROVE NeverTested'
    BY <1>3 DEF AddBlock
<1>4. ASSUME NEW t \in Testers, SetCurrent(t) PROVE NeverTested'
    BY <1>4, TestedWork DEF SetCurrent
<1>5. ASSUME NEW t \in Testers, UpdatePool(t) PROVE NeverTested'
    BY <1>5, TestedWork DEF UpdatePool
<1>6. ASSUME NEW t \in Testers, RestartThreads(t) PROVE NeverTested'
    BY <1>6 DEF RestartThreads
<1>7. ASSUME NEW t \in Testers, Stage(t) PROVE NeverTested'
    BY <1>7 DEF Stage, Returning, Done
<1>8. ASSUME NEW t \in Testers, ConvertToWork(t) PROVE NeverTested'
    BY <1>8 DEF ConvertToWork, Returning, Done
<1>9. ASSUME NEW t \in Testers, NotifyTested(t) PROVE NeverTested'
    BY <1>9, TestedWork, NoWorkPool DEF NotifyTested, Returning, Done
<1>10. ASSUME NEW p \in Watched, Watch(p) PROVE NeverTested'
    BY <1>10, TesterSets DEF Watch, Begin
<1>11. ASSUME NEW p \in Watched, FoundBlock(p) PROVE NeverTested'
    BY <1>11, TesterSets DEF FoundBlock, Begin
<1>12. ASSUME NEW p \in Pools, Fetch(p) PROVE NeverTested'
    BY <1>12, TesterSets DEF Fetch, Begin
<1>13. ASSUME NEW p \in Pools, NewBlock(p) PROVE NeverTested'
    BY <1>13 DEF NewBlock
<1>14. ASSUME NEW p \in Pools, SwitchPools(p) PROVE NeverTested'
    BY <1>14 DEF SwitchPools
<1>15. ASSUME NEW m \in Miners, GetWork(m) PROVE NeverTested'
    BY <1>15, NoWorkPool DEF GetWork
<1>16. ASSUME NEW m \in Miners, GiveUp(m) PROVE NeverTested'
    BY <1>16, NoWorkPool DEF GiveUp
<1>17. ASSUME ZeroStats PROVE NeverTested'
    BY <1>17 DEF ZeroStats
<1> QED
    BY <1>0, <1>1, <1>2, <1>3, <1>4, <1>5, <1>6, <1>7, <1>8, <1>9, <1>10,
       <1>11, <1>12, <1>13, <1>14, <1>15, <1>16, <1>17
    DEF Next, TestStep

-----------------------------------------------------------------------------
(* The first block.                                                        *)

\* The count of blocks tells no block and the first from the others.
LEMMA FirstBlockStep == TypeOK /\ FirstBlock /\ [Next]_vars => FirstBlock'
<1> SUFFICES ASSUME TypeOK, FirstBlock, [Next]_vars PROVE FirstBlock' OBVIOUS
<1> USE DEF FirstBlock, NothingTested, OnlyBlock, TypeOK, tableVars, testVars, minerVars, historyVars
<1>0. CASE UNCHANGED vars BY <1>0 DEF vars
<1>1. ASSUME NEW t \in Testers, LookUp(t) PROVE FirstBlock'
    BY <1>1 DEF LookUp
<1>2. ASSUME NEW t \in Testers, TakeOrder(t) PROVE FirstBlock'
  <2>1. PICK n \in CountsRead :
          new_blocks' = n + 1 /\ miscounted' = (miscounted \/ n # new_blocks)
    BY <1>2 DEF TakeOrder
  <2>2. n \in Nat BY <2>1, CountsType
  <2>3. CASE miscounted' BY <2>3
  <2>4. CASE new_blocks' \notin {0, 1} BY <2>4
  <2>5. CASE ~miscounted' /\ new_blocks' \in {0, 1}
    <3>0. ~miscounted /\ n = new_blocks BY <2>1, <2>5, Zenon
    <3>1. ~miscounted /\ new_blocks = 0 BY <2>1, <2>2, <2>5, <3>0
    <3>2. NothingTested BY <3>1
    <3>3. new_blocks' = 1 BY <2>1, <3>0, <3>1
    <3>4. work[t].block \in 1 .. MaxBlock BY <1>2, TestedWork DEF TakeOrder
    <3>5. OnlyBlock(work[t].block)'
      BY <1>2, <3>2 DEF TakeOrder, Dummy, minerVars
    <3>6. work' = work BY <1>2 DEF TakeOrder
    <3> QED BY <3>3, <3>4, <3>5, <3>6
  <2> QED BY <2>3, <2>4, <2>5
<1>3. ASSUME NEW t \in Testers, AddBlock(t) PROVE FirstBlock'
    BY <1>3, TestedWork, RemainingSubset DEF AddBlock
<1>4. ASSUME NEW t \in Testers, SetCurrent(t) PROVE FirstBlock'
    BY <1>4, TestedWork DEF SetCurrent
<1>5. ASSUME NEW t \in Testers, UpdatePool(t) PROVE FirstBlock'
    BY <1>5, TestedWork DEF UpdatePool, Known, Dummy
<1>6. ASSUME NEW t \in Testers, RestartThreads(t) PROVE FirstBlock'
    BY <1>6 DEF RestartThreads
<1>7. ASSUME NEW t \in Testers, Stage(t) PROVE FirstBlock'
    BY <1>7 DEF Stage, Returning, Done
<1>8. ASSUME NEW t \in Testers, ConvertToWork(t) PROVE FirstBlock'
    BY <1>8 DEF ConvertToWork, Returning, Done
<1>9. ASSUME NEW t \in Testers, NotifyTested(t) PROVE FirstBlock'
    BY <1>9, TestedWork, NoWorkPool DEF NotifyTested, Returning, Done
<1>10. ASSUME NEW p \in Watched, Watch(p) PROVE FirstBlock'
    BY <1>10, TesterSets DEF Watch, Begin
<1>11. ASSUME NEW p \in Watched, FoundBlock(p) PROVE FirstBlock'
    BY <1>11, TesterSets DEF FoundBlock, Begin
<1>12. ASSUME NEW p \in Pools, Fetch(p) PROVE FirstBlock'
    BY <1>12, TesterSets DEF Fetch, Begin
<1>13. ASSUME NEW p \in Pools, NewBlock(p) PROVE FirstBlock'
    BY <1>13 DEF NewBlock
<1>14. ASSUME NEW p \in Pools, SwitchPools(p) PROVE FirstBlock'
    BY <1>14 DEF SwitchPools
<1>15. ASSUME NEW m \in Miners, GetWork(m) PROVE FirstBlock'
    BY <1>15, NoWorkPool DEF GetWork
<1>16. ASSUME NEW m \in Miners, GiveUp(m) PROVE FirstBlock'
    BY <1>16, NoWorkPool DEF GiveUp
<1>17. ASSUME ZeroStats PROVE FirstBlock'
    BY <1>17 DEF ZeroStats
<1> QED
    BY <1>0, <1>1, <1>2, <1>3, <1>4, <1>5, <1>6, <1>7, <1>8, <1>9, <1>10,
       <1>11, <1>12, <1>13, <1>14, <1>15, <1>16, <1>17
    DEF Next, TestStep

-----------------------------------------------------------------------------
(* restart_threads reaches the miners.                                     *)

\* A step that leaves the miners and what works are judged by as they are, and takes no
\* thread out of restart_threads.
SameJudgement ==
    /\ minerVars' = minerVars /\ block_id' = block_id /\ currentblk' = currentblk
    /\ currentpool' = currentpool /\ forgotten' = forgotten
    /\ \A t \in Testers : pc[t] = "restart" => pc'[t] = "restart"
    /\ miscounted => miscounted'

\* Such a step tells no miner's work to be over.
LEMMA JudgementKept ==
    ASSUME RestartReachesMiners, SameJudgement
    PROVE  RestartReachesMiners'
<1>1. \A m \in Miners : Untold(m)' => Untold(m)
    BY DEF SameJudgement, Untold, OtherBlock, minerVars
<1>2. \A m \in Miners : mining'[m] = mining[m] BY DEF SameJudgement, minerVars
<1>3. CASE miscounted BY <1>3 DEF SameJudgement, RestartReachesMiners
<1>4. CASE \E t \in Testers : pc[t] = "restart"
    BY <1>4 DEF SameJudgement, RestartReachesMiners
<1>5. CASE \A m \in Miners : Untold(m) => mining[m].pool \in forgotten
    BY <1>1, <1>2, <1>5 DEF SameJudgement, RestartReachesMiners
<1> QED BY <1>3, <1>4, <1>5 DEF RestartReachesMiners

\* The first block is that of every work, and the current one; a later block
\* restarts the threads.
LEMMA SetCurrentTells ==
    ASSUME TypeOK, FirstBlock, RestartReachesMiners, NEW t \in Testers, SetCurrent(t)
    PROVE  RestartReachesMiners'
<1>1. CASE new_blocks # 1
    <2>1. pc'[t] = "restart" BY <1>1 DEF SetCurrent, TypeOK
    <2> QED BY <2>1 DEF RestartReachesMiners
<1>2. CASE miscounted BY <1>2 DEF SetCurrent, RestartReachesMiners
<1>3. CASE new_blocks = 1 /\ ~miscounted
    <2>1. PICK b \in 1 .. MaxBlock : OnlyBlock(b) BY <1>3 DEF FirstBlock
    <2>2. work[t].block = b BY <2>1 DEF OnlyBlock, SetCurrent
    <2>3. /\ \A u \in Testers : pc[u] = "restart" => pc'[u] = "restart"
          /\ mining' = mining /\ work_restart' = work_restart /\ currentblk' = b
          /\ currentpool' = currentpool /\ forgotten' = forgotten
          /\ \A p \in Pools : block_id'[p] \in {block_id[p], b}
      BY <1>3, <2>2 DEF SetCurrent, TypeOK, minerVars, historyVars
    <2>4. ASSUME NEW m \in Miners, Untold(m)' PROVE Untold(m)
      <3>1. mining[m] # NoWork /\ mining[m] \in Works
        BY <2>3, <2>4 DEF Untold, TypeOK
      <3>2. mining[m].block = b /\ mining[m].pool \in Pools
        BY <2>1, <3>1, NoWorkPool DEF OnlyBlock
      <3> QED BY <2>3, <2>4, <3>1, <3>2 DEF Untold, OtherBlock
    <2>5. CASE \E u \in Testers : pc[u] = "restart"
      BY <2>3, <2>5 DEF RestartReachesMiners
    <2>6. CASE \A m \in Miners : Untold(m) => mining[m].pool \in forgotten
      BY <2>3, <2>4, <2>6 DEF RestartReachesMiners
    <2> QED BY <1>3, <2>5, <2>6 DEF RestartReachesMiners
<1> QED BY <1>1, <1>2, <1>3

\* A pool that changes to a known block has no tested work, or restarts the threads, or
\* was forgotten, or is not the pool mined for.
LEMMA UpdatePoolTells ==
    ASSUME TypeOK, NeverTested, RestartReachesMiners, NEW t \in Testers, UpdatePool(t)
    PROVE  RestartReachesMiners'
<1> DEFINE p == work[t].pool
<1> DEFINE b == work[t].block
<1>1. p \in Pools /\ b # 0 BY TestedWork DEF UpdatePool
<1>2. /\ \A u \in Testers : pc[u] = "restart" => pc'[u] = "restart"
      /\ mining' = mining /\ work_restart' = work_restart /\ currentblk' = currentblk
      /\ currentpool' = currentpool /\ forgotten' = forgotten
      /\ miscounted' = miscounted
      /\ block_id'[p] = b /\ \A q \in Pools \ {p} : block_id'[q] = block_id[q]
    BY <1>1 DEF UpdatePool, TypeOK, minerVars, tableVars, historyVars
<1>3. CASE pc'[t] = "restart" BY <1>3 DEF RestartReachesMiners
<1>4. CASE pc'[t] # "restart"
    <2>1. p # currentpool \/ block_id[p] \in {0, b}
      BY <1>4 DEF UpdatePool, TypeOK
    <2>2. ASSUME NEW m \in Miners, Untold(m)' PROVE Untold(m) \/ mining[m].pool \in forgotten
      <3>1. mining[m] # NoWork /\ mining[m] \in Works /\ mining[m].pool \in Pools
        BY <1>2, <2>2, NoWorkPool DEF Untold, TypeOK
      <3>2. CASE mining[m].pool # p
        BY <1>2, <2>2, <3>1, <3>2 DEF Untold, OtherBlock
      <3>3. CASE ~(OptFailOnly \/ Cardinality(Pools) = 1)
        BY <1>2, <2>2, <3>1, <3>3 DEF Untold, OtherBlock
      <3>4. CASE mining[m].pool = p /\ (OptFailOnly \/ Cardinality(Pools) = 1)
        <4>1. p = currentpool
          <5>1. CASE OptFailOnly BY <1>2, <2>2, <3>4, <5>1 DEF Untold
          <5>2. CASE Cardinality(Pools) = 1 BY <1>1, <5>2, OnePool DEF TypeOK
          <5> QED BY <3>4, <5>1, <5>2
        <4>2. block_id[p] \in {0, b} BY <2>1, <4>1
        <4>3. CASE block_id[p] = b
          BY <1>2, <2>2, <3>1, <3>4, <4>3 DEF Untold, OtherBlock
        <4>4. CASE block_id[p] = 0
          BY <1>1, <3>4, <4>4 DEF NeverTested
        <4> QED BY <4>2, <4>3, <4>4
      <3> QED BY <3>2, <3>3, <3>4
    <2>3. CASE miscounted BY <1>2, <2>3 DEF RestartReachesMiners
    <2>4. CASE \E u \in Testers : pc[u] = "restart"
      BY <1>2, <2>4 DEF RestartReachesMiners
    <2>5. CASE \A m \in Miners : Untold(m) => mining[m].pool \in forgotten
      BY <1>2, <2>2, <2>5 DEF RestartReachesMiners
    <2> QED BY <2>3, <2>4, <2>5 DEF RestartReachesMiners
<1> QED BY <1>3, <1>4

\* The pool switched to has no block that its works could differ from.
LEMMA SwitchPoolsTells ==
    ASSUME TypeOK, RestartReachesMiners, NEW p \in Pools, SwitchPools(p)
    PROVE  RestartReachesMiners'
<1>1. /\ pc' = pc /\ mining' = mining /\ work_restart' = work_restart
      /\ currentblk' = currentblk /\ miscounted' = miscounted
      /\ currentpool' = p /\ p # currentpool
      /\ forgotten \subseteq forgotten' /\ block_id'[p] = 0
    BY DEF SwitchPools, TypeOK, testVars, minerVars, tableVars
<1>2. Cardinality(Pools) # 1 BY <1>1, OnePool DEF TypeOK
<1>3. ASSUME NEW m \in Miners, Untold(m)' PROVE Untold(m)
    <2>1. CASE OptFailOnly BY <1>1, <1>3, <2>1 DEF Untold, OtherBlock
    <2>2. CASE ~OptFailOnly BY <1>1, <1>2, <1>3, <2>2 DEF Untold, OtherBlock
    <2> QED BY <2>1, <2>2
<1>4. CASE miscounted BY <1>1, <1>4 DEF RestartReachesMiners
<1>5. CASE \E t \in Testers : pc[t] = "restart" BY <1>1, <1>5 DEF RestartReachesMiners
<1>6. CASE \A m \in Miners : Untold(m) => mining[m].pool \in forgotten
    BY <1>1, <1>3, <1>6 DEF RestartReachesMiners
<1> QED BY <1>4, <1>5, <1>6 DEF RestartReachesMiners

\* A thread takes no work that is over, and drops its mark only with its work.
LEMMA MinerTells ==
    ASSUME TypeOK, RestartReachesMiners, NEW m \in Miners, GetWork(m) \/ GiveUp(m)
    PROVE  RestartReachesMiners'
<1>1. /\ pc' = pc /\ block_id' = block_id /\ currentblk' = currentblk
      /\ currentpool' = currentpool /\ forgotten' = forgotten
      /\ miscounted' = miscounted
      /\ \A n \in Miners \ {m} :
           mining'[n] = mining[n] /\ (n \in work_restart <=> n \in work_restart')
    BY DEF GetWork, GiveUp, TypeOK, testVars, tableVars, historyVars
<1>2. mining'[m] = NoWork \/ ~Stale(mining'[m])
    BY DEF GetWork, GiveUp, TypeOK
<1>3. ~Untold(m)' BY <1>1, <1>2 DEF Untold, OtherBlock, Stale
<1>4. \A n \in Miners : Untold(n)' => Untold(n) /\ mining'[n] = mining[n]
    BY <1>1, <1>3 DEF Untold, OtherBlock
<1>5. CASE miscounted BY <1>1, <1>5 DEF RestartReachesMiners
<1>6. CASE \E t \in Testers : pc[t] = "restart" BY <1>1, <1>6 DEF RestartReachesMiners
<1>7. CASE \A n \in Miners : Untold(n) => mining[n].pool \in forgotten
    BY <1>1, <1>4, <1>7 DEF RestartReachesMiners
<1> QED BY <1>5, <1>6, <1>7 DEF RestartReachesMiners

\* Every step keeps the miners told.
LEMMA RestartStep ==
    TypeOK /\ FirstBlock /\ NeverTested /\ RestartReachesMiners /\ [Next]_vars
        => RestartReachesMiners'
<1> SUFFICES ASSUME TypeOK, FirstBlock, NeverTested, RestartReachesMiners, [Next]_vars
             PROVE  RestartReachesMiners'
    OBVIOUS
<1> USE DEF SameJudgement, TypeOK
<1>0. CASE UNCHANGED vars
    BY <1>0, JudgementKept DEF vars, tableVars, testVars, historyVars
<1>1. ASSUME NEW t \in Testers, LookUp(t) PROVE RestartReachesMiners'
    BY <1>1, JudgementKept DEF LookUp, tableVars, testVars, historyVars
<1>2. ASSUME NEW t \in Testers, TakeOrder(t) PROVE RestartReachesMiners'
    BY <1>2, JudgementKept DEF TakeOrder, tableVars, testVars, historyVars
<1>3. ASSUME NEW t \in Testers, AddBlock(t) PROVE RestartReachesMiners'
    BY <1>3, JudgementKept DEF AddBlock, tableVars, testVars, historyVars
<1>4. ASSUME NEW p \in Watched, Watch(p) PROVE RestartReachesMiners'
    BY <1>4, JudgementKept DEF Watch, Begin, tableVars, testVars, historyVars
<1>5. ASSUME NEW p \in Watched, FoundBlock(p) PROVE RestartReachesMiners'
    BY <1>5, JudgementKept DEF FoundBlock, Begin, tableVars, testVars, historyVars
<1>6. ASSUME NEW p \in Pools, Fetch(p) PROVE RestartReachesMiners'
    BY <1>6, JudgementKept DEF Fetch, Begin, tableVars, testVars, historyVars
<1>7. ASSUME NEW p \in Pools, NewBlock(p) PROVE RestartReachesMiners'
    BY <1>7, JudgementKept DEF NewBlock, tableVars, testVars, historyVars
<1>8. ASSUME NEW t \in Testers, Stage(t) PROVE RestartReachesMiners'
    BY <1>8, JudgementKept DEF Stage, Returning, Done, tableVars, testVars, historyVars
<1>9. ASSUME NEW t \in Testers, ConvertToWork(t) PROVE RestartReachesMiners'
    BY <1>9, JudgementKept DEF ConvertToWork, Returning, Done, tableVars, testVars, historyVars
<1>10. ASSUME NEW t \in Testers, NotifyTested(t) PROVE RestartReachesMiners'
    BY <1>10, JudgementKept DEF NotifyTested, Returning, Done, tableVars, testVars, historyVars
<1>11. ASSUME NEW t \in Testers, RestartThreads(t) PROVE RestartReachesMiners'
    BY <1>11 DEF RestartThreads, Untold, RestartReachesMiners
<1>12. CASE ZeroStats BY <1>12 DEF ZeroStats, RestartReachesMiners
<1> QED
    BY <1>0, <1>1, <1>2, <1>3, <1>4, <1>5, <1>6, <1>7, <1>8, <1>9, <1>10, <1>11, <1>12,
       SetCurrentTells, UpdatePoolTells, SwitchPoolsTells, MinerTells
    DEF Next, TestStep

-----------------------------------------------------------------------------
\* The initial state satisfies the inductive invariant.
LEMMA InitIInv == Init => IInv
<1> SUFFICES ASSUME Init PROVE IInv OBVIOUS
<1> USE DEF Init
<1>1. TypeOK
  <2>1. \A t \in Testers : pc[t] = "idle" /\ work[t] = NoWork OBVIOUS
  <2>2. net \in [Pools -> 1 .. MaxBlock] /\ block_id \in [Pools -> 0 .. MaxBlock]
    BY BlockAssumption
  <2>3. /\ blocks \subseteq Entries /\ currentblk \in 0 .. MaxBlock
        /\ new_blocks \in Nat /\ events \in Nat
    BY BlockAssumption DEF Dummy, Entries
  <2> QED BY <2>1, <2>2, <2>3 DEF TypeOK
<1>2. FirstBlock BY DEF FirstBlock, NothingTested
<1>3. NeverTested BY NoWorkPool DEF NeverTested
<1>4. RestartReachesMiners BY DEF RestartReachesMiners, Untold
<1> QED BY <1>1, <1>2, <1>3, <1>4 DEF IInv

\* The inductive invariant holds in every reachable state.
LEMMA AlwaysIInv == Spec => []IInv
<1>1. IInv /\ [Next]_vars => IInv'
    BY TypeStep, FirstBlockStep, NeverTestedStep, RestartStep DEF IInv
<1> QED BY InitIInv, <1>1, PTL DEF Spec

\* test_work_current, its callers and switch_pools keep the blocks, the counts and the
\* works well-typed, and a thread has a work to test exactly while it is in
\* test_work_current or on its way out of it.
THEOREM BlockTypeCorrect == Spec => []TypeOK
<1>1. IInv => TypeOK BY DEF IInv
<1> QED BY AlwaysIInv, <1>1, PTL

\* When the threads that changed the block are through with restart_threads, nobody mines
\* for a block that is over without having been told, while new_blocks is exact and but
\* for pools whose block switch_pools has forgotten.
THEOREM RestartsCorrect == Spec => []RestartReachesMiners
<1>1. IInv => RestartReachesMiners BY DEF IInv
<1> QED BY AlwaysIInv, <1>1, PTL
=============================================================================
