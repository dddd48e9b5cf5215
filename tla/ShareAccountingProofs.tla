----------------------- MODULE ShareAccountingProofs -----------------------
(***************************************************************************)
(* The variables of ShareSubmission keep their types and the counters of   *)
(* the submit thread are exact, for every value of the constants: wip, the *)
(* AS counter, the pools' curl handles, and what is left when the thread   *)
(* exits.                                                                  *)
(***************************************************************************)
EXTENDS ShareSubmission, FiniteSetTheorems, SequenceTheorems, TLAPS

-----------------------------------------------------------------------------
(* Sequences.                                                              *)

\* Unlinking a submission from write_sws (*swsp = sws->next).
LEMMA RemoveAtProperties ==
  ASSUME NEW S, NEW s \in Seq(S), NEW i \in 1 .. Len(s)
  PROVE  /\ RemoveAt(s, i) \in Seq(S)
         /\ Len(RemoveAt(s, i)) = Len(s) - 1
<1>. DEFINE front == SubSeq(s, 1, i - 1)
            back  == SubSeq(s, i + 1, Len(s))
<1>0. Len(s) \in Nat /\ i \in Nat
  BY LenProperties
<1>1. front \in Seq(S) /\ Len(front) = i - 1
  <2>1. \A j \in 1 .. i - 1 : s[j] \in S
    BY ElementOfSeq
  <2>. QED BY <2>1, SubSeqProperties
<1>2. back \in Seq(S) /\ Len(back) = Len(s) - i
  <2>1. \A j \in i + 1 .. Len(s) : s[j] \in S
    BY ElementOfSeq
  <2>. QED BY <2>1, <1>0, SubSeqProperties
<1>3. RemoveAt(s, i) = front \o back
  BY DEF RemoveAt
<1>. HIDE DEF front, back
<1>4. front \o back \in Seq(S) /\ Len(front \o back) = Len(front) + Len(back)
  BY <1>1, <1>2, ConcatProperties
<1>5. Len(front) + Len(back) = Len(s) - 1
  BY <1>0, <1>1, <1>2
<1>. QED BY <1>3, <1>4, <1>5

\* Pushing a submission on write_sws or sws_waiting_on_curl.
LEMMA ConsProperties ==
  ASSUME NEW S, NEW s \in Seq(S), NEW e \in S
  PROVE  /\ Cons(e, s) \in Seq(S)
         /\ Len(Cons(e, s)) = Len(s) + 1
         /\ \A i \in 1 .. Len(s) + 1 :
              Cons(e, s)[i] = IF i = 1 THEN e ELSE s[i - 1]
<1>. DEFINE one == <<e>>
<1>1. one \in Seq(S) /\ Len(one) = 1 /\ one[1] = e
  OBVIOUS
<1>2. Cons(e, s) = one \o s
  BY DEF Cons
<1>. HIDE DEF one
<1>3. /\ one \o s \in Seq(S)
      /\ Len(one \o s) = Len(one) + Len(s)
      /\ \A i \in 1 .. Len(one) + Len(s) : (one \o s)[i] =
            IF i <= Len(one) THEN one[i] ELSE s[i - Len(one)]
  BY <1>1, ConcatProperties
<1>. QED BY <1>1, <1>2, <1>3, LenProperties

-----------------------------------------------------------------------------
(* Types.                                                                  *)

\* What a step leaves alone keeps its type.
LEMMA TypeFrames ==
    /\ QueueType /\ UNCHANGED queueVars => QueueType'
    /\ MinerType /\ UNCHANGED minerVars => MinerType'
    /\ ThreadType /\ UNCHANGED threadVars => ThreadType'
    /\ RpcType /\ UNCHANGED rpcVars => RpcType'
    /\ HandleType /\ UNCHANGED handleVars => HandleType'
    /\ TableType /\ UNCHANGED tableVars => TableType'
    /\ ConnType /\ UNCHANGED connVars => ConnType'
    /\ PoolType /\ UNCHANGED poolVars => PoolType'
    /\ StratumType /\ UNCHANGED stratumVars => StratumType'
    /\ LedgerType /\ UNCHANGED ledgerVars => LedgerType'
  BY DEF QueueType, MinerType, ThreadType, RpcType, HandleType, TableType,
         ConnType, PoolType, StratumType, LedgerType, queueVars, minerVars,
         threadVars, rpcVars, handleVars, tableVars, connVars, poolVars,
         stratumVars, ledgerVars, fdVars, listVars, countVars

\* The submission under swsp is one of the shares.
LEMMA ScannedType ==
  ASSUME TypeOK, pos <= Len(write_sws)
  PROVE  /\ pos \in 1 .. Len(write_sws)
         /\ Scanned \in Shares /\ ScanPool \in Pools
<1>1. pos \in 1 .. Len(write_sws)
  BY LenProperties DEF TypeOK, ThreadType
<1>2. Scanned \in Shares
  BY <1>1, ElementOfSeq DEF TypeOK, ThreadType, Scanned
<1>. QED BY <1>1, <1>2, SubmissionAssumption DEF ScanPool, Pools

\* next_write_sws_del keeps the list a list of shares.
LEMMA DeleteScannedType ==
  ASSUME TypeOK, pos <= Len(write_sws), DeleteScanned
  PROVE  /\ write_sws' \in Seq(Shares) /\ Len(write_sws') = Len(write_sws) - 1
         /\ wfds' \subseteq StratumPools /\ wip' \in Int
  BY ScannedType, RemoveAtProperties DEF TypeOK, ThreadType, DeleteScanned

\* A finished transfer hands its curl handle over to a share of the same kind.
LEMMA FinishRpcType ==
  ASSUME NEW w \in Shares, TypeOK, FinishRpc(w), PoolOf[w] \in RpcPools,
         UNCHANGED <<pc, fdVars, listVars, sshare, work_stale, failures,
                     curls, getworking>>
  PROVE  ThreadType' /\ RpcType' /\ HandleType'
<1>. DEFINE queue == sws_waiting_on_curl[PoolOf[w]]
<1>1. queue \in Seq(RpcShares)
  BY DEF TypeOK, RpcType
<1>2. ThreadType'
  BY DEF TypeOK, ThreadType, FinishRpc, fdVars, listVars
<1>3. RpcType'
  <2>1. CASE queue = <<>>
    BY <2>1 DEF TypeOK, RpcType, FinishRpc
  <2>2. CASE queue # <<>>
    <3>1. Head(queue) \in RpcShares /\ Tail(queue) \in Seq(RpcShares)
      BY <1>1, <2>2, HeadTailProperties
    <3>. QED BY <2>2, <3>1 DEF TypeOK, RpcType, FinishRpc, RpcShares
  <2>. QED BY <2>1, <2>2
<1>4. HandleType'
  BY DEF TypeOK, HandleType, FinishRpc
<1>. QED BY <1>2, <1>3, <1>4

\* begin_submission for a stratum pool.
LEMMA BeginStratumType == TypeOK /\ BeginStratum => TypeOK'
<1>. SUFFICES ASSUME TypeOK, BeginStratum PROVE TypeOK'
  OBVIOUS
<1>1. /\ Head(submit_waiting) \in Shares
      /\ Tail(submit_waiting) \in Seq(Shares)
  BY HeadTailProperties DEF TypeOK, QueueType, BeginStratum
<1>2. QueueType'
  BY <1>1 DEF TypeOK, QueueType, BeginStratum
<1>3. ThreadType'
  <2>1. write_sws' \in Seq(Shares)
    BY <1>1, ConsProperties DEF TypeOK, ThreadType, BeginStratum
  <2>. QED BY <2>1 DEF TypeOK, ThreadType, BeginStratum, fdVars
<1>. QED
  BY <1>2, <1>3, TypeFrames
  DEF TypeOK, BeginStratum, stratumSide, curlVars

\* begin_submission for a JSON-RPC pool.
LEMMA BeginRpcType == TypeOK /\ BeginRpc => TypeOK'
<1>. SUFFICES ASSUME TypeOK, BeginRpc PROVE TypeOK'
  OBVIOUS
<1>. DEFINE w == Head(submit_waiting)
            p == PoolOf[w]
<1>1. w \in Shares /\ Tail(submit_waiting) \in Seq(Shares)
  BY HeadTailProperties DEF TypeOK, QueueType, BeginRpc
<1>2. QueueType'
  BY <1>1 DEF TypeOK, QueueType, BeginRpc
<1>3. ThreadType'
  BY DEF TypeOK, ThreadType, BeginRpc, fdVars, listVars
<1>4. p \in RpcPools
  BY <1>1, SubmissionAssumption DEF BeginRpc, StratumShares
<1>5. RpcType'
  <2>1. Cons(w, sws_waiting_on_curl[p]) \in Seq(RpcShares)
    BY <1>1, <1>4, ConsProperties DEF TypeOK, RpcType, RpcShares
  <2>2. xfer' \in [Shares -> {"none", "queued", "running", "replied", "failed"}]
    BY DEF TypeOK, RpcType, BeginRpc
  <2>3. sws_waiting_on_curl' \in [RpcPools -> Seq(RpcShares)]
    BY <1>4, <2>1 DEF TypeOK, RpcType, BeginRpc
  <2>4. \A v \in Shares : xfer'[v] # "none" => v \in RpcShares
    BY <1>1, <1>4 DEF TypeOK, RpcType, BeginRpc, RpcShares
  <2>. QED
    BY <1>1, <2>2, <2>3, <2>4 DEF TypeOK, RpcType, BeginRpc
<1>6. HandleType'
  BY <1>4 DEF TypeOK, HandleType, BeginRpc
<1>. QED
  BY <1>2, <1>3, <1>5, <1>6, TypeFrames DEF TypeOK, BeginRpc, stratumSide

\* A share of another session is discarded.
LEMMA DiscardOtherSessionType == TypeOK /\ DiscardOtherSession => TypeOK'
<1>. SUFFICES ASSUME TypeOK, DiscardOtherSession PROVE TypeOK'
  OBVIOUS
<1>1. pos <= Len(write_sws)
  BY DEF DiscardOtherSession, Scanning
<1>2. ThreadType'
  BY <1>1, DeleteScannedType
  DEF TypeOK, ThreadType, DiscardOtherSession, Scanning
<1>3. LedgerType'
  BY <1>1, ScannedType DEF TypeOK, LedgerType, DiscardOtherSession, Count
<1>. QED
  BY <1>2, <1>3, TypeFrames DEF TypeOK, DiscardOtherSession, stratumSide, curlVars

\* stratum_send succeeds.
LEMMA SendOkType == TypeOK /\ SendOk => TypeOK'
<1>. SUFFICES ASSUME TypeOK, SendOk PROVE TypeOK'
  OBVIOUS
<1>1. pos <= Len(write_sws)
  BY DEF TypeOK, ThreadType, SendOk
<1>2. ThreadType'
  BY <1>1, DeleteScannedType DEF TypeOK, ThreadType, SendOk, SubmitPCs
<1>3. ConnType'
  BY DEF TypeOK, ThreadType, ConnType, SendOk
<1>. QED
  BY <1>2, <1>3, TypeFrames DEF TypeOK, SendOk, curlVars

\* stratum_send returns false: the entry is to be undone, or is left behind.
LEMMA SendFailedType ==
  ASSUME TypeOK, pc \in {"send", "suspend"}, SendFailed, UNCHANGED <<counted,
         fdVars, listVars, countVars, sshare>>
  PROVE  ThreadType' /\ LedgerType' /\ submit_fail' \subseteq Pools
<1>1. pos <= Len(write_sws)
  BY DEF TypeOK, ThreadType
<1>2. ThreadType'
  BY DEF TypeOK, ThreadType, SendFailed, SubmitPCs, fdVars, listVars, countVars
<1>3. LedgerType' /\ submit_fail' \subseteq Pools
  BY <1>1, ScannedType DEF TypeOK, LedgerType, SendFailed
<1>. QED BY <1>2, <1>3

\* The entry was consumed by somebody else: the submission is dropped.
LEMMA UndoConsumedType == TypeOK /\ UndoConsumed => TypeOK'
<1>. SUFFICES ASSUME TypeOK, UndoConsumed PROVE TypeOK'
  OBVIOUS
<1>1. pos <= Len(write_sws)
  BY DEF TypeOK, ThreadType, UndoConsumed
<1>2. ThreadType'
  BY <1>1, DeleteScannedType DEF TypeOK, ThreadType, UndoConsumed, SubmitPCs
<1>. QED
  BY <1>2, TypeFrames
  DEF TypeOK, UndoConsumed, othersOfThread, stratumSide, curlVars

\* Closing a connection keeps the types of its state.
LEMMA CloseConnectionType ==
  ASSUME TypeOK, NEW p, CloseConnection(p) PROVE ConnType'
  BY DEF TypeOK, ConnType, TableType, CloseConnection, EntriesOf

\* Every step of every thread keeps the types.
LEMMA TypePreserved == TypeOK /\ [Next]_vars => TypeOK'
<1>. SUFFICES ASSUME TypeOK, [Next]_vars PROVE TypeOK'
  OBVIOUS
<1>. USE TypeFrames, SubmissionAssumption
     DEF TypeOK, submitSide, stratumSide, threadVars, curlVars,
         othersOfThread, othersOfStratum, othersOfConn, othersOfSend
<1>1. CASE KillWork
  BY <1>1 DEF KillWork, MinerType, QueueType, minerVars, queueVars
<1>2. CASE LockSubmitting
  BY <1>2 DEF LockSubmitting, ThreadType, QueueType, SubmitPCs, fdVars,
              listVars, countVars, queueVars
<1>3. CASE DiscardStale
  BY <1>3 DEF DiscardStale, QueueType, LedgerType, Count, queueVars,
              ledgerVars
<1>4. CASE BeginStratum
  BY <1>4, BeginStratumType
<1>5. CASE BeginRpc
  BY <1>5, BeginRpcType
<1>6. CASE UnlockSubmitting
  BY <1>6 DEF UnlockSubmitting, ThreadType, SubmitPCs, fdVars, listVars,
              countVars
<1>7. CASE Select
  BY <1>7 DEF Select, ThreadType, SubmitPCs, QueueType, queueVars, fdVars,
              listVars, countVars
<1>8. CASE SelectError
  BY <1>8 DEF SelectError, ThreadType, SubmitPCs, fdVars, listVars, countVars
<1>9. CASE SkipSubmission
  BY <1>9 DEF SkipSubmission, ThreadType, Scanning, fdVars, listVars,
              countVars
<1>10. CASE DiscardOtherSession
  BY <1>10, DiscardOtherSessionType
<1>11. CASE SessionMatches
  BY <1>11 DEF SessionMatches, ThreadType, SubmitPCs, ThreadMoves, Scanning,
               fdVars, listVars, countVars
<1>12. CASE AddStratumShare
  BY <1>12 DEF AddStratumShare, ThreadType, TableType, SubmitPCs, Entry,
               Scanned, fdVars, listVars, countVars, tableVars
<1>13. CASE SendOk
  BY <1>13, SendOkType
<1>14. CASE SendFails
  BY <1>14 DEF SendFails, ThreadType, SubmitPCs, ledgerVars, fdVars, listVars,
               countVars
<1>15. CASE SuspendAfterSend
  BY <1>15, SendFailedType, CloseConnectionType
  DEF SuspendAfterSend, ledgerVars
<1>16. CASE SendInactive
  BY <1>16, SendFailedType DEF SendInactive, ledgerVars
<1>17. CASE UndoConsumed
  BY <1>17, UndoConsumedType
<1>18. CASE EndScan
  BY <1>18 DEF EndScan, ThreadType, SubmitPCs, ThreadMoves, fdVars, listVars,
               countVars
<1>19. CASE EndRound
  BY <1>19 DEF EndRound, ThreadType, SubmitPCs, ThreadMoves, fdVars, listVars,
               countVars
<1>20. CASE \E e \in stratum_shares : UndoFound(e)
  <2>1. Scanned \in Shares /\ \A e \in stratum_shares : e.work \in Shares
    BY <1>20, ScannedType DEF UndoFound, ThreadType, TableType, Entry
  <2>2. LedgerType'
    BY <1>20, <2>1 DEF UndoFound, LedgerType
  <2>. QED
    BY <1>20, <2>2 DEF UndoFound, ThreadType, TableType, SubmitPCs, fdVars, listVars,
                       countVars, tableVars
<1>21. ASSUME NEW w \in Shares, RpcAnswered(w) PROVE TypeOK'
  <2>1. PoolOf[w] \in RpcPools
    BY <1>21 DEF RpcAnswered, RpcType, RpcShares
  <2>2. ThreadType' /\ RpcType' /\ HandleType'
    BY <1>21, <2>1, FinishRpcType DEF RpcAnswered
  <2>3. LedgerType' /\ submit_fail' \subseteq Pools
    BY <1>21, <2>1 DEF RpcAnswered, LedgerType, Count, Pools
  <2>. QED BY <1>21, <2>2, <2>3 DEF RpcAnswered
<1>22. ASSUME NEW w \in Shares, RpcGivenUp(w) PROVE TypeOK'
  <2>1. PoolOf[w] \in RpcPools
    BY <1>22 DEF RpcGivenUp, RpcType, RpcShares
  <2>2. ThreadType' /\ RpcType' /\ HandleType'
    BY <1>22, <2>1, FinishRpcType DEF RpcGivenUp
  <2>3. LedgerType' /\ submit_fail' \subseteq Pools
    BY <1>22, <2>1 DEF RpcGivenUp, LedgerType, Count, Pools
  <2>. QED BY <1>22, <2>2, <2>3 DEF RpcGivenUp
<1>23. ASSUME NEW w \in Shares, RpcRetried(w) PROVE TypeOK'
  BY <1>23 DEF RpcRetried, RpcType, Pools, rpcVars
<1>24. ASSUME NEW w \in Shares, TransferReplies(w) PROVE TypeOK'
  BY <1>24 DEF TransferReplies, RpcType, rpcVars
<1>25. ASSUME NEW w \in Shares, TransferFails(w) PROVE TypeOK'
  BY <1>25 DEF TransferFails, RpcType, rpcVars
<1>26. ASSUME NEW w \in Shares, SubmitWorkAsync(w) PROVE TypeOK'
  BY <1>26 DEF SubmitWorkAsync, QueueType, MinerType, PoolType, StratumShares,
               queueVars, minerVars
<1>27. ASSUME NEW p \in RpcPools, GetworkTakesCurl(p) PROVE TypeOK'
  BY <1>27 DEF GetworkTakesCurl, HandleType
<1>28. ASSUME NEW p \in RpcPools, GetworkReturnsCurl(p) PROVE TypeOK'
  BY <1>28 DEF GetworkReturnsCurl, HandleType
<1>29. ASSUME NEW p \in RpcPools, ReapCurl(p) PROVE TypeOK'
  BY <1>29 DEF ReapCurl, HandleType
<1>30. ASSUME NEW p \in StratumPools, SetExtranonce(p) PROVE TypeOK'
  BY <1>30 DEF SetExtranonce, PoolType, NewSession, poolVars
<1>31. ASSUME NEW p \in StratumPools, Notify(p) PROVE TypeOK'
  BY <1>31 DEF Notify, PoolType, ConnType, poolVars, connVars
<1>32. ASSUME NEW p \in StratumPools, Interrupted(p) PROVE TypeOK'
  BY <1>32, CloseConnectionType DEF Interrupted, StratumType, LoseConnection,
                                    StratumPCs, stratumVars
<1>33. ASSUME NEW p \in StratumPools, Suspended(p) PROVE TypeOK'
  BY <1>33, CloseConnectionType DEF Suspended, StratumType, LoseConnection,
                                    StratumPCs, stratumVars
<1>34. ASSUME NEW p \in StratumPools, LockResubmit(p) PROVE TypeOK'
  BY <1>34 DEF LockResubmit, StratumType, StratumMoves, StratumPCs,
               stratumVars
<1>35. ASSUME NEW p \in StratumPools, EndResubmit(p) PROVE TypeOK'
  BY <1>35 DEF EndResubmit, StratumType, StratumMoves, StratumPCs, stratumVars
<1>36. ASSUME NEW p \in StratumPools, LockClear(p) PROVE TypeOK'
  BY <1>36 DEF LockClear, StratumType, StratumMoves, StratumPCs, stratumVars
<1>37. ASSUME NEW p \in StratumPools, EndClear(p) PROVE TypeOK'
  BY <1>37 DEF EndClear, StratumType, StratumMoves, StratumPCs, stratumVars
<1>38. ASSUME NEW p \in StratumPools, SubtractCleared(p) PROVE TypeOK'
  BY <1>38 DEF SubtractCleared, QueueType, StratumType, TakenBy, StratumPCs,
               queueVars, stratumVars
<1>39. ASSUME NEW p \in StratumPools, BeginInitiate(p) PROVE TypeOK'
  BY <1>39, CloseConnectionType DEF BeginInitiate, StratumType, TableType,
                                    StratumPCs, stratumVars, tableVars
<1>40. ASSUME NEW p \in StratumPools, SubscribeOk(p) PROVE TypeOK'
  BY <1>40 DEF SubscribeOk, ConnType, PoolType, StratumType, TableType,
               NewSession, StratumPCs, connVars, poolVars, stratumVars,
               tableVars
<1>41. ASSUME NEW p \in StratumPools, SubscribeFails(p) PROVE TypeOK'
  BY <1>41 DEF SubscribeFails, PoolType, StratumType, TableType,
               ConnectFailed, StratumPCs, poolVars, stratumVars, tableVars
<1>42. ASSUME NEW p \in StratumPools, AuthOk(p) PROVE TypeOK'
  BY <1>42 DEF AuthOk, StratumType, StratumMoves, StratumPCs, stratumVars
<1>43. ASSUME NEW p \in StratumPools, AuthRefused(p) PROVE TypeOK'
  BY <1>43 DEF AuthRefused, PoolType, ConnType, StratumType, ConnectFailed,
               StratumPCs, poolVars, connVars, stratumVars
<1>44. ASSUME NEW p \in StratumPools, AuthLost(p) PROVE TypeOK'
  BY <1>44, CloseConnectionType DEF AuthLost, PoolType, StratumType,
                                    ConnectFailed, StratumPCs, poolVars,
                                    stratumVars
<1>45. ASSUME NEW p \in StratumPools, Revive(p) PROVE TypeOK'
  BY <1>45 DEF Revive, PoolType, StratumType, StratumPCs, poolVars,
               stratumVars
<1>46. ASSUME NEW p \in StratumPools, NEW id \in wire[p], NEW e \in stratum_shares,
             Answer(p, id, e)
      PROVE  TypeOK'
  BY <1>46 DEF Answer, ConnType, TableType, StratumType, StratumPCs, connVars,
               tableVars, stratumVars
<1>47. ASSUME NEW p \in StratumPools, NEW id \in wire[p], AnswerUntracked(p, id)
      PROVE  TypeOK'
  BY <1>47 DEF AnswerUntracked, ConnType, LedgerType, connVars, ledgerVars
<1>48. ASSUME NEW p \in StratumPools, NEW id \in wire[p], AuthDropsAnswer(p, id)
      PROVE  TypeOK'
  BY <1>48 DEF AuthDropsAnswer, ConnType, LedgerType, connVars, ledgerVars
<1>49. ASSUME NEW p \in StratumPools, NEW t \in taken, CountAnswer(p, t)
      PROVE  TypeOK'
  BY <1>49 DEF CountAnswer, QueueType, LedgerType, StratumType, StratumPCs,
               Count, TakenBy, Entry, queueVars, ledgerVars, stratumVars
<1>50. ASSUME NEW p \in StratumPools, NEW e \in stratum_shares, ResubmitOne(p, e)
      PROVE  TypeOK'
  BY <1>50 DEF ResubmitOne, QueueType, TableType, EntriesOf, Entry, queueVars,
               tableVars
<1>51. ASSUME NEW p \in StratumPools, NEW e \in stratum_shares, ClearOne(p, e)
      PROVE  TypeOK'
  BY <1>51 DEF ClearOne, TableType, StratumType, LedgerType, EntriesOf, Entry,
               Count, tableVars, stratumVars, ledgerVars
<1>52. CASE UNCHANGED vars
  BY <1>52 DEF vars
<1>. QED
  BY <1>1, <1>2, <1>3, <1>4, <1>5, <1>6, <1>7, <1>8, <1>9, <1>10, <1>11,
     <1>12, <1>13, <1>14, <1>15, <1>16, <1>17, <1>18, <1>19, <1>20, <1>21,
     <1>22, <1>23, <1>24, <1>25, <1>26, <1>27, <1>28, <1>29, <1>30, <1>31,
     <1>32, <1>33, <1>34, <1>35, <1>36, <1>37, <1>38, <1>39, <1>40, <1>41,
     <1>42, <1>43, <1>44, <1>45, <1>46, <1>47, <1>48, <1>49, <1>50, <1>51,
     <1>52
  DEF Next, SubmitThread, StratumThread, CurlPool, Transfer

\* The initial state is of the types declared.
LEMMA TypeInit == Init => TypeOK
<1>. SUFFICES ASSUME Init PROVE TypeOK
  OBVIOUS
<1>0. notified \in BOOLEAN /\ rfd \in BOOLEAN
  BY Zenon DEF Init
<1>1. QueueType /\ MinerType /\ LedgerType
  <2>1. QueueType
    BY <1>0 DEF Init, QueueType
  <2>2. MinerType
    BY DEF Init, MinerType
  <2>3. LedgerType
    BY DEF Init, LedgerType
  <2>. QED BY <2>1, <2>2, <2>3
<1>2. ThreadType
  <2>1. write_sws \in Seq(Shares) /\ pc \in SubmitPCs /\ pos \in Nat \ {0}
    BY DEF Init, SubmitPCs
  <2>2. sshare \in [addr : Nat, id : Nat]
    BY DEF Init
  <2>. QED BY <1>0, <2>1, <2>2 DEF Init, ThreadType
<1>3. RpcType
  BY EmptySeq DEF Init, RpcType
<1>4. HandleType /\ TableType /\ ConnType
  BY DEF Init, HandleType, TableType, ConnType
<1>5. PoolType /\ StratumType
  BY DEF Init, PoolType, StratumType, StratumPCs
<1>. QED
  BY <1>1, <1>2, <1>3, <1>4, <1>5 DEF Init, TypeOK

\* Type correctness, for any number of shares and pools: every variable of the
\* submit thread, the tables and the connections stays in its declared range.
THEOREM TypeCorrect == Spec => []TypeOK
  BY TypeInit, TypePreserved, PTL DEF Spec

-----------------------------------------------------------------------------
(* A JSON-RPC share is on submit_waiting, or on a curl handle, or queued   *)
(* for one, and nowhere twice.                                             *)

WaitingOnce ==
    /\ \A i \in 1 .. Len(submit_waiting) : submit_waiting[i] \in RpcShares =>
         /\ submit_waiting[i] \in found
         /\ xfer[submit_waiting[i]] = "none"
    /\ \A i, j \in 1 .. Len(submit_waiting) :
         submit_waiting[i] \in RpcShares /\ submit_waiting[i] = submit_waiting[j]
         => i = j

CurlQueued ==
    \A p \in RpcPools :
      /\ \A i \in 1 .. Len(sws_waiting_on_curl[p]) :
           /\ xfer[sws_waiting_on_curl[p][i]] = "queued"
           /\ PoolOf[sws_waiting_on_curl[p][i]] = p
      /\ \A i, j \in 1 .. Len(sws_waiting_on_curl[p]) :
           sws_waiting_on_curl[p][i] = sws_waiting_on_curl[p][j] => i = j

XferFound == \A w \in Shares : xfer[w] # "none" => w \in found

RpcOnce == WaitingOnce /\ CurlQueued /\ XferFound

\* Entries are told apart by their address, and a new one has a new address.
EntriesDistinct ==
    /\ IsFiniteSet(stratum_shares) /\ IsFiniteSet(taken)
    /\ \A e \in stratum_shares : e.addr < allocated
    /\ \A t \in taken : t.share.addr < allocated
    /\ \A e, f \in stratum_shares : e.addr = f.addr => e = f
    /\ \A e \in stratum_shares, t \in taken : t.share.addr # e.addr

-----------------------------------------------------------------------------
\* Steps that leave the queues and the transfers alone keep RpcOnce.
LEMMA RpcOnceFrame ==
    RpcOnce /\ UNCHANGED <<submit_waiting, found, xfer, sws_waiting_on_curl>>
    => RpcOnce'
  BY DEF RpcOnce, WaitingOnce, CurlQueued, XferFound

\* submit_work_async2 and resubmit_stratum_shares append to submit_waiting: a
\* share not found before, or one of a stratum pool.
LEMMA RpcOnceAppend ==
  ASSUME TypeOK, RpcOnce, NEW w \in Shares,
         submit_waiting' = Append(submit_waiting, w),
         w \in StratumShares \/ w \notin found,
         found \subseteq found', w \in StratumShares \/ w \in found',
         UNCHANGED <<xfer, sws_waiting_on_curl>>
  PROVE  RpcOnce'
<1>1. /\ Len(submit_waiting') = Len(submit_waiting) + 1
      /\ \A i \in 1 .. Len(submit_waiting) : submit_waiting'[i] = submit_waiting[i]
      /\ submit_waiting'[Len(submit_waiting) + 1] = w
  BY AppendProperties DEF TypeOK, QueueType
<1>2. Len(submit_waiting) \in Nat
  BY LenProperties DEF TypeOK, QueueType
<1>3. w \in RpcShares => w \notin found /\ w \in found' /\ xfer[w] = "none"
  BY SubmissionAssumption DEF RpcOnce, XferFound, RpcShares, StratumShares
<1>4. WaitingOnce'
  BY <1>1, <1>2, <1>3 DEF RpcOnce, WaitingOnce
<1>. QED
  BY <1>4 DEF RpcOnce, CurlQueued, XferFound

\* submit_work_thread takes the head of submit_waiting.
LEMMA RpcOnceTail ==
  ASSUME TypeOK, RpcOnce, submit_waiting # <<>>,
         submit_waiting' = Tail(submit_waiting),
         UNCHANGED <<found, xfer, sws_waiting_on_curl>>
  PROVE  RpcOnce'
<1>1. /\ Len(submit_waiting') = Len(submit_waiting) - 1
      /\ \A i \in 1 .. Len(submit_waiting') :
            submit_waiting'[i] = submit_waiting[i + 1]
  BY HeadTailProperties DEF TypeOK, QueueType
<1>2. Len(submit_waiting) \in Nat
  BY LenProperties DEF TypeOK, QueueType
<1>3. WaitingOnce'
  BY <1>1, <1>2 DEF RpcOnce, WaitingOnce
<1>. QED
  BY <1>3 DEF RpcOnce, CurlQueued, XferFound

\* begin_submission puts a JSON-RPC share that no curl handle has onto one, or
\* into the queue for one.
LEMMA BeginRpcOnce ==
  ASSUME TypeOK, RpcOnce, BeginRpc
  PROVE  /\ RpcOnce'
         /\ Head(submit_waiting) \in Shares \ OnCurl
         /\ OnCurl' = OnCurl \cup {Head(submit_waiting)}
<1>. DEFINE w == Head(submit_waiting)
            p == PoolOf[w]
            queue == sws_waiting_on_curl[p]
<1>1. /\ Len(submit_waiting) \in Nat /\ Len(submit_waiting) > 0
      /\ w = submit_waiting[1] /\ w \in Shares
      /\ Len(submit_waiting') = Len(submit_waiting) - 1
      /\ \A i \in 1 .. Len(submit_waiting') :
            submit_waiting'[i] = submit_waiting[i + 1]
  BY HeadTailProperties, LenProperties, EmptySeq DEF TypeOK, QueueType, BeginRpc
<1>2. w \in RpcShares /\ p \in RpcPools
  BY <1>1, SubmissionAssumption DEF BeginRpc, StratumShares, RpcShares
<1>3. xfer[w] = "none" /\ w \in found
  BY <1>1, <1>2 DEF RpcOnce, WaitingOnce
<1>4. /\ xfer' \in [Shares -> {"none", "queued", "running", "replied", "failed"}]
      /\ xfer'[w] \in {"running", "queued"}
      /\ \A v \in Shares : v # w => xfer'[v] = xfer[v]
  BY <1>1 DEF TypeOK, RpcType, BeginRpc
<1>5. OnCurl' = OnCurl \cup {w} /\ w \notin OnCurl
  BY <1>1, <1>3, <1>4 DEF OnCurl
<1>6. WaitingOnce'
  <2>1. \A i \in 1 .. Len(submit_waiting) :
          submit_waiting[i] \in RpcShares /\ i # 1 => submit_waiting[i] # w
    BY <1>1 DEF RpcOnce, WaitingOnce
  <2>2. found' = found /\ \A v \in RpcShares : v \in Shares
    BY DEF BeginRpc, minerVars, RpcShares
  <2>. QED
    BY <1>1, <1>4, <2>1, <2>2 DEF RpcOnce, WaitingOnce
<1>7. CurlQueued'
  <2>0. /\ sws_waiting_on_curl' \in [RpcPools -> Seq(RpcShares)]
        /\ sws_waiting_on_curl \in [RpcPools -> Seq(RpcShares)]
        /\ \A r \in RpcPools : r # p =>
             sws_waiting_on_curl'[r] = sws_waiting_on_curl[r]
    BY BeginRpcType DEF TypeOK, RpcType, BeginRpc
  <2>1. ASSUME NEW r \in RpcPools, NEW i \in 1 .. Len(sws_waiting_on_curl[r])
        PROVE  /\ sws_waiting_on_curl[r][i] # w
               /\ xfer'[sws_waiting_on_curl[r][i]] = "queued"
               /\ PoolOf[sws_waiting_on_curl[r][i]] = r
    <3>1. sws_waiting_on_curl[r] \in Seq(RpcShares)
      BY <2>0
    <3>2. sws_waiting_on_curl[r][i] \in Shares
      BY <3>1, ElementOfSeq DEF RpcShares
    <3>3. /\ xfer[sws_waiting_on_curl[r][i]] = "queued"
          /\ PoolOf[sws_waiting_on_curl[r][i]] = r
      BY DEF RpcOnce, CurlQueued
    <3>. QED BY <1>3, <1>4, <3>2, <3>3
  <2>2. \A r \in RpcPools : \A i, j \in 1 .. Len(sws_waiting_on_curl[r]) :
          sws_waiting_on_curl[r][i] = sws_waiting_on_curl[r][j] => i = j
    BY DEF RpcOnce, CurlQueued
  <2>3. CASE /\ sws_waiting_on_curl'[p] = Cons(w, queue)
             /\ xfer'[w] = "queued"
    <3>1. queue \in Seq(RpcShares)
      BY <1>2, <2>0
    <3>2. /\ Len(queue) \in Nat
          /\ Len(sws_waiting_on_curl'[p]) = Len(queue) + 1
          /\ \A i \in 1 .. Len(queue) + 1 : sws_waiting_on_curl'[p][i] =
                IF i = 1 THEN w ELSE queue[i - 1]
      <4>. HIDE DEF w, p, queue
      <4>1. /\ Len(Cons(w, queue)) = Len(queue) + 1
            /\ \A i \in 1 .. Len(queue) + 1 :
                 Cons(w, queue)[i] = IF i = 1 THEN w ELSE queue[i - 1]
        BY <1>2, <3>1, ConsProperties
      <4>. QED BY <2>3, <3>1, <4>1, LenProperties
    <3>3. \A i \in 1 .. Len(queue) :
            queue[i] # w /\ xfer'[queue[i]] = "queued" /\ PoolOf[queue[i]] = p
      BY <1>2, <2>1
    <3>4. \A i, j \in 1 .. Len(queue) : queue[i] = queue[j] => i = j
      BY <1>2, <2>2
    <3>. HIDE DEF queue
    <3>5. \A i \in 1 .. Len(queue) + 1 :
            /\ xfer'[sws_waiting_on_curl'[p][i]] = "queued"
            /\ PoolOf[sws_waiting_on_curl'[p][i]] = p
      BY <2>3, <3>2, <3>3
    <3>6. \A i, j \in 1 .. Len(queue) + 1 :
            sws_waiting_on_curl'[p][i] = sws_waiting_on_curl'[p][j] => i = j
      <4>. SUFFICES ASSUME NEW i \in 1 .. Len(queue) + 1,
                           NEW j \in 1 .. Len(queue) + 1,
                           sws_waiting_on_curl'[p][i] = sws_waiting_on_curl'[p][j]
                    PROVE  i = j
        OBVIOUS
      <4>1. CASE i # 1 /\ j # 1
        <5>1. /\ i - 1 \in 1 .. Len(queue) /\ j - 1 \in 1 .. Len(queue)
              /\ queue[i - 1] = queue[j - 1]
          BY <3>2, <4>1
        <5>. QED BY <3>4, <5>1
      <4>2. CASE i = 1 /\ j # 1
        BY <3>2, <3>3, <4>2
      <4>3. CASE i # 1 /\ j = 1
        BY <3>2, <3>3, <4>3
      <4>. QED BY <4>1, <4>2, <4>3
    <3>7. ASSUME NEW r \in RpcPools, r # p
          PROVE  /\ \A i \in 1 .. Len(sws_waiting_on_curl'[r]) :
                      /\ xfer'[sws_waiting_on_curl'[r][i]] = "queued"
                      /\ PoolOf[sws_waiting_on_curl'[r][i]] = r
                 /\ \A i, j \in 1 .. Len(sws_waiting_on_curl'[r]) :
                      sws_waiting_on_curl'[r][i] = sws_waiting_on_curl'[r][j]
                      => i = j
      BY <2>0, <2>1, <2>2, <3>7
    <3>. QED BY <3>2, <3>5, <3>6, <3>7 DEF CurlQueued
  <2>4. CASE sws_waiting_on_curl'[p] = queue
    <3>1. sws_waiting_on_curl' = sws_waiting_on_curl
      BY <1>2, <2>0, <2>4
    <3>. QED BY <2>1, <2>2, <3>1 DEF CurlQueued
  <2>. QED
    <3>1. \/ sws_waiting_on_curl'[p] = queue
          \/ sws_waiting_on_curl'[p] = Cons(w, queue) /\ xfer'[w] = "queued"
      BY <1>1, <1>2, <2>0 DEF BeginRpc, TypeOK, RpcType
    <3>. QED BY <2>3, <2>4, <3>1
<1>8. XferFound'
  BY <1>3, <1>4 DEF RpcOnce, XferFound, BeginRpc, minerVars
<1>. QED
  BY <1>1, <1>5, <1>6, <1>7, <1>8 DEF RpcOnce

\* A finished submission leaves its handle to the submission queued last, which
\* is another one.
LEMMA FinishRpcOnce ==
  ASSUME TypeOK, RpcOnce, NEW w \in Shares, xfer[w] \in {"replied", "failed"},
         FinishRpc(w), UNCHANGED <<submit_waiting, found>>
  PROVE  /\ RpcOnce'
         /\ w \in OnCurl
         /\ OnCurl' = OnCurl \ {w}
<1>. DEFINE p == PoolOf[w]
            queue == sws_waiting_on_curl[p]
<1>1. p \in RpcPools /\ w \in OnCurl
  BY DEF TypeOK, RpcType, RpcShares, OnCurl
<1>2. queue \in Seq(RpcShares)
  BY <1>1 DEF TypeOK, RpcType
<1>3. ASSUME NEW r \in RpcPools, NEW i \in 1 .. Len(sws_waiting_on_curl[r])
      PROVE  /\ sws_waiting_on_curl[r][i] \in Shares
             /\ sws_waiting_on_curl[r][i] # w
             /\ xfer[sws_waiting_on_curl[r][i]] = "queued"
             /\ PoolOf[sws_waiting_on_curl[r][i]] = r
  <2>1. sws_waiting_on_curl[r] \in Seq(RpcShares)
    BY DEF TypeOK, RpcType
  <2>2. sws_waiting_on_curl[r][i] \in Shares
    BY <2>1, ElementOfSeq DEF RpcShares
  <2>. QED BY <2>2 DEF RpcOnce, CurlQueued
<1>4. \A r \in RpcPools : \A i, j \in 1 .. Len(sws_waiting_on_curl[r]) :
        sws_waiting_on_curl[r][i] = sws_waiting_on_curl[r][j] => i = j
  BY DEF RpcOnce, CurlQueued
<1>5. \A i \in 1 .. Len(submit_waiting) : submit_waiting[i] \in Shares
  BY ElementOfSeq DEF TypeOK, QueueType
<1>6. CASE queue = <<>>
  <2>1. /\ xfer' \in [Shares -> {"none", "queued", "running", "replied", "failed"}]
        /\ xfer'[w] = "none"
        /\ \A v \in Shares : v # w => xfer'[v] = xfer[v]
        /\ sws_waiting_on_curl' = sws_waiting_on_curl
    BY <1>6 DEF TypeOK, RpcType, FinishRpc
  <2>2. OnCurl' = OnCurl \ {w}
    BY <2>1 DEF OnCurl
  <2>3. WaitingOnce'
    BY <1>5, <2>1 DEF RpcOnce, WaitingOnce
  <2>4. CurlQueued'
    BY <1>3, <1>4, <2>1 DEF CurlQueued
  <2>5. XferFound'
    BY <2>1 DEF RpcOnce, XferFound
  <2>. QED BY <1>1, <2>2, <2>3, <2>4, <2>5 DEF RpcOnce
<1>7. CASE queue # <<>>
  <2>. DEFINE h == Head(queue)
  <2>1. /\ Len(queue) \in Nat /\ Len(queue) > 0 /\ h = queue[1]
        /\ Len(Tail(queue)) = Len(queue) - 1
        /\ \A i \in 1 .. Len(Tail(queue)) : Tail(queue)[i] = queue[i + 1]
    <3>. HIDE DEF queue
    <3>. QED BY <1>2, <1>7, HeadTailProperties, LenProperties, EmptySeq
  <2>2. h \in Shares /\ h # w /\ xfer[h] = "queued"
    BY <1>1, <1>3, <2>1
  <2>3. /\ xfer' \in [Shares -> {"none", "queued", "running", "replied", "failed"}]
        /\ xfer'[w] = "none" /\ xfer'[h] = "running"
        /\ \A v \in Shares : v # w /\ v # h => xfer'[v] = xfer[v]
    BY <1>7, <2>2 DEF TypeOK, RpcType, FinishRpc
  <2>4. /\ sws_waiting_on_curl'[p] = Tail(queue)
        /\ \A r \in RpcPools : r # p =>
             sws_waiting_on_curl'[r] = sws_waiting_on_curl[r]
    BY <1>1, <1>7 DEF TypeOK, RpcType, FinishRpc
  <2>5. OnCurl' = OnCurl \ {w}
    BY <2>2, <2>3 DEF OnCurl
  <2>6. WaitingOnce'
    BY <1>5, <2>2, <2>3 DEF RpcOnce, WaitingOnce
  <2>7. ASSUME NEW r \in RpcPools
        PROVE  /\ \A i \in 1 .. Len(sws_waiting_on_curl'[r]) :
                    /\ xfer'[sws_waiting_on_curl'[r][i]] = "queued"
                    /\ PoolOf[sws_waiting_on_curl'[r][i]] = r
               /\ \A i, j \in 1 .. Len(sws_waiting_on_curl'[r]) :
                    sws_waiting_on_curl'[r][i] = sws_waiting_on_curl'[r][j]
                    => i = j
    <3>1. CASE r # p
      <4>1. \A i \in 1 .. Len(sws_waiting_on_curl[r]) :
              sws_waiting_on_curl[r][i] # h
        BY <1>1, <1>3, <2>1, <3>1
      <4>. QED BY <1>3, <1>4, <2>3, <2>4, <3>1, <4>1
    <3>2. CASE r = p
      <4>1. \A i \in 1 .. Len(queue) : i # 1 =>
              /\ queue[i] # h /\ queue[i] # w /\ queue[i] \in Shares
              /\ xfer[queue[i]] = "queued" /\ PoolOf[queue[i]] = p
        BY <1>1, <1>3, <1>4, <2>1
      <4>2. \A i, j \in 1 .. Len(queue) : queue[i] = queue[j] => i = j
        BY <1>1, <1>4
      <4>3. \A i \in 1 .. Len(Tail(queue)) :
              /\ i + 1 \in 1 .. Len(queue) /\ i + 1 # 1
              /\ Tail(queue)[i] = queue[i + 1]
        BY <2>1
      <4>. HIDE DEF queue, h
      <4>4. \A i \in 1 .. Len(Tail(queue)) :
              xfer'[Tail(queue)[i]] = "queued" /\ PoolOf[Tail(queue)[i]] = p
        BY <2>3, <4>1, <4>3
      <4>5. ASSUME NEW i \in 1 .. Len(Tail(queue)), NEW j \in 1 .. Len(Tail(queue)),
                   Tail(queue)[i] = Tail(queue)[j]
            PROVE  i = j
        <5>1. i + 1 = j + 1
          BY <4>2, <4>3, <4>5
        <5>. QED BY <2>1, <5>1
      <4>6. sws_waiting_on_curl'[r] = Tail(queue)
        BY <2>4, <3>2
      <4>. DEFINE rest == Tail(queue)
      <4>7. \A i \in 1 .. Len(rest) : xfer'[rest[i]] = "queued" /\ PoolOf[rest[i]] = p
        BY <4>4
      <4>8. \A i, j \in 1 .. Len(rest) : rest[i] = rest[j] => i = j
        BY <4>5
      <4>9. sws_waiting_on_curl'[r] = rest
        BY <4>6
      <4>. HIDE DEF rest
      <4>. QED BY <3>2, <4>7, <4>8, <4>9
    <3>. QED BY <3>1, <3>2
  <2>8. XferFound'
    BY <2>2, <2>3 DEF RpcOnce, XferFound
  <2>. QED BY <1>1, <2>5, <2>6, <2>7, <2>8 DEF RpcOnce, CurlQueued
<1>. QED BY <1>6, <1>7

\* Any other change of a transfer is between states of its running.
LEMMA TransferOnce ==
  ASSUME TypeOK, RpcOnce, NEW w \in Shares, NEW state \in {"running", "replied", "failed"},
         xfer[w] \in {"running", "failed"}, xfer' = [xfer EXCEPT ![w] = state],
         UNCHANGED <<submit_waiting, found, sws_waiting_on_curl>>
  PROVE  RpcOnce' /\ OnCurl' = OnCurl
<1>1. /\ xfer' \in [Shares -> {"none", "queued", "running", "replied", "failed"}]
      /\ xfer'[w] = state
      /\ \A v \in Shares : v # w => xfer'[v] = xfer[v]
  BY DEF TypeOK, RpcType
<1>2. OnCurl' = OnCurl
  BY <1>1 DEF OnCurl
<1>3. WaitingOnce'
  <2>1. \A i \in 1 .. Len(submit_waiting) : submit_waiting[i] \in Shares
    BY ElementOfSeq DEF TypeOK, QueueType
  <2>. QED BY <1>1, <2>1 DEF RpcOnce, WaitingOnce
<1>4. CurlQueued'
  <2>1. ASSUME NEW r \in RpcPools, NEW i \in 1 .. Len(sws_waiting_on_curl[r])
        PROVE  /\ sws_waiting_on_curl[r][i] \in Shares
               /\ sws_waiting_on_curl[r][i] # w
    <3>1. sws_waiting_on_curl[r] \in Seq(RpcShares)
      BY DEF TypeOK, RpcType
    <3>2. sws_waiting_on_curl[r][i] \in Shares
      BY <3>1, ElementOfSeq DEF RpcShares
    <3>. QED BY <3>2 DEF RpcOnce, CurlQueued
  <2>. QED BY <1>1, <2>1 DEF RpcOnce, CurlQueued
<1>5. XferFound'
  BY <1>1 DEF RpcOnce, XferFound
<1>. QED BY <1>2, <1>3, <1>4, <1>5 DEF RpcOnce

-----------------------------------------------------------------------------
(* wip.                                                                    *)

ExitsIdle == pc = "exited" => wip = 0

WipInv == TypeOK /\ RpcOnce /\ WipExact /\ ExitsIdle

\* The transfers that are counted in wip are finitely many.
LEMMA OnCurlFinite == IsFiniteSet(OnCurl) /\ Cardinality(OnCurl) \in Nat
<1>1. OnCurl \in SUBSET Shares
  BY DEF OnCurl
<1>. QED BY <1>1, SubmissionAssumption, FS_Subset, FS_CardinalityType

\* OnCurl depends on the transfers alone.
LEMMA OnCurlFrame == UNCHANGED xfer => OnCurl' = OnCurl
  BY DEF OnCurl

\* Steps that take nothing in and let nothing go.
LEMMA WipFrame ==
  ASSUME WipInv, TypeOK',
         UNCHANGED <<submit_waiting, found, xfer, sws_waiting_on_curl>>,
         UNCHANGED <<wip, write_sws>>,
         pc' = "exited" => pc = "exited" \/ wip = 0
  PROVE  WipInv'
<1>1. RpcOnce'
  BY RpcOnceFrame DEF WipInv
<1>2. WipExact'
  BY OnCurlFrame DEF WipInv, WipExact
<1>. QED BY <1>1, <1>2 DEF WipInv, ExitsIdle

\* A submission leaves write_sws.
LEMMA WipDelete ==
  ASSUME WipInv, TypeOK', DeleteScanned, pos <= Len(write_sws),
         UNCHANGED <<submit_waiting, found, xfer, sws_waiting_on_curl>>,
         pc # "exited", pc' # "exited"
  PROVE  WipInv'
<1>1. RpcOnce'
  BY RpcOnceFrame DEF WipInv
<1>2. WipExact'
  <2>1. Len(write_sws') = Len(write_sws) - 1
    BY DeleteScannedType DEF WipInv
  <2>2. Len(write_sws) \in Nat
    BY LenProperties DEF WipInv, TypeOK, ThreadType
  <2>. QED BY <2>1, <2>2, OnCurlFinite, OnCurlFrame DEF WipInv, WipExact, DeleteScanned
<1>. QED BY <1>1, <1>2 DEF WipInv, ExitsIdle

\* A transfer ends for good.
LEMMA WipFinish ==
  ASSUME WipInv, TypeOK', NEW w \in Shares, xfer[w] \in {"replied", "failed"},
         FinishRpc(w), UNCHANGED <<submit_waiting, found, write_sws>>,
         pc' # "exited"
  PROVE  WipInv'
<1>1. /\ RpcOnce' /\ w \in OnCurl
      /\ OnCurl' = OnCurl \ {w}
  BY FinishRpcOnce DEF WipInv
<1>2. WipExact'
  <2>1. Cardinality(OnCurl \ {w}) = Cardinality(OnCurl) - 1
    BY <1>1, OnCurlFinite, FS_RemoveElement
  <2>2. Len(write_sws) \in Nat
    BY LenProperties DEF WipInv, TypeOK, ThreadType
  <2>. QED BY <1>1, <2>1, <2>2, OnCurlFinite DEF WipInv, WipExact, FinishRpc
<1>. QED BY <1>1, <1>2 DEF WipInv, ExitsIdle

\* begin_submission takes a submission in.
LEMMA WipBegin ==
  ASSUME WipInv, TypeOK', BeginStratum \/ BeginRpc
  PROVE  WipInv'
<1>1. Len(write_sws) \in Nat
  BY LenProperties DEF WipInv, TypeOK, ThreadType
<1>2. CASE BeginStratum
  <2>1. Head(submit_waiting) \in Shares
    BY <1>2, HeadTailProperties DEF WipInv, TypeOK, QueueType, BeginStratum
  <2>2. Len(write_sws') = Len(write_sws) + 1
    BY <1>2, <2>1, ConsProperties DEF WipInv, TypeOK, ThreadType, BeginStratum
  <2>3. RpcOnce'
    BY <1>2, RpcOnceTail DEF WipInv, BeginStratum, minerVars, curlVars, rpcVars
  <2>4. OnCurl' = OnCurl
    BY <1>2, OnCurlFrame DEF BeginStratum, curlVars, rpcVars
  <2>5. WipExact'
    BY <1>1, <1>2, <2>2, <2>4, OnCurlFinite DEF WipInv, WipExact, BeginStratum
  <2>. QED BY <1>2, <2>3, <2>5 DEF WipInv, ExitsIdle, BeginStratum
<1>3. CASE BeginRpc
  <2>1. /\ RpcOnce' /\ Head(submit_waiting) \notin OnCurl
        /\ OnCurl' = OnCurl \cup {Head(submit_waiting)}
    BY <1>3, BeginRpcOnce DEF WipInv
  <2>2. Cardinality(OnCurl') = Cardinality(OnCurl) + 1
    BY <2>1, OnCurlFinite, FS_AddElement
  <2>3. WipExact'
    BY <1>1, <1>3, <2>2, OnCurlFinite DEF WipInv, WipExact, BeginRpc, listVars
  <2>. QED BY <1>3, <2>1, <2>3 DEF WipInv, ExitsIdle, BeginRpc
<1>. QED BY <1>2, <1>3

\* Every step of every thread keeps wip exact.
LEMMA WipPreserved == WipInv /\ [Next]_vars => WipInv'
<1>. SUFFICES ASSUME WipInv, [Next]_vars PROVE WipInv'
  OBVIOUS
<1>0. TypeOK /\ TypeOK'
  BY TypePreserved DEF WipInv
<1>. USE <1>0 DEF submitSide, stratumSide, threadVars, curlVars, rpcVars,
                 handleVars, queueVars, minerVars, listVars, countVars,
                 othersOfThread, othersOfStratum, othersOfConn, othersOfSend
<1>1. CASE KillWork
  BY <1>1, WipFrame DEF KillWork
<1>2. CASE LockSubmitting
  BY <1>2, WipFrame DEF LockSubmitting
<1>3. CASE Select
  BY <1>3, WipFrame DEF Select
<1>4. CASE SelectError
  BY <1>4, WipFrame DEF SelectError
<1>5. CASE SkipSubmission
  BY <1>5, WipFrame DEF SkipSubmission
<1>6. CASE SessionMatches
  BY <1>6, WipFrame DEF SessionMatches, ThreadMoves
<1>7. CASE AddStratumShare
  BY <1>7, WipFrame DEF AddStratumShare
<1>8. CASE SendFails
  BY <1>8, WipFrame DEF SendFails
<1>9. CASE SuspendAfterSend
  BY <1>9, WipFrame DEF SuspendAfterSend, SendFailed, CloseConnection
<1>10. CASE SendInactive
  BY <1>10, WipFrame DEF SendInactive, SendFailed
<1>11. CASE EndScan
  BY <1>11, WipFrame DEF EndScan, ThreadMoves
<1>12. CASE EndRound
  BY <1>12, WipFrame DEF EndRound, ThreadMoves
<1>13. CASE \E e \in stratum_shares : UndoFound(e)
  BY <1>13, WipFrame DEF UndoFound
<1>14. CASE UnlockSubmitting
  BY <1>14, WipFrame DEF UnlockSubmitting
<1>15. CASE DiscardStale
  <2>1. RpcOnce'
    BY <1>15, RpcOnceTail DEF DiscardStale, WipInv
  <2>. QED BY <1>15, <2>1, OnCurlFrame DEF DiscardStale, WipInv, WipExact, ExitsIdle
<1>16. CASE BeginStratum \/ BeginRpc
  BY <1>16, WipBegin
<1>17. CASE DiscardOtherSession
  <2>1. pos <= Len(write_sws) /\ pc = "write" /\ pc' = "write"
    BY <1>17 DEF DiscardOtherSession, Scanning
  <2>. QED BY <1>17, <2>1, WipDelete DEF DiscardOtherSession
<1>18. CASE SendOk
  <2>1. pos <= Len(write_sws) /\ pc # "exited" /\ pc' = "write"
    BY <1>18 DEF SendOk, TypeOK, ThreadType
  <2>. QED BY <1>18, <2>1, WipDelete DEF SendOk
<1>19. CASE UndoConsumed
  <2>1. pos <= Len(write_sws) /\ pc # "exited" /\ pc' = "write"
    BY <1>19 DEF UndoConsumed, TypeOK, ThreadType
  <2>. QED BY <1>19, <2>1, WipDelete DEF UndoConsumed
<1>20. ASSUME NEW w \in Shares, RpcAnswered(w) PROVE WipInv'
  BY <1>20, WipFinish DEF RpcAnswered
<1>21. ASSUME NEW w \in Shares, RpcGivenUp(w) PROVE WipInv'
  BY <1>21, WipFinish DEF RpcGivenUp
<1>22. ASSUME NEW w \in Shares, RpcRetried(w) PROVE WipInv'
  <2>1. RpcOnce' /\ OnCurl' = OnCurl
    BY <1>22, TransferOnce DEF RpcRetried, WipInv
  <2>. QED BY <1>22, <2>1 DEF RpcRetried, WipInv, WipExact, ExitsIdle
<1>23. ASSUME NEW w \in Shares, TransferReplies(w) PROVE WipInv'
  <2>1. RpcOnce' /\ OnCurl' = OnCurl
    BY <1>23, TransferOnce DEF TransferReplies, WipInv
  <2>. QED BY <1>23, <2>1 DEF TransferReplies, WipInv, WipExact, ExitsIdle
<1>24. ASSUME NEW w \in Shares, TransferFails(w) PROVE WipInv'
  <2>1. RpcOnce' /\ OnCurl' = OnCurl
    BY <1>24, TransferOnce DEF TransferFails, WipInv
  <2>. QED BY <1>24, <2>1 DEF TransferFails, WipInv, WipExact, ExitsIdle
<1>25. ASSUME NEW w \in Shares, SubmitWorkAsync(w) PROVE WipInv'
  <2>1. RpcOnce'
    BY <1>25, RpcOnceAppend DEF SubmitWorkAsync, WipInv
  <2>. QED BY <1>25, <2>1, OnCurlFrame DEF SubmitWorkAsync, WipInv, WipExact, ExitsIdle
<1>26. ASSUME NEW p \in StratumPools, NEW e \in stratum_shares, ResubmitOne(p, e)
      PROVE  WipInv'
  <2>1. e.work \in StratumShares
    BY <1>26 DEF ResubmitOne, EntriesOf, StratumShares, TypeOK, TableType, Entry
  <2>2. RpcOnce'
    BY <1>26, <2>1, RpcOnceAppend DEF ResubmitOne, WipInv, StratumShares
  <2>. QED BY <1>26, <2>2, OnCurlFrame DEF ResubmitOne, WipInv, WipExact, ExitsIdle
<1>27. ASSUME NEW p \in RpcPools, GetworkTakesCurl(p) PROVE WipInv'
  BY <1>27, WipFrame DEF GetworkTakesCurl
<1>28. ASSUME NEW p \in RpcPools, GetworkReturnsCurl(p) PROVE WipInv'
  BY <1>28, WipFrame DEF GetworkReturnsCurl
<1>29. ASSUME NEW p \in RpcPools, ReapCurl(p) PROVE WipInv'
  BY <1>29, WipFrame DEF ReapCurl
<1>30. ASSUME NEW p \in StratumPools, SetExtranonce(p) PROVE WipInv'
  BY <1>30, WipFrame DEF SetExtranonce
<1>31. ASSUME NEW p \in StratumPools, Notify(p) PROVE WipInv'
  BY <1>31, WipFrame DEF Notify
<1>32. ASSUME NEW p \in StratumPools, Interrupted(p) PROVE WipInv'
  BY <1>32, WipFrame DEF Interrupted, LoseConnection
<1>33. ASSUME NEW p \in StratumPools, Suspended(p) PROVE WipInv'
  BY <1>33, WipFrame DEF Suspended, LoseConnection
<1>34. ASSUME NEW p \in StratumPools, LockResubmit(p) PROVE WipInv'
  BY <1>34, WipFrame DEF LockResubmit, StratumMoves
<1>35. ASSUME NEW p \in StratumPools, EndResubmit(p) PROVE WipInv'
  BY <1>35, WipFrame DEF EndResubmit, StratumMoves
<1>36. ASSUME NEW p \in StratumPools, LockClear(p) PROVE WipInv'
  BY <1>36, WipFrame DEF LockClear, StratumMoves
<1>37. ASSUME NEW p \in StratumPools, EndClear(p) PROVE WipInv'
  BY <1>37, WipFrame DEF EndClear, StratumMoves
<1>38. ASSUME NEW p \in StratumPools, SubtractCleared(p) PROVE WipInv'
  BY <1>38, WipFrame DEF SubtractCleared
<1>39. ASSUME NEW p \in StratumPools, BeginInitiate(p) PROVE WipInv'
  BY <1>39, WipFrame DEF BeginInitiate
<1>40. ASSUME NEW p \in StratumPools, SubscribeOk(p) PROVE WipInv'
  BY <1>40, WipFrame DEF SubscribeOk
<1>41. ASSUME NEW p \in StratumPools, SubscribeFails(p) PROVE WipInv'
  BY <1>41, WipFrame DEF SubscribeFails
<1>42. ASSUME NEW p \in StratumPools, AuthOk(p) PROVE WipInv'
  BY <1>42, WipFrame DEF AuthOk, StratumMoves
<1>43. ASSUME NEW p \in StratumPools, AuthRefused(p) PROVE WipInv'
  BY <1>43, WipFrame DEF AuthRefused
<1>44. ASSUME NEW p \in StratumPools, AuthLost(p) PROVE WipInv'
  BY <1>44, WipFrame DEF AuthLost
<1>45. ASSUME NEW p \in StratumPools, Revive(p) PROVE WipInv'
  BY <1>45, WipFrame DEF Revive
<1>46. ASSUME NEW p \in StratumPools, NEW id \in wire[p], NEW e \in stratum_shares,
             Answer(p, id, e)
      PROVE  WipInv'
  BY <1>46, WipFrame DEF Answer
<1>47. ASSUME NEW p \in StratumPools, NEW id \in wire[p], AnswerUntracked(p, id)
      PROVE  WipInv'
  BY <1>47, WipFrame DEF AnswerUntracked
<1>48. ASSUME NEW p \in StratumPools, NEW id \in wire[p], AuthDropsAnswer(p, id)
      PROVE  WipInv'
  BY <1>48, WipFrame DEF AuthDropsAnswer
<1>49. ASSUME NEW p \in StratumPools, NEW t \in taken, CountAnswer(p, t)
      PROVE  WipInv'
  BY <1>49, WipFrame DEF CountAnswer
<1>50. ASSUME NEW p \in StratumPools, NEW e \in stratum_shares, ClearOne(p, e)
      PROVE  WipInv'
  BY <1>50, WipFrame DEF ClearOne
<1>51. CASE UNCHANGED vars
  BY <1>51, WipFrame DEF vars
<1>. QED
  BY <1>1, <1>2, <1>3, <1>4, <1>5, <1>6, <1>7, <1>8, <1>9, <1>10, <1>11,
     <1>12, <1>13, <1>14, <1>15, <1>16, <1>17, <1>18, <1>19, <1>20, <1>21,
     <1>22, <1>23, <1>24, <1>25, <1>26, <1>27, <1>28, <1>29, <1>30, <1>31,
     <1>32, <1>33, <1>34, <1>35, <1>36, <1>37, <1>38, <1>39, <1>40, <1>41,
     <1>42, <1>43, <1>44, <1>45, <1>46, <1>47, <1>48, <1>49, <1>50, <1>51
  DEF Next, SubmitThread, StratumThread, CurlPool, Transfer

\* The queues, the transfers and wip agree in the initial state.
LEMMA WipInit == Init => WipInv
<1>. SUFFICES ASSUME Init PROVE WipInv
  OBVIOUS
<1>1. TypeOK
  BY TypeInit
<1>2. OnCurl = {}
  BY DEF Init, OnCurl
<1>3. RpcOnce
  BY DEF Init, RpcOnce, WaitingOnce, CurlQueued, XferFound
<1>4. WipExact
  BY <1>2, FS_EmptySet DEF Init, WipExact
<1>. QED BY <1>1, <1>3, <1>4 DEF Init, WipInv, ExitsIdle

\* wip counts exactly the submissions that submit_work_thread owns.
THEOREM WipCorrect == Spec => []WipExact
<1>1. WipInv => WipExact
  BY DEF WipInv
<1>. QED BY <1>1, WipInit, WipPreserved, PTL DEF Spec

\* submit_work_thread leaves its loop only when it owns nothing at all: the
\* assertion on write_sws holds, and no HTTP transfer is abandoned.
THEOREM ExitCorrect == Spec => []ExitsEmpty
<1>1. ASSUME WipInv PROVE ExitsEmpty
  <2>. SUFFICES ASSUME pc = "exited" PROVE write_sws = <<>> /\ OnCurl = {}
    BY DEF ExitsEmpty
  <2>1. Len(write_sws) \in Nat /\ write_sws \in Seq(Shares)
    BY <1>1, LenProperties DEF WipInv, TypeOK, ThreadType
  <2>2. Len(write_sws) = 0 /\ Cardinality(OnCurl) = 0
    BY <1>1, <2>1, OnCurlFinite DEF WipInv, WipExact, ExitsIdle
  <2>3. write_sws = <<>>
    BY <2>1, <2>2, EmptySeq
  <2>4. OnCurl = {}
    BY <2>2, OnCurlFinite, FS_EmptySet
  <2>. QED BY <2>3, <2>4
<1>. QED BY <1>1, WipInit, WipPreserved, PTL DEF Spec

-----------------------------------------------------------------------------
(* The AS counter of the status line, total_submitting: each critical      *)
(* section of the submit thread, of the stratum threads and of the mining  *)
(* threads changes it by what it moves in and out of the queues and of     *)
(* stratum_shares.                                                         *)

SubmittingInv == WipInv /\ EntriesDistinct /\ SubmittingExact

-----------------------------------------------------------------------------
\* Every term of the sum that total_submitting stands for is a number.
LEMMA TermsAreNumbers ==
  ASSUME TypeOK, EntriesDistinct
  PROVE  /\ Len(submit_waiting) \in Nat /\ Len(write_sws) \in Nat
         /\ Cardinality(OnCurl) \in Nat /\ Cardinality(stratum_shares) \in Nat
         /\ Cardinality(taken) \in Nat
         /\ total_submitting \in Int /\ tsreduce \in Nat /\ phantoms \in Nat
         /\ Overlap \in {0, 1}
<1>1. Len(submit_waiting) \in Nat /\ Len(write_sws) \in Nat
  BY LenProperties DEF TypeOK, QueueType, ThreadType
<1>2. Cardinality(stratum_shares) \in Nat /\ Cardinality(taken) \in Nat
  BY FS_CardinalityType DEF EntriesDistinct
<1>. QED
  BY <1>1, <1>2, OnCurlFinite DEF TypeOK, QueueType, ThreadType, LedgerType, Overlap

\* Steps that move no share and no entry.
LEMMA SubmittingFrame ==
  ASSUME SubmittingInv, WipInv',
         UNCHANGED <<total_submitting, submit_waiting, write_sws>>,
         UNCHANGED <<stratum_shares, taken, allocated, tsreduce, phantoms>>,
         OnCurl' = OnCurl, SendInProgress' = SendInProgress
  PROVE  SubmittingInv'
<1>1. EntriesDistinct'
  BY DEF SubmittingInv, EntriesDistinct
<1>2. SubmittingExact'
  BY DEF SubmittingInv, SubmittingExact, Overlap
<1>. QED BY <1>1, <1>2 DEF SubmittingInv

\* Removing an entry leaves the others distinct, and one fewer.
LEMMA EntryRemoved ==
  ASSUME EntriesDistinct, NEW e \in stratum_shares,
         stratum_shares' = stratum_shares \ {e},
         UNCHANGED <<taken, allocated>>
  PROVE  /\ EntriesDistinct'
         /\ Cardinality(stratum_shares') = Cardinality(stratum_shares) - 1
  BY FS_RemoveElement DEF EntriesDistinct

\* An entry unlinked by a stratum thread moves from the table to taken.
LEMMA EntryTaken ==
  ASSUME TypeOK, EntriesDistinct, NEW p \in StratumPools, NEW e \in stratum_shares,
         stratum_shares' = stratum_shares \ {e},
         taken' = taken \cup {[by |-> p, share |-> e]},
         UNCHANGED allocated
  PROVE  /\ EntriesDistinct'
         /\ Cardinality(stratum_shares') = Cardinality(stratum_shares) - 1
         /\ Cardinality(taken') = Cardinality(taken) + 1
<1>. DEFINE t == [by |-> p, share |-> e]
<1>1. t \notin taken
  BY DEF EntriesDistinct
<1>2. /\ IsFiniteSet(taken') /\ Cardinality(taken') = Cardinality(taken) + 1
  BY <1>1, FS_AddElement DEF EntriesDistinct
<1>3. /\ IsFiniteSet(stratum_shares')
      /\ Cardinality(stratum_shares') = Cardinality(stratum_shares) - 1
  BY FS_RemoveElement DEF EntriesDistinct
<1>4. \A u \in taken' : u \in taken \/ u.share = e
  OBVIOUS
<1>5. /\ \A f \in stratum_shares' : f \in stratum_shares /\ f # e
      /\ allocated' = allocated
  OBVIOUS
<1>6. \A u \in taken' : u.share.addr < allocated'
  BY <1>4, <1>5 DEF EntriesDistinct
<1>7. \A f \in stratum_shares', u \in taken' : u.share.addr # f.addr
  BY <1>4, <1>5 DEF EntriesDistinct
<1>. QED
  BY <1>2, <1>3, <1>5, <1>6, <1>7 DEF EntriesDistinct

\* A new entry has a new address.
LEMMA EntryAdded ==
  ASSUME SubmittingInv, AddStratumShare
  PROVE  /\ EntriesDistinct'
         /\ Cardinality(stratum_shares') = Cardinality(stratum_shares) + 1
<1>. DEFINE e == [addr |-> allocated, id |-> swork_id, work |-> Scanned]
<1>1. /\ stratum_shares' = stratum_shares \cup {e}
      /\ taken' = taken /\ allocated' = allocated + 1 /\ allocated \in Nat
  BY DEF AddStratumShare, stratumVars, SubmittingInv, WipInv, TypeOK, TableType
<1>2. e.addr = allocated
  OBVIOUS
<1>3. \A f \in stratum_shares : f.addr < allocated /\ f.addr \in Nat
  BY DEF SubmittingInv, EntriesDistinct, WipInv, TypeOK, TableType, Entry
<1>4. \A u \in taken : u.share.addr < allocated /\ u.share.addr \in Nat
  BY DEF SubmittingInv, EntriesDistinct, WipInv, TypeOK, StratumType, Entry
<1>. HIDE DEF e
<1>5. e \notin stratum_shares
  BY <1>1, <1>2, <1>3
<1>6. /\ IsFiniteSet(stratum_shares')
      /\ Cardinality(stratum_shares') = Cardinality(stratum_shares) + 1
  BY <1>1, <1>5, FS_AddElement DEF SubmittingInv, EntriesDistinct
<1>7. \A f \in stratum_shares' : f = e \/ f \in stratum_shares
  BY <1>1
<1>8. /\ \A f \in stratum_shares' : f.addr < allocated'
      /\ \A u \in taken' : u.share.addr < allocated'
  BY <1>1, <1>2, <1>3, <1>4, <1>7
<1>9. \A f, g \in stratum_shares' : f.addr = g.addr => f = g
  BY <1>1, <1>2, <1>3, <1>7 DEF SubmittingInv, EntriesDistinct
<1>10. \A f \in stratum_shares', u \in taken' : u.share.addr # f.addr
  BY <1>1, <1>2, <1>4, <1>7 DEF SubmittingInv, EntriesDistinct
<1>11. IsFiniteSet(taken')
  BY <1>1 DEF SubmittingInv, EntriesDistinct
<1>. QED BY <1>6, <1>8, <1>9, <1>10, <1>11 DEF EntriesDistinct


\* Every step of every thread keeps total_submitting exact.
LEMMA SubmittingPreserved == SubmittingInv /\ [Next]_vars => SubmittingInv'
<1>. SUFFICES ASSUME SubmittingInv, [Next]_vars PROVE SubmittingInv'
  OBVIOUS
<1>0. WipInv /\ WipInv' /\ TypeOK /\ EntriesDistinct /\ RpcOnce
  BY WipPreserved DEF SubmittingInv, WipInv
<1>a. /\ Len(submit_waiting) \in Nat /\ Len(write_sws) \in Nat
      /\ Cardinality(OnCurl) \in Nat /\ Cardinality(stratum_shares) \in Nat
      /\ Cardinality(taken) \in Nat
      /\ total_submitting \in Int /\ tsreduce \in Nat /\ phantoms \in Nat
      /\ Overlap \in {0, 1}
  BY <1>0, TermsAreNumbers
<1>. USE <1>0, <1>a
     DEF submitSide, stratumSide, threadVars, curlVars, rpcVars, handleVars,
         queueVars, minerVars, listVars, countVars, tableVars, stratumVars,
         ledgerVars, othersOfThread, othersOfStratum, othersOfConn,
         othersOfSend
<1>1. CASE KillWork
  BY <1>1, SubmittingFrame, OnCurlFrame DEF SendInProgress, KillWork
<1>2. CASE Select
  BY <1>2, SubmittingFrame, OnCurlFrame DEF SendInProgress, Select
<1>3. CASE SelectError
  BY <1>3, SubmittingFrame, OnCurlFrame DEF SendInProgress, SelectError
<1>4. CASE SkipSubmission
  BY <1>4, SubmittingFrame, OnCurlFrame DEF SendInProgress, SkipSubmission,
     Scanning
<1>5. CASE SessionMatches
  BY <1>5, SubmittingFrame, OnCurlFrame DEF SendInProgress, SessionMatches,
     ThreadMoves
<1>6. CASE SendFails
  BY <1>6, SubmittingFrame, OnCurlFrame DEF SendInProgress, SendFails
<1>7. CASE EndScan
  BY <1>7, SubmittingFrame, OnCurlFrame DEF SendInProgress, EndScan,
     ThreadMoves
<1>8. CASE EndRound
  BY <1>8, SubmittingFrame, OnCurlFrame DEF SendInProgress, EndRound,
     ThreadMoves
<1>9. CASE UnlockSubmitting
  BY <1>9, SubmittingFrame, OnCurlFrame DEF SendInProgress, UnlockSubmitting
<1>10. CASE LockSubmitting
  <2>1. EntriesDistinct'
    BY <1>10 DEF EntriesDistinct, LockSubmitting
  <2>2. SubmittingExact'
    BY <1>10, OnCurlFrame, SMTT(60) DEF LockSubmitting, SubmittingInv,
       SubmittingExact, Overlap, SendInProgress
  <2>. QED BY <2>1, <2>2 DEF SubmittingInv
<1>11. CASE DiscardStale
  <2>1. EntriesDistinct'
    BY <1>11 DEF EntriesDistinct, DiscardStale
  <2>2. Len(submit_waiting') = Len(submit_waiting) - 1
    BY <1>11, HeadTailProperties DEF DiscardStale, TypeOK, QueueType
  <2>3. /\ total_submitting' = total_submitting - 1
        /\ OnCurl' = OnCurl /\ Overlap' = Overlap
        /\ UNCHANGED <<write_sws, stratum_shares, taken, tsreduce, phantoms>>
    BY <1>11, OnCurlFrame DEF DiscardStale, SendInProgress, Overlap
  <2>4. SubmittingExact'
    BY <2>2, <2>3, SMTT(60) DEF SubmittingInv, SubmittingExact
  <2>. QED BY <2>1, <2>4 DEF SubmittingInv
<1>12. CASE BeginStratum
  <2>1. EntriesDistinct'
    BY <1>12 DEF EntriesDistinct, BeginStratum
  <2>2. Len(submit_waiting') = Len(submit_waiting) - 1
    BY <1>12, HeadTailProperties DEF BeginStratum, TypeOK, QueueType
  <2>3. Head(submit_waiting) \in Shares /\ write_sws \in Seq(Shares)
    BY <1>12, HeadTailProperties DEF BeginStratum, TypeOK, QueueType, ThreadType
  <2>4. Len(write_sws') = Len(write_sws) + 1
    BY <1>12, <2>3, ConsProperties DEF BeginStratum
  <2>5. /\ total_submitting' = total_submitting
        /\ OnCurl' = OnCurl /\ Overlap' = Overlap
        /\ UNCHANGED <<stratum_shares, taken, tsreduce, phantoms>>
    BY <1>12, OnCurlFrame DEF BeginStratum, SendInProgress, Overlap
  <2>6. SubmittingExact'
    BY <2>2, <2>3, <2>4, <2>5, SMTT(60) DEF SubmittingInv, SubmittingExact
  <2>. QED BY <2>1, <2>6 DEF SubmittingInv
<1>13. CASE BeginRpc
  <2>1. EntriesDistinct'
    BY <1>13 DEF EntriesDistinct, BeginRpc
  <2>2. Len(submit_waiting') = Len(submit_waiting) - 1
    BY <1>13, HeadTailProperties DEF BeginRpc, TypeOK, QueueType
  <2>3. Cardinality(OnCurl') = Cardinality(OnCurl) + 1
    BY <1>13, BeginRpcOnce, OnCurlFinite, FS_AddElement
  <2>4. SubmittingExact'
    BY <1>13, <2>2, <2>3, OnCurlFrame, SMTT(60) DEF BeginRpc, SubmittingInv,
       SubmittingExact, Overlap, SendInProgress
  <2>. QED BY <2>1, <2>4 DEF SubmittingInv
<1>14. CASE DiscardOtherSession
  <2>1. EntriesDistinct'
    BY <1>14 DEF EntriesDistinct, DiscardOtherSession, DeleteScanned
  <2>2. Len(write_sws') = Len(write_sws) - 1
    BY <1>14, DeleteScannedType DEF DiscardOtherSession, TypeOK, ThreadType, Scanning
  <2>3. /\ tsreduce' = tsreduce + 1
        /\ OnCurl' = OnCurl /\ Overlap' = Overlap
        /\ UNCHANGED <<total_submitting, submit_waiting>>
        /\ UNCHANGED <<stratum_shares, taken, phantoms>>
    BY <1>14, OnCurlFrame DEF DiscardOtherSession, DeleteScanned,
       SendInProgress, Overlap
  <2>4. SubmittingExact'
    BY <2>2, <2>3, SMTT(60) DEF SubmittingInv, SubmittingExact
  <2>. QED BY <2>1, <2>4 DEF SubmittingInv
<1>15. CASE SendOk
  <2>1. EntriesDistinct'
    BY <1>15 DEF EntriesDistinct, SendOk, DeleteScanned
  <2>2. Len(write_sws') = Len(write_sws) - 1
    BY <1>15, DeleteScannedType DEF SendOk, TypeOK, ThreadType
  <2>3. SubmittingExact'
    BY <1>15, <2>2, OnCurlFrame, SMTT(60) DEF SendOk, DeleteScanned,
       SubmittingInv, SubmittingExact, Overlap, SendInProgress
  <2>. QED BY <2>1, <2>3 DEF SubmittingInv
<1>16. CASE UndoConsumed
  <2>1. EntriesDistinct'
    BY <1>16 DEF EntriesDistinct, UndoConsumed, DeleteScanned
  <2>2. Len(write_sws') = Len(write_sws) - 1
    BY <1>16, DeleteScannedType DEF UndoConsumed, TypeOK, ThreadType
  <2>3. SubmittingExact'
    BY <1>16, <2>2, OnCurlFrame, SMTT(60) DEF UndoConsumed, DeleteScanned,
       SubmittingInv, SubmittingExact, Overlap, SendInProgress
  <2>. QED BY <2>1, <2>3 DEF SubmittingInv
<1>17. CASE AddStratumShare
  <2>1. /\ EntriesDistinct'
        /\ Cardinality(stratum_shares') = Cardinality(stratum_shares) + 1
    BY <1>17, EntryAdded
  <2>2. SubmittingExact'
    BY <1>17, <2>1, OnCurlFrame, SMTT(60) DEF AddStratumShare, SubmittingInv,
       SubmittingExact, Overlap, SendInProgress
  <2>. QED BY <2>1, <2>2 DEF SubmittingInv
<1>18. CASE SuspendAfterSend
  <2>1. EntriesDistinct'
    BY <1>18 DEF EntriesDistinct, SuspendAfterSend, SendFailed
  <2>2. SubmittingExact'
    BY <1>18, OnCurlFrame, SMTT(60) DEF SuspendAfterSend, SendFailed,
       SubmittingInv, SubmittingExact, Overlap, SendInProgress
  <2>. QED BY <2>1, <2>2 DEF SubmittingInv
<1>19. CASE SendInactive
  <2>1. EntriesDistinct'
    BY <1>19 DEF EntriesDistinct, SendInactive, SendFailed
  <2>2. SubmittingExact'
    BY <1>19, OnCurlFrame, SMTT(60) DEF SendInactive, SendFailed,
       SubmittingInv, SubmittingExact, Overlap, SendInProgress
  <2>. QED BY <2>1, <2>2 DEF SubmittingInv
<1>20. ASSUME NEW e \in stratum_shares, UndoFound(e) PROVE SubmittingInv'
  <2>1. /\ EntriesDistinct'
        /\ Cardinality(stratum_shares') = Cardinality(stratum_shares) - 1
    BY <1>20, EntryRemoved DEF UndoFound
  <2>2. SubmittingExact'
    BY <1>20, <2>1, OnCurlFrame, SMTT(60) DEF UndoFound, SubmittingInv,
       SubmittingExact, Overlap, SendInProgress
  <2>. QED BY <2>1, <2>2 DEF SubmittingInv
<1>21. ASSUME NEW w \in Shares, RpcAnswered(w) PROVE SubmittingInv'
  <2>1. EntriesDistinct'
    BY <1>21 DEF EntriesDistinct, RpcAnswered, FinishRpc
  <2>2. Cardinality(OnCurl') = Cardinality(OnCurl) - 1
    BY <1>21, FinishRpcOnce, OnCurlFinite, FS_RemoveElement DEF RpcAnswered
  <2>3. SubmittingExact'
    BY <1>21, <2>2, OnCurlFrame, SMTT(60) DEF RpcAnswered, FinishRpc,
       SubmittingInv, SubmittingExact, Overlap, SendInProgress
  <2>. QED BY <2>1, <2>3 DEF SubmittingInv
<1>22. ASSUME NEW w \in Shares, RpcGivenUp(w) PROVE SubmittingInv'
  <2>1. EntriesDistinct'
    BY <1>22 DEF EntriesDistinct, RpcGivenUp, FinishRpc
  <2>2. Cardinality(OnCurl') = Cardinality(OnCurl) - 1
    BY <1>22, FinishRpcOnce, OnCurlFinite, FS_RemoveElement DEF RpcGivenUp
  <2>3. SubmittingExact'
    BY <1>22, <2>2, OnCurlFrame, SMTT(60) DEF RpcGivenUp, FinishRpc,
       SubmittingInv, SubmittingExact, Overlap, SendInProgress
  <2>. QED BY <2>1, <2>3 DEF SubmittingInv
<1>23. ASSUME NEW w \in Shares, RpcRetried(w) PROVE SubmittingInv'
  <2>1. OnCurl' = OnCurl
    BY <1>23, TransferOnce DEF RpcRetried
  <2>. QED BY <1>23, <2>1, SubmittingFrame DEF RpcRetried, SendInProgress
<1>24. ASSUME NEW w \in Shares, TransferReplies(w) PROVE SubmittingInv'
  <2>1. OnCurl' = OnCurl
    BY <1>24, TransferOnce DEF TransferReplies
  <2>. QED BY <1>24, <2>1, SubmittingFrame DEF TransferReplies, SendInProgress
<1>25. ASSUME NEW w \in Shares, TransferFails(w) PROVE SubmittingInv'
  <2>1. OnCurl' = OnCurl
    BY <1>25, TransferOnce DEF TransferFails
  <2>. QED BY <1>25, <2>1, SubmittingFrame DEF TransferFails, SendInProgress
<1>26. ASSUME NEW w \in Shares, SubmitWorkAsync(w) PROVE SubmittingInv'
  <2>1. EntriesDistinct'
    BY <1>26 DEF EntriesDistinct, SubmitWorkAsync
  <2>2. Len(submit_waiting') = Len(submit_waiting) + 1
    BY <1>26, AppendProperties DEF SubmitWorkAsync, TypeOK, QueueType
  <2>3. /\ total_submitting' = total_submitting + 1
        /\ OnCurl' = OnCurl /\ Overlap' = Overlap
        /\ UNCHANGED <<write_sws, stratum_shares, taken, tsreduce, phantoms>>
    BY <1>26, OnCurlFrame DEF SubmitWorkAsync, SendInProgress, Overlap
  <2>4. SubmittingExact'
    BY <2>2, <2>3, SMTT(60) DEF SubmittingInv, SubmittingExact
  <2>. QED BY <2>1, <2>4 DEF SubmittingInv
<1>27. ASSUME NEW p \in RpcPools, GetworkTakesCurl(p) PROVE SubmittingInv'
  BY <1>27, SubmittingFrame, OnCurlFrame DEF SendInProgress, GetworkTakesCurl
<1>28. ASSUME NEW p \in RpcPools, GetworkReturnsCurl(p) PROVE SubmittingInv'
  BY <1>28, SubmittingFrame, OnCurlFrame DEF SendInProgress,
     GetworkReturnsCurl
<1>29. ASSUME NEW p \in RpcPools, ReapCurl(p) PROVE SubmittingInv'
  BY <1>29, SubmittingFrame, OnCurlFrame DEF SendInProgress, ReapCurl
<1>30. ASSUME NEW p \in StratumPools, SetExtranonce(p) PROVE SubmittingInv'
  BY <1>30, SubmittingFrame, OnCurlFrame DEF SendInProgress, SetExtranonce
<1>31. ASSUME NEW p \in StratumPools, Notify(p) PROVE SubmittingInv'
  BY <1>31, SubmittingFrame, OnCurlFrame DEF SendInProgress, Notify
<1>32. ASSUME NEW p \in StratumPools, Interrupted(p) PROVE SubmittingInv'
  BY <1>32, SubmittingFrame, OnCurlFrame DEF SendInProgress, Interrupted,
     LoseConnection
<1>33. ASSUME NEW p \in StratumPools, Suspended(p) PROVE SubmittingInv'
  BY <1>33, SubmittingFrame, OnCurlFrame DEF SendInProgress, Suspended,
     LoseConnection
<1>34. ASSUME NEW p \in StratumPools, LockResubmit(p) PROVE SubmittingInv'
  BY <1>34, SubmittingFrame, OnCurlFrame DEF SendInProgress, LockResubmit,
     StratumMoves
<1>35. ASSUME NEW p \in StratumPools, EndResubmit(p) PROVE SubmittingInv'
  BY <1>35, SubmittingFrame, OnCurlFrame DEF SendInProgress, EndResubmit,
     StratumMoves
<1>36. ASSUME NEW p \in StratumPools, LockClear(p) PROVE SubmittingInv'
  BY <1>36, SubmittingFrame, OnCurlFrame DEF SendInProgress, LockClear,
     StratumMoves
<1>37. ASSUME NEW p \in StratumPools, EndClear(p) PROVE SubmittingInv'
  BY <1>37, SubmittingFrame, OnCurlFrame DEF SendInProgress, EndClear,
     StratumMoves
<1>38. ASSUME NEW p \in StratumPools, BeginInitiate(p) PROVE SubmittingInv'
  BY <1>38, SubmittingFrame, OnCurlFrame DEF SendInProgress, BeginInitiate
<1>39. ASSUME NEW p \in StratumPools, SubscribeOk(p) PROVE SubmittingInv'
  BY <1>39, SubmittingFrame, OnCurlFrame DEF SendInProgress, SubscribeOk
<1>40. ASSUME NEW p \in StratumPools, SubscribeFails(p) PROVE SubmittingInv'
  BY <1>40, SubmittingFrame, OnCurlFrame DEF SendInProgress, SubscribeFails
<1>41. ASSUME NEW p \in StratumPools, AuthOk(p) PROVE SubmittingInv'
  BY <1>41, SubmittingFrame, OnCurlFrame DEF SendInProgress, AuthOk,
     StratumMoves
<1>42. ASSUME NEW p \in StratumPools, AuthRefused(p) PROVE SubmittingInv'
  BY <1>42, SubmittingFrame, OnCurlFrame DEF SendInProgress, AuthRefused
<1>43. ASSUME NEW p \in StratumPools, AuthLost(p) PROVE SubmittingInv'
  BY <1>43, SubmittingFrame, OnCurlFrame DEF SendInProgress, AuthLost
<1>44. ASSUME NEW p \in StratumPools, Revive(p) PROVE SubmittingInv'
  BY <1>44, SubmittingFrame, OnCurlFrame DEF SendInProgress, Revive
<1>45. ASSUME NEW p \in StratumPools, NEW id \in wire[p], AnswerUntracked(p, id)
      PROVE  SubmittingInv'
  BY <1>45, SubmittingFrame, OnCurlFrame DEF SendInProgress, AnswerUntracked
<1>46. ASSUME NEW p \in StratumPools, NEW id \in wire[p], AuthDropsAnswer(p, id)
      PROVE  SubmittingInv'
  BY <1>46, SubmittingFrame, OnCurlFrame DEF SendInProgress, AuthDropsAnswer
<1>47. CASE UNCHANGED vars
  BY <1>47, SubmittingFrame, OnCurlFrame DEF SendInProgress, vars
<1>48. ASSUME NEW p \in StratumPools, NEW id \in wire[p], NEW e \in stratum_shares, Answer(p, id, e)
      PROVE  SubmittingInv'
  <2>1. /\ EntriesDistinct'
        /\ Cardinality(stratum_shares') = Cardinality(stratum_shares) - 1
        /\ Cardinality(taken') = Cardinality(taken) + 1
    BY <1>48, EntryTaken DEF Answer
  <2>2. SubmittingExact'
    BY <1>48, <2>1, OnCurlFrame, SMTT(60) DEF Answer, SubmittingInv,
       SubmittingExact, Overlap, SendInProgress
  <2>. QED BY <2>1, <2>2 DEF SubmittingInv
<1>49. ASSUME NEW p \in StratumPools, NEW e \in stratum_shares, ClearOne(p, e)
      PROVE  SubmittingInv'
  <2>1. /\ EntriesDistinct'
        /\ Cardinality(stratum_shares') = Cardinality(stratum_shares) - 1
        /\ Cardinality(taken') = Cardinality(taken) + 1
    BY <1>49, EntryTaken DEF ClearOne
  <2>2. SubmittingExact'
    BY <1>49, <2>1, OnCurlFrame, SMTT(60) DEF ClearOne, SubmittingInv,
       SubmittingExact, Overlap, SendInProgress
  <2>. QED BY <2>1, <2>2 DEF SubmittingInv
<1>50. ASSUME NEW p \in StratumPools, NEW t \in taken, CountAnswer(p, t)
      PROVE  SubmittingInv'
  <2>1. /\ EntriesDistinct'
        /\ Cardinality(taken') = Cardinality(taken) - 1
    BY <1>50, FS_RemoveElement DEF CountAnswer, EntriesDistinct
  <2>2. SubmittingExact'
    BY <1>50, <2>1, OnCurlFrame, SMTT(60) DEF CountAnswer, SubmittingInv,
       SubmittingExact, Overlap, SendInProgress
  <2>. QED BY <2>1, <2>2 DEF SubmittingInv
<1>51. ASSUME NEW p \in StratumPools, NEW e \in stratum_shares, ResubmitOne(p, e)
      PROVE  SubmittingInv'
  <2>1. /\ EntriesDistinct'
        /\ Cardinality(stratum_shares') = Cardinality(stratum_shares) - 1
    BY <1>51, EntryRemoved DEF ResubmitOne
  <2>2. Len(submit_waiting') = Len(submit_waiting) + 1
    BY <1>51, AppendProperties
       DEF ResubmitOne, TypeOK, QueueType, TableType, Entry
  <2>3. SubmittingExact'
    BY <1>51, <2>1, <2>2, OnCurlFrame, SMTT(60) DEF ResubmitOne,
       SubmittingInv, SubmittingExact, Overlap, SendInProgress
  <2>. QED BY <2>1, <2>3 DEF SubmittingInv
<1>52. ASSUME NEW p \in StratumPools, SubtractCleared(p) PROVE SubmittingInv'
  <2>1. TakenBy(p) \subseteq taken /\ IsFiniteSet(taken)
    BY DEF TakenBy, EntriesDistinct
  <2>2. IsFiniteSet(taken \ TakenBy(p))
    BY <2>1, FS_Difference
  <2>3. /\ IsFiniteSet(TakenBy(p)) /\ Cardinality(TakenBy(p)) \in Nat
        /\ Cardinality(taken \ TakenBy(p)) = Cardinality(taken) - Cardinality(TakenBy(p))
    <3>1. taken \cap TakenBy(p) = TakenBy(p)
      BY <2>1
    <3>. QED BY <2>1, <3>1, FS_Difference, FS_Subset, FS_CardinalityType
  <2>4. EntriesDistinct'
    BY <1>52, <2>2 DEF SubtractCleared, EntriesDistinct
  <2>5. /\ Cardinality(TakenBy(p)) \in Nat
        /\ Cardinality(taken') = Cardinality(taken) - Cardinality(TakenBy(p))
        /\ total_submitting' = total_submitting - Cardinality(TakenBy(p))
    BY <1>52, <2>3 DEF SubtractCleared
  <2>6. /\ OnCurl' = OnCurl /\ Overlap' = Overlap
        /\ UNCHANGED <<submit_waiting, write_sws>>
        /\ UNCHANGED <<stratum_shares, tsreduce, phantoms>>
    BY <1>52, OnCurlFrame DEF SubtractCleared, SendInProgress, Overlap
  <2>7. SubmittingExact'
    BY <2>5, <2>6, SMTT(60) DEF SubmittingInv, SubmittingExact
  <2>. QED BY <2>4, <2>7 DEF SubmittingInv
<1>. QED
  BY <1>1, <1>2, <1>3, <1>4, <1>5, <1>6, <1>7, <1>8, <1>9, <1>10, <1>11,
     <1>12, <1>13, <1>14, <1>15, <1>16, <1>17, <1>18, <1>19, <1>20, <1>21,
     <1>22, <1>23, <1>24, <1>25, <1>26, <1>27, <1>28, <1>29, <1>30, <1>31,
     <1>32, <1>33, <1>34, <1>35, <1>36, <1>37, <1>38, <1>39, <1>40, <1>41,
     <1>42, <1>43, <1>44, <1>45, <1>46, <1>47, <1>48, <1>49, <1>50, <1>51,
     <1>52
  DEF Next, SubmitThread, StratumThread, CurlPool, Transfer

\* Nothing has been found: the counter, the queues and the table are empty.
LEMMA SubmittingInit == Init => SubmittingInv
<1>. SUFFICES ASSUME Init PROVE SubmittingInv
  OBVIOUS
<1>1. OnCurl = {}
  BY DEF Init, OnCurl
<1>2. EntriesDistinct
  BY FS_EmptySet DEF Init, EntriesDistinct
<1>3. SubmittingExact
  BY <1>1, FS_EmptySet DEF Init, SubmittingExact, Overlap, SendInProgress
<1>. QED BY <1>2, <1>3, WipInit DEF SubmittingInv

\* total_submitting is the number of shares found and not settled, whatever
\* thread holds them, up to the entries that failed sends leave in
\* stratum_shares and to the transfers done in this round (tsreduce).
THEOREM SubmittingCorrect == Spec => []SubmittingExact
<1>1. SubmittingInv => SubmittingExact
  BY DEF SubmittingInv
<1>. QED BY <1>1, SubmittingInit, SubmittingPreserved, PTL DEF Spec

-----------------------------------------------------------------------------
(* The curl handles.                                                       *)
(*                                                                         *)
(* A submission queued for a curl handle always has a running transfer of  *)
(* its pool to take the handle over from, although handles are also taken  *)
(* and returned by the getwork scheduler and dropped by reap_curl: because *)
(* pool->cr is exact and the limit leaves one handle to the submit thread. *)

ActiveOf(p) == {w \in Shares : /\ PoolOf[w] = p
                               /\ xfer[w] \in {"running", "replied", "failed"}}

\* Every handle is idle, lent to the getwork scheduler, or has a transfer.
HandlesExact ==
    \A p \in RpcPools :
      /\ curllist[p] >= 0
      /\ curls[p] = curllist[p] + If(p \in getworking) + Cardinality(ActiveOf(p))

ServeInv == WipInv /\ HandlesExact /\ QueueWillBeServed

-----------------------------------------------------------------------------
\* The transfers of a pool are finitely many.
LEMMA ActiveFinite ==
  ASSUME NEW p
  PROVE  IsFiniteSet(ActiveOf(p)) /\ Cardinality(ActiveOf(p)) \in Nat
<1>1. ActiveOf(p) \in SUBSET Shares
  BY DEF ActiveOf
<1>. QED BY <1>1, SubmissionAssumption, FS_Subset, FS_CardinalityType

\* The ranges of the handle counters.
LEMMA HandleNumbers ==
  ASSUME TypeOK, NEW p \in RpcPools
  PROVE  /\ curls[p] \in Int /\ curllist[p] \in Int
         /\ If(p \in getworking) \in {0, 1}
         /\ Cardinality(ActiveOf(p)) \in Nat
  BY ActiveFinite DEF TypeOK, HandleType, If

\* Steps that change neither the transfers of any pool nor its handles.
LEMMA ServeFrame ==
  ASSUME ServeInv, WipInv', UNCHANGED handleVars, UNCHANGED sws_waiting_on_curl,
         \A p \in RpcPools : ActiveOf(p)' = ActiveOf(p)
  PROVE  ServeInv'
<1>1. HandlesExact'
  BY DEF ServeInv, HandlesExact, handleVars
<1>2. QueueWillBeServed'
  <2>. SUFFICES ASSUME NEW p \in RpcPools, sws_waiting_on_curl'[p] # <<>>
                PROVE  ActiveOf(p)' # {}
    BY DEF QueueWillBeServed, ActiveOf
  <2>1. ActiveOf(p) # {}
    BY DEF ServeInv, QueueWillBeServed, ActiveOf
  <2>. QED BY <2>1
<1>. QED BY <1>1, <1>2 DEF ServeInv

\* Steps that leave the transfers alone altogether.
LEMMA ActiveFrame == UNCHANGED xfer => \A p \in RpcPools : ActiveOf(p)' = ActiveOf(p)
  BY DEF ActiveOf

\* What the getwork scheduler and reap_curl do to the handles keeps them exact.
LEMMA ServeHandles ==
  ASSUME ServeInv, WipInv', NEW p \in RpcPools,
         GetworkTakesCurl(p) \/ GetworkReturnsCurl(p) \/ ReapCurl(p)
  PROVE  ServeInv'
<1>1. TypeOK /\ HandlesExact
  BY DEF ServeInv, WipInv
<1>2. /\ UNCHANGED <<xfer, sws_waiting_on_curl>>
      /\ \A r \in RpcPools : ActiveOf(r)' = ActiveOf(r)
  BY ActiveFrame DEF GetworkTakesCurl, GetworkReturnsCurl, ReapCurl, rpcVars
<1>3. ASSUME NEW r \in RpcPools
      PROVE  /\ curllist'[r] >= 0
             /\ curls'[r] = curllist'[r] + If(r \in getworking')
                            + Cardinality(ActiveOf(r))
  <2>1. /\ curls[r] \in Int /\ curllist[r] \in Int /\ curllist[r] >= 0
        /\ If(r \in getworking) \in {0, 1} /\ Cardinality(ActiveOf(r)) \in Nat
        /\ curls[r] = curllist[r] + If(r \in getworking) + Cardinality(ActiveOf(r))
    BY <1>1, HandleNumbers DEF HandlesExact
  <2>2. CASE r # p
    <3>1. /\ curls'[r] = curls[r] /\ curllist'[r] = curllist[r]
          /\ r \in getworking' <=> r \in getworking
      BY <1>1, <2>2 DEF GetworkTakesCurl, GetworkReturnsCurl, ReapCurl, TypeOK,
                        HandleType
    <3>. QED BY <2>1, <3>1 DEF If
  <2>3. CASE r = p /\ GetworkTakesCurl(p)
    BY <1>1, <2>1, <2>3 DEF GetworkTakesCurl, TypeOK, HandleType, If
  <2>4. CASE r = p /\ GetworkReturnsCurl(p)
    BY <1>1, <2>1, <2>4 DEF GetworkReturnsCurl, TypeOK, HandleType, If
  <2>5. CASE r = p /\ ReapCurl(p)
    BY <1>1, <2>1, <2>5 DEF ReapCurl, TypeOK, HandleType, If
  <2>. QED BY <2>2, <2>3, <2>4, <2>5
<1>4. HandlesExact'
  BY <1>2, <1>3 DEF HandlesExact
<1>5. QueueWillBeServed'
  BY <1>2 DEF ServeInv, QueueWillBeServed
<1>. QED BY <1>4, <1>5 DEF ServeInv

\* pop_curl_entry2 queues a submission only when other transfers hold handles.
LEMMA ServeBegin ==
  ASSUME ServeInv, WipInv', BeginRpc
  PROVE  ServeInv'
<1>a. PICK w : w = Head(submit_waiting)
  OBVIOUS
<1>b. PICK p : p = PoolOf[w]
  OBVIOUS
<1>. DEFINE idle == curllist[p] > 0
            recruit == ~idle /\ (curls[p] = 0 \/ curls[p] < CurlLimit)
<1>. USE <1>a, <1>b
<1>1. TypeOK /\ TypeOK' /\ HandlesExact /\ RpcOnce
  BY DEF ServeInv, WipInv
<1>2. w \in Shares \ OnCurl /\ p \in RpcPools
  BY <1>1, BeginRpcOnce, SubmissionAssumption DEF BeginRpc, StratumShares
<1>3. /\ xfer[w] = "none"
      /\ xfer'[w] = (IF idle \/ recruit THEN "running" ELSE "queued")
      /\ \A v \in Shares : v # w => xfer'[v] = xfer[v]
  BY <1>1, <1>2 DEF BeginRpc, OnCurl, TypeOK, RpcType
<1>4. \A r \in RpcPools : r # p => ActiveOf(r)' = ActiveOf(r)
  BY <1>2, <1>3 DEF ActiveOf
<1>5. /\ w \notin ActiveOf(p)
      /\ idle \/ recruit => ActiveOf(p)' = ActiveOf(p) \cup {w}
      /\ ~(idle \/ recruit) => ActiveOf(p)' = ActiveOf(p)
  BY <1>2, <1>3 DEF ActiveOf
<1>6. \A r \in RpcPools : r # p =>
        /\ curls'[r] = curls[r] /\ curllist'[r] = curllist[r]
        /\ sws_waiting_on_curl'[r] = sws_waiting_on_curl[r]
  BY <1>1 DEF BeginRpc, TypeOK, HandleType, RpcType
<1>7. /\ curllist'[p] = (IF idle THEN curllist[p] - 1 ELSE curllist[p])
      /\ curls'[p] = (IF recruit THEN curls[p] + 1 ELSE curls[p])
      /\ getworking' = getworking
      /\ idle \/ recruit => sws_waiting_on_curl'[p] = sws_waiting_on_curl[p]
  BY <1>1, <1>2 DEF BeginRpc, TypeOK, HandleType, RpcType
<1>8. /\ curls[p] \in Int /\ curllist[p] \in Int /\ curllist[p] >= 0
      /\ If(p \in getworking) \in {0, 1} /\ Cardinality(ActiveOf(p)) \in Nat
      /\ curls[p] = curllist[p] + If(p \in getworking) + Cardinality(ActiveOf(p))
  BY <1>1, <1>2, HandleNumbers DEF HandlesExact
<1>9. Cardinality(ActiveOf(p) \cup {w}) = Cardinality(ActiveOf(p)) + 1
  BY <1>5, ActiveFinite, FS_AddElement
<1>10. /\ curllist'[p] >= 0
       /\ curls'[p] = curllist'[p] + If(p \in getworking')
                      + Cardinality(ActiveOf(p)')
  <2>1. CASE idle \/ recruit
    <3>1. Cardinality(ActiveOf(p)') = Cardinality(ActiveOf(p)) + 1
      BY <1>5, <1>9, <2>1
    <3>. QED BY <1>7, <1>8, <2>1, <3>1
  <2>2. CASE ~(idle \/ recruit)
    BY <1>5, <1>7, <1>8, <2>2
  <2>. QED BY <2>1, <2>2
<1>11. HandlesExact'
  BY <1>1, <1>4, <1>6, <1>7, <1>10 DEF HandlesExact, If
<1>12. ActiveOf(p)' # {}
  <2>1. CASE idle \/ recruit
    BY <1>5, <2>1
  <2>2. CASE ~(idle \/ recruit)
    <3>1. Cardinality(ActiveOf(p)) >= 1
      BY <1>8, <2>2, SubmissionAssumption
    <3>. QED BY <1>5, <2>2, <3>1, FS_EmptySet
  <2>. QED BY <2>1, <2>2
<1>13. QueueWillBeServed'
  <2>. SUFFICES ASSUME NEW r \in RpcPools, sws_waiting_on_curl'[r] # <<>>
                PROVE  ActiveOf(r)' # {}
    BY DEF QueueWillBeServed, ActiveOf
  <2>1. CASE r = p
    BY <1>12, <2>1
  <2>2. CASE r # p
    BY <1>4, <1>6, <2>2 DEF ServeInv, QueueWillBeServed, ActiveOf
  <2>. QED BY <2>1, <2>2
<1>. QED BY <1>11, <1>13 DEF ServeInv

\* A finished submission hands its handle to the head of the queue, whose
\* transfer starts, or returns it to the idle list when nobody waits.
LEMMA ServeFinish ==
  ASSUME ServeInv, WipInv', NEW w \in Shares, xfer[w] \in {"replied", "failed"},
         FinishRpc(w), UNCHANGED <<curls, getworking>>
  PROVE  ServeInv'
<1>. DEFINE p == PoolOf[w]
            queue == sws_waiting_on_curl[p]
<1>1. TypeOK /\ HandlesExact /\ RpcOnce
  BY DEF ServeInv, WipInv
<1>2. p \in RpcPools /\ w \in ActiveOf(p)
  BY <1>1 DEF TypeOK, RpcType, RpcShares, ActiveOf
<1>3. /\ curls[p] \in Int /\ curllist[p] \in Int /\ curllist[p] >= 0
      /\ If(p \in getworking) \in {0, 1} /\ Cardinality(ActiveOf(p)) \in Nat
      /\ curls[p] = curllist[p] + If(p \in getworking) + Cardinality(ActiveOf(p))
  BY <1>1, <1>2, HandleNumbers DEF HandlesExact
<1>4. Cardinality(ActiveOf(p) \ {w}) = Cardinality(ActiveOf(p)) - 1
  BY <1>2, ActiveFinite, FS_RemoveElement
<1>5. CASE queue # <<>>
  <2>. DEFINE h == Head(queue)
  <2>1. queue \in Seq(RpcShares) /\ Len(queue) > 0 /\ h = queue[1]
    <3>1. queue \in Seq(RpcShares)
      BY <1>1, <1>2 DEF TypeOK, RpcType
    <3>. HIDE DEF queue
    <3>. QED BY <1>5, <3>1, EmptySeq, LenProperties, HeadTailProperties
  <2>2. xfer[h] = "queued" /\ PoolOf[h] = p /\ h \in Shares /\ h # w
    <3>1. xfer[h] = "queued" /\ PoolOf[h] = p
      BY <1>1, <1>2, <2>1 DEF RpcOnce, CurlQueued
    <3>2. h \in Shares
      BY <2>1, ElementOfSeq DEF RpcShares
    <3>. QED BY <3>1, <3>2
  <2>3. /\ xfer'[w] = "none" /\ xfer'[h] = "running"
        /\ \A v \in Shares : v # w /\ v # h => xfer'[v] = xfer[v]
        /\ UNCHANGED curllist
        /\ \A r \in RpcPools : r # p =>
             sws_waiting_on_curl'[r] = sws_waiting_on_curl[r]
    BY <1>1, <1>5, <2>2 DEF FinishRpc, TypeOK, RpcType
  <2>4. \A r \in RpcPools : r # p => ActiveOf(r)' = ActiveOf(r)
    BY <2>2, <2>3 DEF ActiveOf
  <2>5. ActiveOf(p)' = (ActiveOf(p) \ {w}) \cup {h} /\ h \notin ActiveOf(p)
    BY <2>2, <2>3 DEF ActiveOf
  <2>. HIDE DEF p, h
  <2>6. Cardinality(ActiveOf(p)') = Cardinality(ActiveOf(p))
    <3>1. IsFiniteSet(ActiveOf(p) \ {w})
      BY ActiveFinite, FS_RemoveElement
    <3>2. Cardinality((ActiveOf(p) \ {w}) \cup {h})
            = Cardinality(ActiveOf(p) \ {w}) + 1
      BY <2>5, <3>1, FS_AddElement
    <3>. QED BY <1>3, <1>4, <2>5, <3>2
  <2>7. HandlesExact'
    BY <1>1, <2>3, <2>4, <2>6 DEF HandlesExact
  <2>8. QueueWillBeServed'
    <3>. SUFFICES ASSUME NEW r \in RpcPools, sws_waiting_on_curl'[r] # <<>>
                  PROVE  ActiveOf(r)' # {}
      BY DEF QueueWillBeServed, ActiveOf
    <3>1. CASE r = p
      BY <2>5, <3>1
    <3>2. CASE r # p
      BY <2>3, <2>4, <3>2 DEF ServeInv, QueueWillBeServed, ActiveOf
    <3>. QED BY <3>1, <3>2
  <2>. QED BY <2>7, <2>8 DEF ServeInv
<1>6. CASE queue = <<>>
  <2>1. /\ xfer'[w] = "none"
        /\ \A v \in Shares : v # w => xfer'[v] = xfer[v]
        /\ curllist'[p] = curllist[p] + 1
        /\ \A r \in RpcPools : r # p => curllist'[r] = curllist[r]
        /\ UNCHANGED sws_waiting_on_curl
    BY <1>1, <1>2, <1>6 DEF FinishRpc, TypeOK, RpcType, HandleType
  <2>2. \A r \in RpcPools : r # p => ActiveOf(r)' = ActiveOf(r)
    BY <2>1 DEF ActiveOf
  <2>3. ActiveOf(p)' = ActiveOf(p) \ {w}
    BY <2>1 DEF ActiveOf
  <2>4. sws_waiting_on_curl'[p] = <<>>
    BY <1>6, <2>1
  <2>. HIDE DEF p, queue
  <2>5. /\ curllist'[p] >= 0
        /\ curls'[p] = curllist'[p] + If(p \in getworking')
                       + Cardinality(ActiveOf(p)')
    BY <1>3, <1>4, <2>1, <2>3
  <2>6. HandlesExact'
    BY <1>1, <2>1, <2>2, <2>5 DEF HandlesExact
  <2>7. QueueWillBeServed'
    <3>. SUFFICES ASSUME NEW r \in RpcPools, sws_waiting_on_curl'[r] # <<>>
                  PROVE  ActiveOf(r)' # {}
      BY DEF QueueWillBeServed, ActiveOf
    <3>. QED BY <2>1, <2>2, <2>4 DEF ServeInv, QueueWillBeServed, ActiveOf
  <2>. QED BY <2>6, <2>7 DEF ServeInv
<1>. QED BY <1>5, <1>6

\* The other changes of a transfer keep it active.
LEMMA ServeTransfer ==
  ASSUME ServeInv, WipInv', NEW w \in Shares,
         NEW state \in {"running", "replied", "failed"},
         xfer[w] \in {"running", "failed"}, xfer' = [xfer EXCEPT ![w] = state],
         UNCHANGED handleVars, UNCHANGED sws_waiting_on_curl
  PROVE  ServeInv'
<1>1. /\ xfer'[w] = state
      /\ \A v \in Shares : v # w => xfer'[v] = xfer[v]
  BY DEF ServeInv, WipInv, TypeOK, RpcType
<1>2. \A p \in RpcPools : ActiveOf(p)' = ActiveOf(p)
  BY <1>1 DEF ActiveOf
<1>. QED BY <1>2, ServeFrame

-----------------------------------------------------------------------------
\* Every step keeps the handles exact and the queues served.
LEMMA ServePreserved == ServeInv /\ [Next]_vars => ServeInv'
<1>. SUFFICES ASSUME ServeInv, [Next]_vars PROVE ServeInv'
  OBVIOUS
<1>0. WipInv /\ WipInv'
  BY WipPreserved DEF ServeInv
<1>. USE <1>0 DEF submitSide, curlVars, rpcVars, othersOfThread, othersOfStratum,
                  othersOfConn, othersOfSend
<1>1. CASE KillWork
  BY <1>1, ServeFrame, ActiveFrame DEF KillWork
<1>2. CASE LockSubmitting
  BY <1>2, ServeFrame, ActiveFrame DEF LockSubmitting
<1>3. CASE DiscardStale
  BY <1>3, ServeFrame, ActiveFrame DEF DiscardStale
<1>4. CASE BeginStratum
  BY <1>4, ServeFrame, ActiveFrame DEF BeginStratum
<1>5. CASE UnlockSubmitting
  BY <1>5, ServeFrame, ActiveFrame DEF UnlockSubmitting
<1>6. CASE Select
  BY <1>6, ServeFrame, ActiveFrame DEF Select
<1>7. CASE SelectError
  BY <1>7, ServeFrame, ActiveFrame DEF SelectError
<1>8. CASE SkipSubmission
  BY <1>8, ServeFrame, ActiveFrame DEF SkipSubmission
<1>9. CASE DiscardOtherSession
  BY <1>9, ServeFrame, ActiveFrame DEF DiscardOtherSession
<1>10. CASE SessionMatches
  BY <1>10, ServeFrame, ActiveFrame DEF SessionMatches, ThreadMoves
<1>11. CASE AddStratumShare
  BY <1>11, ServeFrame, ActiveFrame DEF AddStratumShare
<1>12. CASE SendOk
  BY <1>12, ServeFrame, ActiveFrame DEF SendOk
<1>13. CASE SendFails
  BY <1>13, ServeFrame, ActiveFrame DEF SendFails
<1>14. CASE SuspendAfterSend
  BY <1>14, ServeFrame, ActiveFrame DEF SuspendAfterSend
<1>15. CASE SendInactive
  BY <1>15, ServeFrame, ActiveFrame DEF SendInactive
<1>16. CASE UndoConsumed
  BY <1>16, ServeFrame, ActiveFrame DEF UndoConsumed
<1>17. CASE EndScan
  BY <1>17, ServeFrame, ActiveFrame DEF EndScan, ThreadMoves
<1>18. CASE EndRound
  BY <1>18, ServeFrame, ActiveFrame DEF EndRound, ThreadMoves
<1>19. ASSUME NEW e \in stratum_shares, UndoFound(e) PROVE ServeInv'
  BY <1>19, ServeFrame, ActiveFrame DEF UndoFound
<1>20. CASE BeginRpc
  BY <1>20, ServeBegin
<1>21. ASSUME NEW w \in Shares, RpcAnswered(w) PROVE ServeInv'
  BY <1>21, ServeFinish DEF RpcAnswered
<1>22. ASSUME NEW w \in Shares, RpcGivenUp(w) PROVE ServeInv'
  BY <1>22, ServeFinish DEF RpcGivenUp
<1>23. ASSUME NEW w \in Shares, RpcRetried(w) PROVE ServeInv'
  BY <1>23, ServeTransfer DEF RpcRetried
<1>24. ASSUME NEW w \in Shares, TransferReplies(w) PROVE ServeInv'
  BY <1>24, ServeTransfer DEF TransferReplies
<1>25. ASSUME NEW w \in Shares, TransferFails(w) PROVE ServeInv'
  BY <1>25, ServeTransfer DEF TransferFails
<1>26. ASSUME NEW w \in Shares, SubmitWorkAsync(w) PROVE ServeInv'
  BY <1>26, ServeFrame, ActiveFrame DEF SubmitWorkAsync
<1>27. ASSUME NEW p \in RpcPools, CurlPool(p) PROVE ServeInv'
  BY <1>27, ServeHandles DEF CurlPool
<1>28. ASSUME NEW p \in StratumPools, SetExtranonce(p) PROVE ServeInv'
  BY <1>28, ServeFrame, ActiveFrame DEF SetExtranonce
<1>29. ASSUME NEW p \in StratumPools, Notify(p) PROVE ServeInv'
  BY <1>29, ServeFrame, ActiveFrame DEF Notify
<1>30. ASSUME NEW p \in StratumPools, Interrupted(p) PROVE ServeInv'
  BY <1>30, ServeFrame, ActiveFrame DEF Interrupted, LoseConnection
<1>31. ASSUME NEW p \in StratumPools, Suspended(p) PROVE ServeInv'
  BY <1>31, ServeFrame, ActiveFrame DEF Suspended, LoseConnection
<1>32. ASSUME NEW p \in StratumPools, LockResubmit(p) PROVE ServeInv'
  BY <1>32, ServeFrame, ActiveFrame DEF LockResubmit, StratumMoves
<1>33. ASSUME NEW p \in StratumPools, EndResubmit(p) PROVE ServeInv'
  BY <1>33, ServeFrame, ActiveFrame DEF EndResubmit, StratumMoves
<1>34. ASSUME NEW p \in StratumPools, LockClear(p) PROVE ServeInv'
  BY <1>34, ServeFrame, ActiveFrame DEF LockClear, StratumMoves
<1>35. ASSUME NEW p \in StratumPools, EndClear(p) PROVE ServeInv'
  BY <1>35, ServeFrame, ActiveFrame DEF EndClear, StratumMoves
<1>36. ASSUME NEW p \in StratumPools, SubtractCleared(p) PROVE ServeInv'
  BY <1>36, ServeFrame, ActiveFrame DEF SubtractCleared
<1>37. ASSUME NEW p \in StratumPools, BeginInitiate(p) PROVE ServeInv'
  BY <1>37, ServeFrame, ActiveFrame DEF BeginInitiate
<1>38. ASSUME NEW p \in StratumPools, SubscribeOk(p) PROVE ServeInv'
  BY <1>38, ServeFrame, ActiveFrame DEF SubscribeOk
<1>39. ASSUME NEW p \in StratumPools, SubscribeFails(p) PROVE ServeInv'
  BY <1>39, ServeFrame, ActiveFrame DEF SubscribeFails
<1>40. ASSUME NEW p \in StratumPools, AuthOk(p) PROVE ServeInv'
  BY <1>40, ServeFrame, ActiveFrame DEF AuthOk, StratumMoves
<1>41. ASSUME NEW p \in StratumPools, AuthRefused(p) PROVE ServeInv'
  BY <1>41, ServeFrame, ActiveFrame DEF AuthRefused
<1>42. ASSUME NEW p \in StratumPools, AuthLost(p) PROVE ServeInv'
  BY <1>42, ServeFrame, ActiveFrame DEF AuthLost
<1>43. ASSUME NEW p \in StratumPools, Revive(p) PROVE ServeInv'
  BY <1>43, ServeFrame, ActiveFrame DEF Revive
<1>44. ASSUME NEW p \in StratumPools, NEW id \in wire[p],
             AnswerUntracked(p, id)
      PROVE  ServeInv'
  BY <1>44, ServeFrame, ActiveFrame DEF AnswerUntracked
<1>45. ASSUME NEW p \in StratumPools, NEW id \in wire[p],
             AuthDropsAnswer(p, id)
      PROVE  ServeInv'
  BY <1>45, ServeFrame, ActiveFrame DEF AuthDropsAnswer
<1>46. ASSUME NEW p \in StratumPools, NEW id \in wire[p], NEW e \in stratum_shares,
             Answer(p, id, e)
      PROVE  ServeInv'
  BY <1>46, ServeFrame, ActiveFrame DEF Answer
<1>47. ASSUME NEW p \in StratumPools, NEW t \in taken,
             CountAnswer(p, t)
      PROVE  ServeInv'
  BY <1>47, ServeFrame, ActiveFrame DEF CountAnswer
<1>48. ASSUME NEW p \in StratumPools, NEW e \in stratum_shares,
             ResubmitOne(p, e)
      PROVE  ServeInv'
  BY <1>48, ServeFrame, ActiveFrame DEF ResubmitOne
<1>49. ASSUME NEW p \in StratumPools, NEW e \in stratum_shares,
             ClearOne(p, e)
      PROVE  ServeInv'
  BY <1>49, ServeFrame, ActiveFrame DEF ClearOne
<1>50. CASE UNCHANGED vars
  BY <1>50, ServeFrame, ActiveFrame DEF vars
<1>. QED
  BY <1>1, <1>2, <1>3, <1>4, <1>5, <1>6, <1>7, <1>8, <1>9, <1>10, <1>11,
     <1>12, <1>13, <1>14, <1>15, <1>16, <1>17, <1>18, <1>19, <1>20, <1>21,
     <1>22, <1>23, <1>24, <1>25, <1>26, <1>27, <1>28, <1>29, <1>30, <1>31,
     <1>32, <1>33, <1>34, <1>35, <1>36, <1>37, <1>38, <1>39, <1>40, <1>41,
     <1>42, <1>43, <1>44, <1>45, <1>46, <1>47, <1>48, <1>49, <1>50
  DEF Next, SubmitThread, StratumThread, Transfer

\* No handle exists and nobody waits for one.
LEMMA ServeInit == Init => ServeInv
<1>. SUFFICES ASSUME Init PROVE ServeInv
  OBVIOUS
<1>1. \A p \in RpcPools : ActiveOf(p) = {}
  BY DEF Init, ActiveOf
<1>2. HandlesExact
  <2>1. \A p \in RpcPools : Cardinality(ActiveOf(p)) = 0
    BY <1>1, FS_EmptySet
  <2>2. \A p \in RpcPools : curls[p] = 0 /\ curllist[p] = 0
    BY DEF Init
  <2>3. \A p \in RpcPools : If(p \in getworking) = 0
    BY DEF Init, If
  <2>. QED BY <2>1, <2>2, <2>3 DEF HandlesExact
<1>3. QueueWillBeServed
  BY DEF Init, QueueWillBeServed
<1>. QED BY <1>2, <1>3, WipInit DEF ServeInv

\* A submission in sws_waiting_on_curl is never stranded: some transfer of its
\* pool is under way, and will hand its curl handle over when it ends.
THEOREM QueueServed == Spec => []QueueWillBeServed
<1>1. ServeInv => QueueWillBeServed
  BY DEF ServeInv
<1>. QED BY <1>1, ServeInit, ServePreserved, PTL DEF Spec
=============================================================================
