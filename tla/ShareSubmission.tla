-------------------------- MODULE ShareSubmission --------------------------
(***************************************************************************)
(* How BFGMiner hands found shares to its pools (miner.c, util.c).         *)
(*                                                                         *)
(* Mining threads queue a found share on submit_waiting and wake the one   *)
(* submit_work_thread.  For a stratum pool that thread keeps the share on  *)
(* its private list write_sws until the pool's socket is writable, enters  *)
(* it in the shared table stratum_shares, and sends it.  The pool's own    *)
(* stratum_thread takes the answers off the socket, finds the table entry  *)
(* and counts the share; when the connection is lost it clears or          *)
(* resubmits every entry of the pool and reconnects.  For a JSON-RPC pool  *)
(* the submit thread runs one HTTP transfer per share and retries it.      *)
(*                                                                         *)
(* Locks: submitting_lock (queue and total_submitting), sshare_lock (the   *)
(* table), stratum_lock (one send, one suspend).  A step below is either   *)
(* one critical section or the accesses between two of them.               *)
(***************************************************************************)
EXTENDS Integers, SequencesExt

CONSTANTS
    Shares,           \* the shares the devices find
    StratumPools,     \* pools spoken to over a stratum connection
    RpcPools,         \* pools spoken to over JSON-RPC (getwork, GBT)
    PoolOf,           \* work->pool of every share
    OptSubmitStale,   \* opt_submit_stale
    OptRetries,       \* opt_retries, -1 means retry for ever
    CurlLimit,        \* MAX(curl_limit, opt_submit_threads); curl_limit is at
                      \* least 2 as soon as one device can find a share
    MaxSession,       \* bound on the sessions opened by mining.set_extranonce
    MaxEntries,       \* bound on the stratum_share structs ever allocated
    MaxDrops          \* bound on failures: connections lost or refused,
                      \* sends and transfers that fail

ASSUME SubmissionAssumption ==
    /\ StratumPools \cap RpcPools = {}
    /\ PoolOf \in [Shares -> StratumPools \cup RpcPools]
    /\ IsFiniteSet(Shares)
    /\ OptSubmitStale \in BOOLEAN
    /\ OptRetries \in Int /\ OptRetries >= -1
    /\ CurlLimit \in Nat /\ CurlLimit >= 2
    /\ MaxSession \in Nat /\ MaxEntries \in Nat /\ MaxDrops \in Nat

VARIABLES
    submit_waiting,   \* queue of found works, under submitting_lock
    total_submitting, \* the AS counter of the status line, same lock
    notified,         \* submit_waiting_notifier holds an unread byte
    shutting_down,
    found,            \* shares the devices have submitted so far
    work_nonce1,      \* work->nonce1, the session a work was generated in
    pc,               \* where submit_work_thread is
    rfd, wfds,        \* its select() sets: the notifier, pools' sockets
    write_sws, pos,   \* stratum submissions not sent, and the scan's swsp
    wip, tsreduce,    \* its counters
    sshare,           \* the table entry of the send in progress
    xfer,             \* state of each share's HTTP transfer
    work_stale,       \* works whose stale flag is set
    failures,         \* sws->failures
    sws_waiting_on_curl, curls, curllist, getworking, \* curl pool per pool
    stratum_shares,   \* the table of shares waiting for an answer
    swork_id,         \* next JSON-RPC id
    allocated,        \* number of stratum_share structs ever allocated
    sock, stratum_active, stratum_notify, stratum_init, submit_fail,
    sessionid,        \* pools whose last subscription gave a session id
    nonce1, next_nonce1, \* swork.nonce1 and next_nonce1 of a pool
    wire,             \* ids sent on the live connection, not yet answered
    sthread, onfail,  \* where a stratum thread is; what a failure leads to
    idtmp,            \* swork_id as initiate_stratum has read it
    taken,            \* entries a stratum thread has unlinked and not yet
                      \* subtracted from total_submitting
    counted,          \* times a share entered accepted, rejected or stale
    phantoms,         \* entries left behind by a failed send
    leaked,           \* their shares, and those an id in use twice mixes up
    lost,             \* entries whose connection closed before the answer
    drops             \* failures so far

queueVars   == <<submit_waiting, total_submitting, notified>>
minerVars   == <<shutting_down, found, work_nonce1>>
fdVars      == <<rfd, wfds>>
listVars    == <<write_sws, pos>>
countVars   == <<wip, tsreduce>>
threadVars  == <<pc, fdVars, listVars, countVars, sshare>>
rpcVars     == <<xfer, work_stale, failures, sws_waiting_on_curl>>
handleVars  == <<curls, curllist, getworking>>
curlVars    == <<rpcVars, handleVars>>
tableVars   == <<stratum_shares, swork_id, allocated>>
connVars    == <<sock, stratum_active, stratum_notify, wire, lost>>
poolVars    == <<stratum_init, sessionid, nonce1, next_nonce1>>
stratumVars == <<sthread, onfail, idtmp, taken>>
ledgerVars  == <<counted, phantoms, leaked>>

submitSide  == <<minerVars, threadVars, curlVars, submit_fail>>
stratumSide == <<tableVars, connVars, poolVars, stratumVars>>
othersOfThread  == <<queueVars, minerVars, curlVars, stratumSide, submit_fail,
                     ledgerVars, drops>>
othersOfStratum == <<queueVars, submitSide, tableVars, connVars, poolVars,
                     ledgerVars, drops>>
othersOfConn    == <<queueVars, submitSide, tableVars, ledgerVars>>
othersOfSend    == <<queueVars, minerVars, curlVars, poolVars, stratumVars, fdVars,
                     listVars, countVars, sshare, counted>>

vars == <<queueVars, submitSide, stratumSide, ledgerVars, drops>>

Pools == StratumPools \cup RpcPools
StratumShares == {w \in Shares : PoolOf[w] \in StratumPools}
RpcShares     == {w \in Shares : PoolOf[w] \in RpcPools}

\* A struct stratum_share: addr stands for its address, id for the key it is
\* hashed under.
Entry == [addr : Nat, id : Nat, work : Shares]

EntriesOf(p) == {e \in stratum_shares : PoolOf[e.work] = p}
TakenBy(p)   == {t \in taken : t.by = p}

SshareLocked    == \E p \in StratumPools : sthread[p] \in {"resubmit", "clear"}
SubmittingLocked ==
    pc = "receive" \/ \E p \in StratumPools : sthread[p] = "resubmit"

Ready(p) == p \in sock \cap stratum_init \cap stratum_notify

Count(w) == counted' = [counted EXCEPT ![w] = @ + 1]

-----------------------------------------------------------------------------
Init ==
    /\ submit_waiting = <<>> /\ total_submitting = 0 /\ notified = FALSE
    /\ shutting_down = FALSE
    /\ found = {} /\ work_nonce1 = [w \in Shares |-> 0]
    /\ pc = "top" /\ rfd = FALSE /\ wfds = {}
    /\ write_sws = <<>> /\ pos = 1 /\ wip = 0 /\ tsreduce = 0
    /\ sshare = [addr |-> 0, id |-> 0]
    /\ xfer = [w \in Shares |-> "none"] /\ work_stale = {}
    /\ failures = [w \in Shares |-> 0]
    /\ sws_waiting_on_curl = [p \in RpcPools |-> <<>>]
    /\ curls = [p \in RpcPools |-> 0] /\ curllist = [p \in RpcPools |-> 0]
    /\ getworking = {}
    /\ stratum_shares = {} /\ swork_id = 0 /\ allocated = 0
    /\ sock = StratumPools /\ stratum_active = StratumPools
    /\ stratum_notify = StratumPools /\ stratum_init = StratumPools
    /\ submit_fail = {} /\ sessionid \in SUBSET StratumPools
    /\ nonce1 = [p \in StratumPools |-> 0]
    /\ next_nonce1 = [p \in StratumPools |-> 0]
    /\ wire = [p \in StratumPools |-> {}] /\ lost = {}
    /\ sthread = [p \in StratumPools |-> "serve"]
    /\ onfail = [p \in StratumPools |-> "shutdown"]
    /\ idtmp = [p \in StratumPools |-> 0] /\ taken = {}
    /\ counted = [w \in Shares |-> 0] /\ phantoms = 0 /\ leaked = {}
    /\ drops = 0

-----------------------------------------------------------------------------
(* Mining threads and shutdown.                                            *)

\* submit_work_async2: queue a share.  It may come from any earlier session:
\* devices go on with work the pool has already replaced.
SubmitWorkAsync(w) ==
    /\ w \notin found /\ ~SubmittingLocked
    /\ found' = found \cup {w}
    /\ \E s \in IF w \in StratumShares THEN 0 .. nonce1[PoolOf[w]] ELSE {0} :
         work_nonce1' = [work_nonce1 EXCEPT ![w] = s]
    /\ total_submitting' = total_submitting + 1
    /\ submit_waiting' = Append(submit_waiting, w)
    /\ notified' = TRUE
    /\ UNCHANGED <<stratumSide, threadVars, curlVars, ledgerVars,
                   shutting_down, submit_fail, drops>>

\* Faulty variant: the submit thread is not woken.
MutantKillWork ==
    /\ ~shutting_down
    /\ shutting_down' = TRUE
    /\ UNCHANGED <<stratumSide, threadVars, curlVars, ledgerVars, queueVars,
                   found, work_nonce1, submit_fail, drops>>

\* __kill_work
KillWork ==
    /\ ~shutting_down
    /\ shutting_down' = TRUE
    /\ notified' = TRUE
    /\ UNCHANGED <<stratumSide, threadVars, curlVars, ledgerVars,
                   submit_waiting, total_submitting, found, work_nonce1,
                   submit_fail, drops>>

-----------------------------------------------------------------------------
(* submit_work_thread: receiving new submissions under submitting_lock.    *)

\* Faulty variant: tsreduce is subtracted and not reset.
MutantLockSubmitting ==
    /\ pc = "top" /\ ~SubmittingLocked
    /\ pc' = "receive"
    /\ total_submitting' = total_submitting - tsreduce
    /\ notified' = (notified /\ ~rfd)
    /\ UNCHANGED <<stratumSide, curlVars, minerVars, ledgerVars, fdVars,
                   listVars, countVars, submit_waiting, sshare,
                   submit_fail, drops>>

LockSubmitting ==
    /\ pc = "top" /\ ~SubmittingLocked
    /\ pc' = "receive"
    /\ total_submitting' = total_submitting - tsreduce
    /\ tsreduce' = 0
    /\ notified' = (notified /\ ~rfd)
    /\ UNCHANGED <<stratumSide, curlVars, minerVars, ledgerVars, fdVars,
                   listVars, submit_waiting, sshare, submit_fail, drops,
                   wip>>

\* begin_submission of a stale share that neither the user nor the pool wants.
DiscardStale ==
    /\ pc = "receive" /\ submit_waiting # <<>> /\ ~OptSubmitStale
    /\ submit_waiting' = Tail(submit_waiting)
    /\ Count(Head(submit_waiting))
    /\ total_submitting' = total_submitting - 1
    /\ UNCHANGED <<submitSide, stratumSide, notified, phantoms, drops, leaked>>

\* begin_submission, stratum: the submission joins write_sws.
BeginStratum ==
    /\ pc = "receive" /\ submit_waiting # <<>>
    /\ Head(submit_waiting) \in StratumShares
    /\ submit_waiting' = Tail(submit_waiting)
    /\ write_sws' = Cons(Head(submit_waiting), write_sws)
    /\ wip' = wip + 1
    /\ UNCHANGED <<stratumSide, curlVars, minerVars, ledgerVars, fdVars,
                   total_submitting, notified, pc, sshare, submit_fail,
                   tsreduce, pos, drops>>

\* begin_submission, JSON-RPC: pop_curl_entry2 gives an idle curl handle, or
\* recruits one, or the submission waits for another one to finish.
BeginRpc ==
    /\ pc = "receive" /\ submit_waiting # <<>>
    /\ Head(submit_waiting) \notin StratumShares
    /\ LET w == Head(submit_waiting)
           p == PoolOf[w]
           idle == curllist[p] > 0
           recruit == ~idle /\ (curls[p] = 0 \/ curls[p] < CurlLimit)
       IN /\ submit_waiting' = Tail(submit_waiting)
          /\ wip' = wip + 1
          /\ work_stale' \in {work_stale, work_stale \cup {w}}
          /\ curllist' = [curllist EXCEPT ![p] = IF idle THEN @ - 1 ELSE @]
          /\ curls' = [curls EXCEPT ![p] = IF recruit THEN @ + 1 ELSE @]
          /\ xfer' = [xfer EXCEPT ![w] =
                        IF idle \/ recruit THEN "running" ELSE "queued"]
          /\ sws_waiting_on_curl' = [sws_waiting_on_curl EXCEPT ![p] =
                        IF idle \/ recruit THEN @ ELSE Cons(w, @)]
    /\ UNCHANGED <<stratumSide, minerVars, ledgerVars, fdVars, listVars,
                   total_submitting, notified, pc, sshare, failures,
                   getworking, submit_fail, tsreduce, drops>>

\* Faulty variant: leaves on shutdown whatever is in progress.
MutantUnlockSubmitting ==
    /\ pc = "receive" /\ submit_waiting = <<>>
    /\ IF shutting_down
       THEN pc' = "exited" /\ UNCHANGED wfds
       ELSE /\ pc' = "select"
            /\ wfds' = {p \in StratumPools :
                          Ready(p) /\ \E w \in ToSet(write_sws) : PoolOf[w] = p}
    /\ UNCHANGED <<othersOfThread, listVars, countVars, sshare, rfd>>

\* Queue empty: leave the loop if shutting down with nothing in progress, else
\* unlock and build the select() sets from the pools that could be written to.
UnlockSubmitting ==
    /\ pc = "receive" /\ submit_waiting = <<>>
    /\ IF shutting_down /\ wip = 0
       THEN pc' = "exited" /\ UNCHANGED wfds
       ELSE /\ pc' = "select"
            /\ wfds' = {p \in StratumPools :
                          Ready(p) /\ \E w \in ToSet(write_sws) : PoolOf[w] = p}
    /\ UNCHANGED <<othersOfThread, listVars, countVars, sshare, rfd>>

\* Faulty variant: the scan starts one before the head of the list.
MutantSelect ==
    /\ pc = "select"
    /\ wfds' \in SUBSET wfds
    /\ notified \/ wfds' # {}
    /\ rfd' = notified
    /\ pc' = "write" /\ pos' = 0
    /\ UNCHANGED <<othersOfThread, countVars, sshare, write_sws>>

\* select() returns: the notifier, some of the watched sockets, or cURL has
\* something.  With an empty set and nothing else it sleeps without a timeout.
Select ==
    /\ pc = "select"
    /\ wfds' \in SUBSET wfds
    /\ \/ notified \/ wfds' # {}
       \/ \E w \in Shares : xfer[w] \in {"replied", "failed"}
    /\ rfd' = notified
    /\ pc' = "write" /\ pos' = 1
    /\ UNCHANGED <<othersOfThread, countVars, sshare, write_sws>>

\* select() < 0: a watched socket was closed by another thread.
SelectError ==
    /\ pc = "select" /\ wfds \ sock # {}
    /\ rfd' = FALSE
    /\ pc' = "top"
    /\ UNCHANGED <<othersOfThread, listVars, countVars, sshare, wfds>>

-----------------------------------------------------------------------------
(* submit_work_thread: the scan of write_sws.                              *)

Scanned == write_sws[pos]
ScanPool == PoolOf[Scanned]
Scanning == pc = "write" /\ pos <= Len(write_sws)

\* Faulty variant: --wip is forgotten.
MutantDeleteScanned ==
    /\ wfds' = wfds \ {ScanPool}
    /\ write_sws' = RemoveAt(write_sws, pos)
    /\ UNCHANGED wip

\* next_write_sws_del: clear the socket's bit, drop the submission.
DeleteScanned ==
    /\ wfds' = wfds \ {ScanPool}
    /\ write_sws' = RemoveAt(write_sws, pos)
    /\ wip' = wip - 1

\* The pool cannot be written to now: next_write_sws.
SkipSubmission ==
    /\ Scanning /\ ~(Ready(ScanPool) /\ ScanPool \in wfds)
    /\ pos' = pos + 1
    /\ UNCHANGED <<othersOfThread, fdVars, countVars, pc, sshare, write_sws>>

\* Another session now: the share is discarded as "disconnect".
DiscardOtherSession ==
    /\ Scanning /\ Ready(ScanPool) /\ ScanPool \in wfds
    /\ work_nonce1[Scanned] # nonce1[ScanPool]
    /\ Count(Scanned)
    /\ tsreduce' = tsreduce + 1
    /\ DeleteScanned
    /\ UNCHANGED <<stratumSide, curlVars, queueVars, minerVars, pc, sshare,
                   submit_fail, phantoms, rfd, pos, drops, leaked>>

ThreadMoves(from, to) ==
    /\ pc = from /\ pc' = to
    /\ UNCHANGED <<othersOfThread, fdVars, listVars, countVars, sshare>>

SessionMatches ==
    /\ ThreadMoves("write", "add")
    /\ Scanning /\ Ready(ScanPool) /\ ScanPool \in wfds
    /\ work_nonce1[Scanned] = nonce1[ScanPool]

\* Under sshare_lock: take an id and enter the share in the table.
AddStratumShare ==
    /\ pc = "add" /\ ~SshareLocked /\ allocated < MaxEntries
    /\ LET e == [addr |-> allocated, id |-> swork_id, work |-> Scanned]
       IN /\ stratum_shares' = stratum_shares \cup {e}
          /\ sshare' = [addr |-> e.addr, id |-> e.id]
    /\ swork_id' = swork_id + 1
    /\ allocated' = allocated + 1
    /\ pc' = "send"
    /\ UNCHANGED <<curlVars, connVars, poolVars, stratumVars, queueVars,
                   minerVars, ledgerVars, fdVars, listVars, countVars,
                   submit_fail, drops>>

\* stratum_send succeeds: the table entry now stands for the submission.
SendOk ==
    /\ pc = "send" /\ ScanPool \in stratum_active
    /\ wire' = [wire EXCEPT ![ScanPool] = @ \cup {sshare.id}]
    /\ submit_fail' = submit_fail \ {ScanPool}
    /\ DeleteScanned
    /\ pc' = "write"
    /\ UNCHANGED <<curlVars, poolVars, stratumVars, queueVars, minerVars,
                   tableVars, ledgerVars, sshare, stratum_active,
                   tsreduce, sock, rfd, pos, drops, stratum_notify,
                   lost>>

\* __stratum_send fails under stratum_lock; suspend_stratum comes after it.
SendFails ==
    /\ pc = "send" /\ ScanPool \in stratum_active /\ drops < MaxDrops
    /\ drops' = drops + 1
    /\ pc' = "suspend"
    /\ UNCHANGED <<othersOfSend, connVars, tableVars, submit_fail, phantoms,
                   leaked>>

\* What closing the connection of p does to the shared state.
CloseConnection(p) ==
    /\ sock' = sock \ {p}
    /\ stratum_active' = stratum_active \ {p}
    /\ stratum_notify' = stratum_notify \ {p}
    /\ wire' = [wire EXCEPT ![p] = {}]
    /\ lost' = lost \cup {e \in EntriesOf(p) : e.id \in wire[p]}

\* What the submit thread does once stratum_send has returned false: the first
\* failure goes on to undo the entry; while submit_fail is already set nothing
\* is undone and the same submission is scanned again.
SendFailed ==
    IF ScanPool \notin submit_fail
    THEN /\ submit_fail' = submit_fail \cup {ScanPool}
         /\ pc' = "undo"
         /\ UNCHANGED <<phantoms, leaked>>
    ELSE /\ phantoms' = phantoms + 1
         /\ leaked' = leaked \cup {Scanned}
         /\ pc' = "write"
         /\ UNCHANGED submit_fail

\* suspend_stratum, on whatever connection the pool has by now.
SuspendAfterSend ==
    /\ pc = "suspend"
    /\ CloseConnection(ScanPool)
    /\ SendFailed
    /\ UNCHANGED <<othersOfSend, tableVars, drops>>

SendInactive ==
    /\ pc = "send" /\ ScanPool \notin stratum_active
    /\ SendFailed
    /\ UNCHANGED <<othersOfSend, connVars, tableVars, drops>>

\* "Undo stuff" under sshare_lock, the entry still being there: keep the
\* submission for the next round.  HASH_FIND_INT looks the entry up by its id: it
\* may be the entry of another share when an id has been given out twice.
UndoFound(e) ==
    /\ pc = "undo" /\ ~SshareLocked
    /\ e \in stratum_shares /\ e.id = sshare.id
    /\ stratum_shares' = stratum_shares \ {e}
    /\ leaked' = IF e.work = Scanned THEN leaked
                 ELSE leaked \cup {Scanned, e.work}
    /\ pc' = "write" /\ pos' = pos + 1
    /\ UNCHANGED <<curlVars, connVars, poolVars, stratumVars, queueVars,
                   minerVars, counted, phantoms, fdVars, countVars, sshare,
                   submit_fail, drops, allocated, swork_id, write_sws>>

\* Faulty variant: the submission is kept although its entry has been consumed.
MutantUndoConsumed ==
    /\ pc = "undo" /\ ~SshareLocked
    /\ \A e \in stratum_shares : e.id # sshare.id
    /\ pc' = "write" /\ pos' = pos + 1
    /\ UNCHANGED <<othersOfThread, fdVars, countVars, sshare, write_sws>>

\* Something else has consumed the entry: it stands for the submission.
UndoConsumed ==
    /\ pc = "undo" /\ ~SshareLocked
    /\ \A e \in stratum_shares : e.id # sshare.id
    /\ DeleteScanned
    /\ pc' = "write"
    /\ UNCHANGED <<othersOfThread, sshare, pos, rfd, tsreduce>>

EndScan == ThreadMoves("write", "curl") /\ pos > Len(write_sws)

-----------------------------------------------------------------------------
(* submit_work_thread: finished HTTP transfers.                            *)

\* Faulty variant: the handle always goes back to the idle list.
MutantFinishRpc(w) ==
    /\ wip' = wip - 1 /\ tsreduce' = tsreduce + 1
    /\ xfer' = [xfer EXCEPT ![w] = "none"]
    /\ curllist' = [curllist EXCEPT ![PoolOf[w]] = @ + 1]
    /\ UNCHANGED sws_waiting_on_curl

\* A submission over JSON-RPC is done: its curl handle serves the submission
\* queued last, or goes back to the idle list.
FinishRpc(w) ==
    LET p == PoolOf[w]
        queue == sws_waiting_on_curl[p]
    IN /\ wip' = wip - 1
       /\ tsreduce' = tsreduce + 1
       /\ IF queue # <<>>
          THEN /\ xfer' = [xfer EXCEPT ![w] = "none", ![Head(queue)] = "running"]
               /\ sws_waiting_on_curl' =
                    [sws_waiting_on_curl EXCEPT ![p] = Tail(queue)]
               /\ UNCHANGED curllist
          ELSE /\ xfer' = [xfer EXCEPT ![w] = "none"]
               /\ curllist' = [curllist EXCEPT ![p] = @ + 1]
               /\ UNCHANGED sws_waiting_on_curl

\* submit_upstream_work_completed with an answer: share_result counts it.
RpcAnswered(w) ==
    /\ pc = "curl" /\ xfer[w] = "replied"
    /\ submit_fail' = submit_fail \ {PoolOf[w]}
    /\ Count(w)
    /\ FinishRpc(w)
    /\ UNCHANGED <<stratumSide, queueVars, minerVars, fdVars, listVars, pc,
                   sshare, work_stale, failures, curls, getworking,
                   phantoms, drops, leaked>>

RetriesLeft(w) == OptRetries < 0 \/ failures[w] < OptRetries

\* No answer, and retry_submission gives up: the share has become stale and
\* nobody wants it, the retries are used up, or (when retrying for ever) it
\* was stale already and its five minutes are over.
RpcGivenUp(w) ==
    /\ pc = "curl" /\ xfer[w] = "failed"
    /\ \/ w \notin work_stale /\ ~OptSubmitStale
       \/ ~RetriesLeft(w)
       \/ w \in work_stale /\ OptRetries < 0
    /\ submit_fail' = submit_fail \cup {PoolOf[w]}
    /\ Count(w)
    /\ FinishRpc(w)
    /\ UNCHANGED <<stratumSide, queueVars, minerVars, fdVars, listVars, pc,
                   sshare, work_stale, failures, curls, getworking,
                   phantoms, drops, leaked>>

\* Faulty variant: the handle is not added to the curl_multi again.
MutantRpcRetried(w) ==
    /\ pc = "curl" /\ xfer[w] = "failed" /\ RetriesLeft(w)
    /\ xfer' = [xfer EXCEPT ![w] = "queued"]
    /\ UNCHANGED <<stratumSide, threadVars, queueVars, minerVars, handleVars,
                   ledgerVars, work_stale, failures, sws_waiting_on_curl,
                   submit_fail, drops>>

\* No answer: the transfer is started again.
RpcRetried(w) ==
    /\ pc = "curl" /\ xfer[w] = "failed" /\ RetriesLeft(w)
    /\ submit_fail' = submit_fail \cup {PoolOf[w]}
    /\ work_stale' \in {work_stale, work_stale \cup {w}}
    /\ failures' = [failures EXCEPT ![w] = IF OptRetries < 0 THEN @ ELSE @ + 1]
    /\ xfer' = [xfer EXCEPT ![w] = "running"]
    /\ UNCHANGED <<stratumSide, threadVars, queueVars, minerVars, handleVars,
                   ledgerVars, sws_waiting_on_curl, drops>>

EndRound ==
    /\ ThreadMoves("curl", "top")
    /\ \A w \in Shares : xfer[w] \notin {"replied", "failed"}

-----------------------------------------------------------------------------
(* The JSON-RPC server, and the other users of the curl pool.              *)

TransferReplies(w) ==
    /\ xfer[w] = "running"
    /\ xfer' = [xfer EXCEPT ![w] = "replied"]
    /\ UNCHANGED <<stratumSide, threadVars, queueVars, minerVars, handleVars,
                   ledgerVars, work_stale, failures,
                   sws_waiting_on_curl, submit_fail, drops>>

TransferFails(w) ==
    /\ xfer[w] = "running" /\ drops < MaxDrops
    /\ xfer' = [xfer EXCEPT ![w] = "failed"]
    /\ drops' = drops + 1
    /\ UNCHANGED <<stratumSide, threadVars, queueVars, minerVars, handleVars,
                   ledgerVars, work_stale, failures,
                   sws_waiting_on_curl, submit_fail>>

\* The getwork scheduler takes a handle, recruiting one whatever the limit
\* (pop_curl_entry3 with blocking = 2), and gives it back to the idle list.
GetworkTakesCurl(p) ==
    /\ p \notin getworking
    /\ getworking' = getworking \cup {p}
    /\ IF curllist[p] > 0
       THEN curllist' = [curllist EXCEPT ![p] = @ - 1] /\ UNCHANGED curls
       ELSE curls' = [curls EXCEPT ![p] = @ + 1] /\ UNCHANGED curllist
    /\ UNCHANGED <<stratumSide, threadVars, rpcVars, queueVars, minerVars,
                   ledgerVars, submit_fail, drops>>

GetworkReturnsCurl(p) ==
    /\ p \in getworking
    /\ getworking' = getworking \ {p}
    /\ curllist' = [curllist EXCEPT ![p] = @ + 1]
    /\ UNCHANGED <<stratumSide, threadVars, rpcVars, queueVars, minerVars,
                   ledgerVars, curls, submit_fail, drops>>

\* reap_curl: an idle handle is dropped, never the last of the pool.
ReapCurl(p) ==
    /\ curls[p] >= 2 /\ curllist[p] > 0
    /\ curls' = [curls EXCEPT ![p] = @ - 1]
    /\ curllist' = [curllist EXCEPT ![p] = @ - 1]
    /\ UNCHANGED <<stratumSide, threadVars, rpcVars, queueVars, minerVars,
                   ledgerVars, getworking, submit_fail, drops>>

-----------------------------------------------------------------------------
(* stratum_thread of pool p: the connection is up.                         *)

\* mining.set_extranonce and a new subscription both name the next session.
NewSession(p) == next_nonce1' = [next_nonce1 EXCEPT ![p] = @ + 1]

SetExtranonce(p) ==
    /\ sthread[p] \in {"serve", "auth"} /\ p \in stratum_active
    /\ next_nonce1[p] < MaxSession
    /\ NewSession(p)
    /\ UNCHANGED <<othersOfConn, connVars, stratumVars, drops, sessionid,
                   nonce1, stratum_init>>

\* parse_notify: the next session becomes the session works are made for.
Notify(p) ==
    /\ sthread[p] \in {"serve", "auth"} /\ p \in stratum_active
    /\ nonce1' = [nonce1 EXCEPT ![p] = next_nonce1[p]]
    /\ stratum_notify' = stratum_notify \cup {p}
    /\ UNCHANGED <<othersOfConn, stratumVars, wire, drops, stratum_active,
                   sessionid, sock, next_nonce1, lost, stratum_init>>

\* parse_stratum_response: the entry of the answered id is unlinked ...
Answer(p, id, e) ==
    /\ sthread[p] = "serve" /\ ~SshareLocked
    /\ id \in wire[p]
    /\ wire' = [wire EXCEPT ![p] = @ \ {id}]
    /\ e \in stratum_shares /\ e.id = id
    /\ stratum_shares' = stratum_shares \ {e}
    /\ taken' = taken \cup {[by |-> p, share |-> e]}
    /\ sthread' = [sthread EXCEPT ![p] = "answered"]
    /\ UNCHANGED <<submitSide, poolVars, queueVars, ledgerVars, stratum_active,
                   sock, swork_id, idtmp, allocated, drops, onfail,
                   stratum_notify, lost>>

\* ... or there is none: "Accepted untracked stratum share".
AnswerUntracked(p, id) ==
    /\ sthread[p] = "serve" /\ ~SshareLocked
    /\ id \in wire[p]
    /\ wire' = [wire EXCEPT ![p] = @ \ {id}]
    /\ \A e \in stratum_shares : e.id # id
    /\ UNCHANGED <<othersOfSend, tableVars, pc, submit_fail, phantoms,
                   stratum_active, drops, sock, leaked, stratum_notify,
                   lost>>

\* ... and then total_submitting is reduced and share_result counts the share.
CountAnswer(p, t) ==
    /\ sthread[p] = "answered" /\ ~SubmittingLocked
    /\ t \in TakenBy(p)
    /\ total_submitting' = total_submitting - 1
    /\ Count(t.share.work)
    /\ taken' = taken \ {t}
    /\ sthread' = [sthread EXCEPT ![p] = "serve"]
    /\ UNCHANGED <<submitSide, connVars, poolVars, tableVars, submit_waiting,
                   notified, phantoms, idtmp, drops, leaked, onfail>>

-----------------------------------------------------------------------------
(* stratum_thread of pool p: the connection is lost.                       *)

LoseConnection(p, then) ==
    /\ sthread[p] = "serve"
    /\ p \in sock => drops < MaxDrops
    /\ drops' = IF p \in sock THEN drops + 1 ELSE drops
    /\ CloseConnection(p)
    /\ onfail' = [onfail EXCEPT ![p] = then]
    /\ sthread' = [sthread EXCEPT ![p] = "dropped"]
    /\ UNCHANGED <<othersOfConn, poolVars, idtmp, taken>>

\* recv_line gave nothing: the loop drops the connection, and one failed
\* restart_stratum will end the thread.
Interrupted(p) == LoseConnection(p, "shutdown")

\* The top of the loop finds the socket closed by the submit thread, or the
\* connection no longer needed (cnx_needed): restart_stratum until it works.
Suspended(p) == LoseConnection(p, "retry")

StratumMoves(p, from, to) ==
    /\ sthread[p] = from
    /\ sthread' = [sthread EXCEPT ![p] = to]
    /\ UNCHANGED <<othersOfStratum, idtmp, taken, onfail>>

\* resubmit_stratum_shares takes sshare_lock and submitting_lock ...
LockResubmit(p) ==
    /\ StratumMoves(p, "dropped", "resubmit")
    /\ onfail[p] # "retry" /\ p \in sessionid
    /\ ~SshareLocked /\ ~SubmittingLocked

\* Faulty variant: a cleared share is not counted.
MutantClearOne(p, e) ==
    /\ sthread[p] = "clear" /\ e \in EntriesOf(p)
    /\ taken' = taken \cup {[by |-> p, share |-> e]}
    /\ stratum_shares' = stratum_shares \ {e}
    /\ UNCHANGED <<submitSide, connVars, poolVars, queueVars, phantoms, counted,
                   swork_id, idtmp, allocated, drops, leaked, onfail,
                   sthread>>

\* ... and moves the pool's works back to submit_waiting, oldest entry first.
ResubmitOne(p, e) ==
    /\ sthread[p] = "resubmit"
    /\ e \in EntriesOf(p) /\ \A f \in EntriesOf(p) : e.addr <= f.addr
    /\ stratum_shares' = stratum_shares \ {e}
    /\ submit_waiting' = Append(submit_waiting, e.work)
    /\ notified' = TRUE
    /\ UNCHANGED <<submitSide, connVars, poolVars, stratumVars, ledgerVars,
                   total_submitting, drops, allocated, swork_id>>

EndResubmit(p) == StratumMoves(p, "resubmit", "restart") /\ EntriesOf(p) = {}

\* clear_stratum_shares takes sshare_lock ...
LockClear(p) ==
    /\ StratumMoves(p, "dropped", "clear")
    /\ onfail[p] = "retry" \/ p \notin sessionid
    /\ ~SshareLocked

\* ... drops the pool's entries and counts them as stale ...
ClearOne(p, e) ==
    /\ sthread[p] = "clear" /\ e \in EntriesOf(p)
    /\ stratum_shares' = stratum_shares \ {e}
    /\ taken' = taken \cup {[by |-> p, share |-> e]}
    /\ Count(e.work)
    /\ UNCHANGED <<submitSide, connVars, poolVars, queueVars, phantoms,
                   swork_id, idtmp, allocated, drops, leaked, onfail,
                   sthread>>

EndClear(p) == StratumMoves(p, "clear", "cleared") /\ EntriesOf(p) = {}

\* ... and subtracts their number from total_submitting.
SubtractCleared(p) ==
    /\ sthread[p] = "cleared" /\ sthread' = [sthread EXCEPT ![p] = "restart"]
    /\ ~SubmittingLocked
    /\ total_submitting' = total_submitting - Cardinality(TakenBy(p))
    /\ taken' = taken \ TakenBy(p)
    /\ UNCHANGED <<submitSide, connVars, poolVars, tableVars, ledgerVars,
                   submit_waiting, notified, onfail, drops, idtmp>>

-----------------------------------------------------------------------------
(* restart_stratum: initiate_stratum, then auth_stratum.                   *)

\* The connection is set up afresh; swork_id++ of the subscription is not
\* under sshare_lock: a read here ...
BeginInitiate(p) ==
    /\ sthread[p] = "restart" /\ sthread' = [sthread EXCEPT ![p] = "subscribe"]
    /\ CloseConnection(p)
    /\ idtmp' = [idtmp EXCEPT ![p] = swork_id]
    /\ UNCHANGED <<othersOfConn, poolVars, taken, onfail, drops>>

\* ... and a write there.  The pool resumes the session or opens a new one.
SubscribeOk(p) ==
    /\ sthread[p] = "subscribe" /\ sthread' = [sthread EXCEPT ![p] = "auth"]
    /\ swork_id' = idtmp[p] + 1
    /\ sock' = sock \cup {p} /\ stratum_active' = stratum_active \cup {p}
    /\ \/ p \in sessionid /\ next_nonce1' = [next_nonce1 EXCEPT ![p] = nonce1[p]]
       \/ NewSession(p)
    /\ sessionid' \in {sessionid \cup {p}, sessionid \ {p}}
    /\ UNCHANGED <<submitSide, queueVars, ledgerVars, wire, stratum_init,
                   idtmp, allocated, taken, stratum_shares, drops,
                   nonce1, onfail, stratum_notify, lost>>

\* What a failed (re)connection leads to: shutdown_stratum and the end of the
\* thread, another try, or the end of pool_active's probe.
ConnectFailed(p) ==
    /\ sthread' = [sthread EXCEPT ![p] =
                     IF onfail[p] = "retry" THEN "restart" ELSE "dead"]
    /\ stratum_init' = IF onfail[p] = "retry" THEN stratum_init
                       ELSE stratum_init \ {p}

SubscribeFails(p) ==
    /\ sthread[p] = "subscribe" /\ drops < MaxDrops
    /\ drops' = drops + 1
    /\ swork_id' = idtmp[p] + 1
    /\ ConnectFailed(p)
    /\ UNCHANGED <<submitSide, connVars, queueVars, ledgerVars, sessionid,
                   idtmp, allocated, taken, stratum_shares, nonce1,
                   onfail, next_nonce1>>

\* auth_stratum reads a share's answer: "Unknown stratum msg".
AuthDropsAnswer(p, id) ==
    /\ sthread[p] = "auth" /\ id \in wire[p]
    /\ wire' = [wire EXCEPT ![p] = @ \ {id}]
    /\ UNCHANGED <<othersOfSend, tableVars, pc, submit_fail, phantoms,
                   stratum_active, drops, sock, leaked, stratum_notify,
                   lost>>

AuthOk(p) == StratumMoves(p, "auth", "serve") /\ p \in sock

\* The pool refuses: the socket stays open; shutdown_stratum marks it inactive.
AuthRefused(p) ==
    /\ sthread[p] = "auth" /\ p \in sock /\ drops < MaxDrops
    /\ drops' = drops + 1
    /\ ConnectFailed(p)
    /\ stratum_active' = IF onfail[p] = "shutdown" THEN stratum_active \ {p}
                         ELSE stratum_active
    /\ UNCHANGED <<othersOfConn, wire, sessionid, sock, idtmp, taken, nonce1,
                   onfail, next_nonce1, stratum_notify, lost>>

\* The connection dies first: recv_line suspends it.
AuthLost(p) ==
    /\ sthread[p] = "auth"
    /\ p \in sock => drops < MaxDrops
    /\ drops' = IF p \in sock THEN drops + 1 ELSE drops
    /\ CloseConnection(p)
    /\ ConnectFailed(p)
    /\ UNCHANGED <<othersOfConn, sessionid, idtmp, taken, nonce1, onfail,
                   next_nonce1>>

\* pool_active on a dead pool: set stratum_init and connect once more.
Revive(p) ==
    /\ sthread[p] = "dead" /\ sthread' = [sthread EXCEPT ![p] = "restart"]
    /\ stratum_init' = stratum_init \cup {p}
    /\ onfail' = [onfail EXCEPT ![p] = "probe"]
    /\ UNCHANGED <<othersOfConn, connVars, nonce1, next_nonce1, drops, idtmp,
                   sessionid, taken>>

-----------------------------------------------------------------------------
SubmitThread ==
    \/ LockSubmitting \/ DiscardStale \/ BeginStratum \/ BeginRpc
    \/ UnlockSubmitting \/ Select \/ SelectError
    \/ SkipSubmission \/ DiscardOtherSession \/ SessionMatches
    \/ AddStratumShare \/ SendOk \/ SendFails \/ SuspendAfterSend \/ SendInactive
    \/ (\E e \in stratum_shares : UndoFound(e)) \/ UndoConsumed \/ EndScan
    \/ \E w \in Shares : RpcAnswered(w) \/ RpcGivenUp(w) \/ RpcRetried(w)
    \/ EndRound

StratumThread(p) ==
    \/ SetExtranonce(p) \/ Notify(p)
    \/ \E id \in wire[p] : \/ AnswerUntracked(p, id) \/ AuthDropsAnswer(p, id)
                           \/ \E e \in stratum_shares : Answer(p, id, e)
    \/ \E t \in taken : CountAnswer(p, t)
    \/ Interrupted(p) \/ Suspended(p)
    \/ LockResubmit(p) \/ EndResubmit(p) \/ LockClear(p) \/ EndClear(p)
    \/ \E e \in stratum_shares : ResubmitOne(p, e) \/ ClearOne(p, e)
    \/ SubtractCleared(p)
    \/ BeginInitiate(p) \/ SubscribeOk(p) \/ SubscribeFails(p)
    \/ AuthOk(p) \/ AuthRefused(p) \/ AuthLost(p) \/ Revive(p)

CurlPool(p) == GetworkTakesCurl(p) \/ GetworkReturnsCurl(p) \/ ReapCurl(p)

Transfer(w) == TransferReplies(w) \/ TransferFails(w)

Next ==
    \/ SubmitThread
    \/ \E p \in StratumPools : StratumThread(p)
    \/ \E p \in RpcPools : CurlPool(p)
    \/ \E w \in Shares : SubmitWorkAsync(w) \/ Transfer(w)
    \/ KillWork

Spec == Init /\ [][Next]_vars

\* Under fairness: the threads run, a running transfer ends, the pool answers,
\* keeps accepting connections in the end, and sends a notify after a
\* subscription.  Losing a connection, a failing transfer, finding a share and
\* shutting down are never forced.
Fairness ==
    /\ WF_vars(SubmitThread)
    /\ \A w \in Shares : SF_vars(TransferReplies(w))
    /\ \A p \in StratumPools :
         /\ WF_vars(\/ \E id \in wire[p], e \in stratum_shares : Answer(p, id, e)
                    \/ \E t \in taken : CountAnswer(p, t))
         /\ WF_vars(p \notin sock /\ (Interrupted(p) \/ Suspended(p)))
         /\ WF_vars(LockResubmit(p)) /\ WF_vars(EndResubmit(p))
         /\ WF_vars(LockClear(p)) /\ WF_vars(EndClear(p))
         /\ WF_vars(\E e \in stratum_shares : ResubmitOne(p, e) \/ ClearOne(p, e))
         /\ WF_vars(SubtractCleared(p)) /\ WF_vars(BeginInitiate(p))
         /\ SF_vars(SubscribeOk(p)) /\ SF_vars(AuthOk(p)) /\ WF_vars(Revive(p))
         /\ WF_vars(p \notin stratum_notify /\ Notify(p))

FairSpec == Spec /\ Fairness

-----------------------------------------------------------------------------
SubmitPCs == {"top", "receive", "select", "write", "add", "send", "suspend",
              "undo", "curl", "exited"}
StratumPCs == {"serve", "answered", "dropped", "resubmit", "clear", "cleared",
               "restart", "subscribe", "auth", "dead"}

QueueType ==
    /\ submit_waiting \in Seq(Shares)
    /\ total_submitting \in Int
    /\ notified \in BOOLEAN

MinerType ==
    /\ shutting_down \in BOOLEAN
    /\ found \subseteq Shares /\ work_nonce1 \in [Shares -> Nat]

ThreadType ==
    /\ pc \in SubmitPCs /\ rfd \in BOOLEAN /\ wfds \subseteq StratumPools
    /\ write_sws \in Seq(Shares) /\ pos \in Nat \ {0}
    /\ pc \in {"add", "send", "suspend", "undo"} => pos <= Len(write_sws)
    /\ wip \in Int /\ tsreduce \in Nat
    /\ sshare \in [addr : Nat, id : Nat]

RpcType ==
    /\ xfer \in [Shares -> {"none", "queued", "running", "replied", "failed"}]
    /\ work_stale \subseteq Shares /\ failures \in [Shares -> Nat]
    /\ \A w \in Shares : xfer[w] # "none" => w \in RpcShares
    /\ sws_waiting_on_curl \in [RpcPools -> Seq(RpcShares)]

HandleType ==
    /\ curls \in [RpcPools -> Int] /\ curllist \in [RpcPools -> Int]
    /\ getworking \subseteq RpcPools

TableType ==
    /\ stratum_shares \subseteq Entry
    /\ swork_id \in Nat /\ allocated \in Nat

ConnType ==
    /\ sock \subseteq StratumPools /\ stratum_active \subseteq StratumPools
    /\ stratum_notify \subseteq StratumPools
    /\ wire \in [StratumPools -> SUBSET Nat] /\ lost \subseteq Entry

PoolType ==
    /\ stratum_init \subseteq StratumPools /\ sessionid \subseteq StratumPools
    /\ nonce1 \in [StratumPools -> Nat] /\ next_nonce1 \in [StratumPools -> Nat]

StratumType ==
    /\ sthread \in [StratumPools -> StratumPCs]
    /\ onfail \in [StratumPools -> {"shutdown", "retry", "probe"}]
    /\ idtmp \in [StratumPools -> Nat]
    /\ taken \subseteq [by : StratumPools, share : Entry]

LedgerType ==
    /\ counted \in [Shares -> Nat] /\ phantoms \in Nat /\ leaked \subseteq Shares

TypeOK ==
    /\ QueueType /\ MinerType /\ ThreadType /\ RpcType /\ HandleType
    /\ TableType /\ ConnType /\ PoolType /\ StratumType /\ LedgerType
    /\ submit_fail \subseteq Pools /\ drops \in Nat

OnCurl == {w \in Shares : xfer[w] # "none"}

\* Between the table entry and the outcome of its send a share is both in the
\* table and on write_sws.
SendInProgress == pc \in {"send", "suspend", "undo"}
Overlap == IF SendInProgress THEN 1 ELSE 0

\* wip is exactly the number of submissions the submit thread owns.
WipExact == wip = Len(write_sws) + Cardinality(OnCurl)

\* assert(!write_sws) after the loop of submit_work_thread: the thread leaves
\* only when it owns no submission of any kind.
ExitsEmpty == pc = "exited" => write_sws = <<>> /\ OnCurl = {}

\* The AS counter: every share between being found and being settled is
\* counted once, whichever thread holds it, except for the entries a failed
\* send has left behind in stratum_shares.
SubmittingExact ==
    total_submitting =
        Len(submit_waiting) + Len(write_sws) + Cardinality(OnCurl)
        + Cardinality(stratum_shares) + Cardinality(taken) + tsreduce
        - Overlap - phantoms

Occurrences(w, s) == Cardinality({i \in DOMAIN s : s[i] = w})
If(b) == IF b THEN 1 ELSE 0

Places(w) ==
    Occurrences(w, submit_waiting) + Occurrences(w, write_sws)
    + If(xfer[w] # "none")
    + Cardinality({e \in stratum_shares : e.work = w})
    + Cardinality({t \in taken : t.share.work = w /\ sthread[t.by] = "answered"})
    - If(SendInProgress /\ Scanned = w)

\* A found share is in exactly one place or has been counted exactly once: no
\* interleaving of sends, answers, disconnects and resubmissions loses it or
\* settles it twice.  The exceptions are the shares of an entry left behind, and
\* two shares mixed up because their entries have the same id.
ShareConserved ==
    \A w \in Shares \ leaked : counted[w] + Places(w) = If(w \in found)

\* A submission queued for a curl handle always has a transfer of its pool in
\* progress to take the handle over from; handles given back by others are
\* never offered to it.
QueueWillBeServed ==
    \A p \in RpcPools : sws_waiting_on_curl[p] # <<>> =>
        \E w \in Shares : /\ PoolOf[w] = p
                          /\ xfer[w] \in {"running", "replied", "failed"}

\* Every share found for a JSON-RPC pool is counted in the end, as long as the
\* submit thread runs and a transfer started often enough gets its answer.
RpcSharesSettle ==
    \A w \in Shares : (w \in found /\ PoolOf[w] \in RpcPools) ~>
                      (counted[w] > 0 \/ pc = "exited")

\* "Prompting submit_work thread to finish" is effective once the pools answer.
ShutdownEnds == shutting_down ~> pc = "exited"
=============================================================================
