-------------------------- MODULE ShareRefinement --------------------------
(***************************************************************************)
(* ShareSubmission implements ShareLedger: the place of a share, read off  *)
(* the queues, lists and tables of the submit thread and the stratum       *)
(* threads.                                                                *)
(***************************************************************************)
EXTENDS ShareSubmission

HasEntry(w) == \E e \in stratum_shares : e.work = w

\* A share whose send is in progress is on write_sws too, and stands where the
\* table, or what became of its entry, says.
Held(w) ==
    \/ w \in ToSet(write_sws) /\ ~(SendInProgress /\ Scanned = w)
    \/ xfer[w] # "none"

StatusOf(w) ==
    IF w \notin found THEN "unfound"
    ELSE IF w \in leaked THEN "untracked"
    ELSE IF counted[w] = 1 THEN "settled"
    ELSE IF counted[w] > 1 THEN "astray"
    ELSE IF w \in ToSet(submit_waiting) THEN "queued"
    ELSE IF HasEntry(w) THEN "awaiting"
    ELSE IF \E t \in taken : t.share.work = w THEN "answered"
    ELSE IF Held(w) THEN "held" ELSE "astray"

status == [w \in Shares |-> StatusOf(w)]

Ledger == INSTANCE ShareLedger WITH Shares <- Shares, status <- status

\* Every step of the submit thread, of a stratum thread or of a transfer moves one
\* share along its life or none: no share is settled twice or comes back from it,
\* none is in a place it has not been sent to, whatever is sent, answered, undone,
\* cleared or resubmitted in between (miner.c:6900-7126, 9604-9758).
ImplementsLedger == Ledger!Spec
=============================================================================
