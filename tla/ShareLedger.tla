---------------------------- MODULE ShareLedger ----------------------------
(***************************************************************************)
(* What share submission promises: the life of a share, whatever threads,  *)
(* lists and tables carry it.  A share that is found is queued, held by    *)
(* the submit thread, waits for the pool's answer and is settled, that is  *)
(* counted as accepted, rejected, stale or discarded, once and for good.   *)
(* Failures take it back to an earlier place; only a share of which a      *)
(* failed send has left a stray entry behind, or that was mixed up with    *)
(* another one of the same id, is no longer kept track of.                 *)
(***************************************************************************)
CONSTANT Shares

VARIABLE status   \* where every share is

\* Where a share can go next.
Onward ==
    [unfound   |-> {"queued"},
     queued    |-> {"held", "settled"},
     held      |-> {"awaiting", "settled"},
     \* answered, or dropped with its connection; sent in vain; queued again when
     \* the connection is lost
     awaiting  |-> {"answered", "settled", "held", "queued"},
     answered  |-> {"settled"},
     settled   |-> {},
     untracked |-> {}]

Init == status = [w \in Shares |-> "unfound"]

Move(w) == \E place \in Onward[status[w]] : status' = [status EXCEPT ![w] = place]

\* A failed send leaves the entry of v behind (v = w), or undoes that of w for it:
\* both have been handed to the submit thread, and neither is in its hands alone.
LoseTrack(v, w) ==
    /\ {status[v], status[w]} \cap {"unfound", "held"} = {}
    /\ status' = [status EXCEPT ![v] = "untracked", ![w] = "untracked"]

Next == \/ \E w \in Shares : Move(w)
        \/ \E v, w \in Shares : LoseTrack(v, w)

Spec == Init /\ [][Next]_status
=============================================================================
