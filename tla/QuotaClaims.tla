----------------------------- MODULE QuotaClaims -----------------------------
(***************************************************************************)
(* What a comment says of the choice of a pool for an algorithm, and the   *)
(* code does not keep.                                                     *)
(***************************************************************************)
EXTENDS PoolQuota

\* miner.c:5724, 5725: "Select any active pool in a rotating fashion when loadbalance is
\* chosen if it has any quota left."  While a pool is active, the scheduler's search for
\* one comes to an end: it does not find the same dead pool over and over again.
SelectionEnds ==
    asking # Nothing /\ (\E p \in Pools : ~Unworkable(p))
        ~> asking = Nothing \/ crashed \/ \A p \in Pools : Unworkable(p)
=============================================================================
