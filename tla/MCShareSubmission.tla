------------------------- MODULE MCShareSubmission -------------------------
(* Instances of ShareSubmission for TLC. *)
EXTENDS ShareRefinement

CONSTANTS s1, s2, s3, p1, p2

\* opt_retries = -1, the default.
RetryForEver == -1

\* Every share is for one pool.
ForOnePool == [w \in Shares |-> p1]

\* Every share is for the second pool.
ForSecondPool == [w \in Shares |-> p2]

\* The shares of one pool are interchangeable.
AllShares == Permutations(Shares)
=============================================================================
