----------------------------- MODULE MCPoolQuota -----------------------------
(* PoolQuota on small instances. *)
EXTENDS QuotaClaims

CONSTANTS a, b, c

ThreePools == <<a, b, c>>
TwoAlgos == (a :> "sha256d") @@ (b :> "sha256d") @@ (c :> "scrypt")
Quotas == (a :> 2) @@ (b :> 4) @@ (c :> 2)
=============================================================================
