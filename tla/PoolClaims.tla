---------------------------- MODULE PoolClaims ----------------------------
(***************************************************************************)
(* What the documentation says of the commands of the API, and the code    *)
(* does not keep.                                                          *)
(***************************************************************************)
EXTENDS PoolControl

\* README.RPC:206-209 documents an answer to switchpool: every command the API
\* thread begins it ends.
CommandsAnswered == todo["api"] # <<>> ~> todo["api"] = <<>>
=============================================================================
