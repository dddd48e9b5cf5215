---------------------------- MODULE MCPoolControl ----------------------------
(* PoolControl on small instances. *)
EXTENDS PoolClaims

CONSTANTS a, b

TwoPools == <<a, b>>
EitherFirst == {<<a>>, <<b>>}
=============================================================================
