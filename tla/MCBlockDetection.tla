-------------------------- MODULE MCBlockDetection --------------------------
(* BlockDetection on small instances. *)
EXTENDS BlockDetection

CONSTANTS p1, p2, m1
=============================================================================
