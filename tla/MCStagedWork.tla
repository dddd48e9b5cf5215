---------------------------- MODULE MCStagedWork ----------------------------
(* StagedWork on small instances: the values its configurations choose from. *)
EXTENDS StagedWork

CONSTANTS m1, m2, p1, p2, p3

TwoAlgos == <<"sha256d", "scrypt">>

\* A device of each algorithm, and one device for both.
TwoDevices == (m1 :> {"sha256d"}) @@ (m2 :> {"scrypt"})
OneDevice == [m \in Miners |-> {"sha256d", "scrypt"}]

\* Two pools, the first of them current.
TwoPriorities == (p1 :> 0) @@ (p2 :> 1)
TwoGoals == (p1 :> "sha256d") @@ (p2 :> "scrypt")

\* Three pools, the third of them current, the others its backups for another algorithm.
BackupPriorities == (p3 :> 0) @@ (p1 :> 1) @@ (p2 :> 2)
BackupGoals == (p3 :> "scrypt") @@ (p1 :> "sha256d") @@ (p2 :> "sha256d")
=============================================================================
