------------------------------ MODULE MCJobQueue ------------------------------
(* Small instances of JobQueue for TLC.                                       *)
EXTENDS JobQueue, TLC

CONSTANTS j1, j2, j3, v1, v2

\* Three jobs, two of them of the same vault.
TwoVaults == (j1 :> v1) @@ (j2 :> v1) @@ (j3 :> v2)

\* Three jobs of one vault.
OneVault == (j1 :> v1) @@ (j2 :> v1) @@ (j3 :> v1)

\* Two jobs of one vault.
PairVault == (j1 :> v1) @@ (j2 :> v1)

\* Ids are random: any submission order meets this id order.
Ids == (j1 :> 1) @@ (j2 :> 2) @@ (j3 :> 3)
PairIds == (j1 :> 1) @@ (j2 :> 2)

ThreadSymmetry == Permutations(Threads)
===============================================================================
