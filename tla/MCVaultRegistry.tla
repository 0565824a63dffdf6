---------------------------- MODULE MCVaultRegistry -----------------------------
(* A small instance of VaultRegistry for TLC.                                  *)
EXTENDS VaultRegistry, TLC

CONSTANTS n1, n2, n3, p1, p2, p3

\* A vault of the configuration, one registered before, one to be made.
OwnRoots == {<<n1, p1>>, <<n2, p2>>, <<n3, p3>>}
Listed == n1 :> p1
Stored == (n1 :> None) @@ (n2 :> p2) @@ (n3 :> None)
===============================================================================
