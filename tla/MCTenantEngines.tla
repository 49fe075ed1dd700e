---------------------------- MODULE MCTenantEngines ----------------------------
(***************************************************************************)
(* Model-checking instances of TenantEngines.                              *)
(***************************************************************************)
EXTENDS TenantEngines, TLC

CONSTANTS w1, w2, w3, r1, i1, i2, t1, t2

\* The last write and the second import, if any, are the second tenant's.
SecondTenants == {w3, i2}
MCTenantOf == [r \in Requests |-> IF r \in SecondTenants THEN t2 ELSE t1]

Symmetry == Permutations({w1, w2})
=============================================================================
