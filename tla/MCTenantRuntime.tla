--------------------------- MODULE MCTenantRuntime ---------------------------
(***************************************************************************)
(* Model-checking instances of TenantRuntime: operations and receipts of   *)
(* one kind are interchangeable.                                           *)
(***************************************************************************)
EXTENDS TenantRuntime, TLC

CONSTANTS o1, o2, text, call, import, export, done1, done2, refused, busy, gone

MCReceipts == {done1, done2, refused, busy, gone}
MCSuccessful == {done1, done2}

Symmetry == Permutations(Operations) \cup Permutations({done1, done2})
=============================================================================
