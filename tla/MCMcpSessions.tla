---------------------------- MODULE MCMcpSessions ----------------------------
(***************************************************************************)
(* Model-checking instances of McpSessions.                                *)
(***************************************************************************)
EXTENDS McpSessions, TLC

CONSTANTS s1, s2, s3, m1, m2

\* The last session is another user's.
MCUserOf == [s \in Sessions |-> IF s = s3 THEN "other" ELSE "user"]

Symmetry == Permutations({m1, m2})
=============================================================================
