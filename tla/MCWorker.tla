------------------------------- MODULE MCWorker -------------------------------
(***************************************************************************)
(* The Durable Object as a whole: its runtime, for which an export is      *)
(* one step that persists an artifact, and the store of checkpoints, where *)
(* persistExport() is many.  A behaviour is about one of the two; they     *)
(* share no storage key.                                                   *)
(***************************************************************************)
EXTENDS MCTenantRuntime, CheckpointStore

VARIABLE about

\* What the proofs about the store of checkpoints assume of its constants.
ASSUME CheckpointsAssumption == CheckpointAssumption

MCInit == Init /\ CheckpointsInit /\ about \in {"operations", "checkpoints"}

\* Once all exports are settled nothing is left to do.
AllExported ==
    /\ begun = MaxExports
    /\ writer = NoExport
    /\ UNCHANGED checkpointVars

MCNext ==
    /\ UNCHANGED about
    /\ \/ about = "operations" /\ Next /\ UNCHANGED checkpointVars
       \/ about = "checkpoints" /\ (CheckpointsNext \/ AllExported) /\ UNCHANGED vars

MCSpec == MCInit /\ [][MCNext]_<<vars, checkpointVars, about>>
=============================================================================
