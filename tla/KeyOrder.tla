------------------------------- MODULE KeyOrder -------------------------------
(***************************************************************************)
(* Records of the store as a scan finds them: by their keys, which are     *)
(* compared byte by byte and stand here for numbers                        *)
(* (rust/crates/celiums-memory-engine/src/engine.rs: agent_journal_entries,*)
(* audit_entries, list_disclosed_memory_page).                             *)
(***************************************************************************)
EXTENDS Integers, FiniteSets

Below(set, key) == {k \in set : k < key}

\* The keys of a finite set from the first to the last.
InOrder(set) ==
    [i \in 1 .. Cardinality(set) |->
        CHOOSE key \in set : Cardinality(Below(set, key)) = i - 1]
=============================================================================
