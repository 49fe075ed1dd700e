---------------------------- MODULE MemoryCorpus ----------------------------
(***************************************************************************)
(* The stored memories of a tenant between being remembered and deleted:   *)
(* updates, feedback, consolidation of a conversation, lifecycle decay,    *)
(* the index of the names that memories mention, and the bindings of       *)
(* memories to canonical entities (engine.rs: index_entities(),            *)
(* bind_memory_entity(), update_memory() to delete_memory(), consolidate(),*)
(* run_lifecycle(), record_recall_feedback()).                             *)
(*                                                                         *)
(* MemoryStore takes remember() and delete_memory() apart for one key; an  *)
(* operation is one action here, beside which stand the parts of it that a *)
(* crash can leave.  A memory's id is a UUIDv7: a number that grows and is *)
(* never given twice.  Importance is counted in steps of the decay, of     *)
(* which a memory loses one for each day that it was idle.                 *)
(***************************************************************************)
EXTENDS EntityGraph

CONSTANTS
    Memories,       \* ids: 1 .. n
    Content,        \* of each: home scope, kind, event, treatment, mentions, text, importance
    Patches,        \* of update_memory(): [importance, state, kind], None where nothing is said
    Archive,        \* importance below which the lifecycle archives
    TopImportance,
    MaxRevision     \* bound on the revisions

States == {"active", "consolidated", "archived"}

ASSUME CorpusAssumption ==
    /\ IsFiniteSet(Memories) /\ Memories = 1 .. Cardinality(Memories)
    /\ \A m \in Memories :
           /\ Content[m].scope \in Scopes /\ Content[m].kind \in Kinds
           /\ Content[m].event \in Events \cup {None}
           /\ Content[m].treatment \in {"normal", "sensitive", "restricted", "quarantined"}
           /\ Content[m].importance \in 0 .. TopImportance
    /\ \A p \in Patches :
           /\ \E field \in DOMAIN p : p[field] # None
           /\ p.importance \in {None} \cup 0 .. TopImportance
           /\ p.state \in {None} \cup States /\ p.kind \in {None} \cup Kinds
    /\ TopImportance \in Nat /\ MaxRevision \in Nat \ {0}

VARIABLES
    memories,   \* of each stored memory: its kind, state, revision, importance, last use
    index,      \* the pairs [name, memory] of the index of mentioned names
    bindings,   \* the bindings [scope, entity, memory]
    deleted     \* the deletions that were answered: [scope, memory]

corpusVars == <<memories, index, bindings, deleted>>

MemoryRecord ==
    [kind : Kinds, state : States, revision : 1 .. MaxRevision,
     importance : 0 .. TopImportance, last : Times]

Bindings == [scope : Scopes, entity : Entities, memory : Memories]

CorpusTypeOK ==
    /\ DOMAIN memories \subseteq Memories
    /\ \A m \in DOMAIN memories : memories[m] \in MemoryRecord
    /\ \A i \in index : i.memory \in Memories /\ i.name \in Content[i.memory].mentions
    /\ bindings \subseteq Bindings
    /\ deleted \subseteq [scope : Scopes, memory : Memories]

CorpusInit ==
    /\ memories = [m \in {} |-> None]
    /\ index = {} /\ bindings = {} /\ deleted = {}

\* memory_visible_to(): by the kind that it has now.
MemoryVisible(m, scope) ==
    CASE memories[m].kind = "global" -> TRUE
      [] memories[m].kind = "project" -> Content[m].scope.project = scope.project
      [] OTHER -> Content[m].scope = scope

\* get_memory(): whatever the memory's state is.
Gettable(scope) == {m \in DOMAIN memories : MemoryVisible(m, scope)}

\* validate_scope_identity(), which remember() does not ask.
KindAllowed(kind, scope) ==
    /\ kind # "global" => scope.project # None
    /\ kind = "session" => scope.session # None

-----------------------------------------------------------------------------
\* The index of mentions.

Entries(m, names) == {[name |-> n, memory |-> m] : n \in names}

\* index_entities(), of some of the names if a crash cuts it short; what is
\* quarantined is not indexed.
Indexed(m, names) ==
    index \cup Entries(m, IF Content[m].treatment = "quarantined" THEN {} ELSE names)

\* unindex_entities()
Unindexed(m, names) == index \ Entries(m, names)

-----------------------------------------------------------------------------
\* Operations.

Fresh(m, state) ==
    /\ m \notin DOMAIN memories
    /\ \A d \in deleted : d.memory # m
    /\ \A other \in DOMAIN memories : other < m
    /\ memories' = With(memories, m,
           [kind |-> Content[m].kind, state |-> state, revision |-> 1,
            importance |-> Content[m].importance, last |-> now])

Remember(m) ==
    /\ Fresh(m, "active")
    /\ index' = Indexed(m, Content[m].mentions)
    /\ UNCHANGED <<bindings, deleted>>

\* A crash after the document was stored.
RememberInterrupted(m, names) ==
    /\ Fresh(m, "active")
    /\ index' = Indexed(m, names)
    /\ UNCHANGED <<bindings, deleted>>

\* bind_memory_entity(); a binding that is known is written again.
BindMemoryEntity(m, entity, scope) ==
    /\ m \in Gettable(scope)
    /\ entity \in entities /\ entity.scope = scope
    /\ bindings' = bindings \cup {[scope |-> scope, entity |-> entity, memory |-> m]}
    /\ UNCHANGED <<memories, index, deleted>>

Patched(memory, patch) ==
    [memory EXCEPT
        !.importance = IF patch.importance = None THEN @ ELSE patch.importance,
        !.state = IF patch.state = None THEN @ ELSE patch.state,
        !.kind = IF patch.kind = None THEN @ ELSE patch.kind,
        !.revision = @ + 1]

\* update_memory() of the revision that the client has read.
UpdateMemory(m, scope, revision, patch) ==
    /\ m \in Gettable(scope)
    /\ memories[m].revision = revision /\ revision < MaxRevision
    /\ patch.kind # None => KindAllowed(patch.kind, Content[m].scope)
    /\ memories' = [memories EXCEPT ![m] = Patched(@, patch)]
    /\ UNCHANGED <<index, bindings, deleted>>

\* Mutant: only the bindings to the entities of the memory's home are deleted.
BoundAtHome(m, scope) == {b \in bindings : b.memory = m /\ b.scope = Content[m].scope}

\* delete_graph_memory_bindings(): those that the scope sees.
BoundIn(m, scope) == {b \in bindings : b.memory = m /\ b.scope = scope}

DeleteMemory(m, scope) ==
    /\ m \in Gettable(scope)
    /\ index' = Unindexed(m, Content[m].mentions)
    /\ bindings' = bindings \ BoundIn(m, scope)
    /\ memories' = [k \in DOMAIN memories \ {m} |-> memories[k]]
    /\ deleted' = deleted \cup {[scope |-> scope, memory |-> m]}

\* A crash in delete_memory(): mentions are removed before bindings, and both
\* before the memory.
DeleteInterrupted(m, scope, names, bound) ==
    /\ m \in Gettable(scope)
    /\ bound # {} => names = Content[m].mentions
    /\ index' = Unindexed(m, names)
    /\ bindings' = bindings \ bound
    /\ UNCHANGED <<memories, deleted>>

\* retention::reactivate()
Reactivated(memory) ==
    [memory EXCEPT !.importance = IF @ < TopImportance THEN @ + 1 ELSE @, !.last = now]

\* record_recall_feedback(): of archived memories too.
RecordRecallFeedback(ids, scope) ==
    /\ memories' = [m \in DOMAIN memories |->
           IF m \in ids \cap Gettable(scope) THEN Reactivated(memories[m]) ELSE memories[m]]
    /\ UNCHANGED <<index, bindings, deleted>>

\* retention::lifecycle_decay() of the days idle, and what run_lifecycle()
\* makes of it: the days are counted from the last use in every run.
Decayed(memory) ==
    LET idle == now - memory.last
        left == IF memory.importance > idle THEN memory.importance - idle ELSE 0
    IN  IF memory.state = "archived" THEN memory
        ELSE [memory EXCEPT !.importance = left,
                            !.state = IF left < Archive THEN "archived" ELSE @]

\* run_lifecycle() up to an id; a run that ends early was cut short.
RunLifecycle(upTo) ==
    /\ memories' = [m \in DOMAIN memories |->
           IF m <= upTo THEN Decayed(memories[m]) ELSE memories[m]]
    /\ UNCHANGED <<index, bindings, deleted>>

\* find_duplicate(): the near duplicates of a text in the whole tenant.
Duplicates(text) ==
    {m \in DOMAIN memories : Content[m].text = text /\ Content[m].treatment # "quarantined"}

\* consolidate() of a line that a stored memory already says: it is
\* consolidated, whoever's it is and whether or not it was archived.
ConsolidateMerge(m, text, importance) ==
    /\ m \in Duplicates(text)
    /\ memories' = [memories EXCEPT
           ![m].state = "consolidated",
           ![m].importance = IF @ > importance THEN @ ELSE importance,
           ![m].last = now]
    /\ UNCHANGED <<index, bindings, deleted>>

\* consolidate() of a line that is new: remembered as of the tenant's local
\* identity, then written again as consolidated; a crash between leaves it active.
ConsolidateCreate(m, state) ==
    /\ Content[m].kind = "project"
    /\ Content[m].scope = [project |-> None, session |-> None]
    /\ Duplicates(Content[m].text) = {}
    /\ state \in {"active", "consolidated"}
    /\ Fresh(m, state)
    /\ index' = Indexed(m, Content[m].mentions)
    /\ UNCHANGED <<bindings, deleted>>

\* graph_verify(): what is wrong with the bindings that a scope sees; ids of
\* entities and relations are never removed, and neither is evidence.
BindingIssues(scope) ==
    {[kind |-> "missing_binding_entity", memory |-> b.memory] :
        b \in {c \in bindings : c.scope = scope /\ c.entity \notin entities}}
    \cup
    {[kind |-> "missing_binding_memory", memory |-> b.memory] :
        b \in {c \in bindings : c.scope = scope /\ c.memory \notin Gettable(scope)}}

CorpusNext ==
    \/ \E m \in Memories :
           \/ Remember(m)
           \/ \E names \in SUBSET Content[m].mentions : RememberInterrupted(m, names)
           \/ \E s \in {"active", "consolidated"} : ConsolidateCreate(m, s)
    \/ \E m \in DOMAIN memories, scope \in Scopes :
           \/ \E e \in entities : BindMemoryEntity(m, e, scope)
           \/ \E r \in 1 .. MaxRevision, p \in Patches : UpdateMemory(m, scope, r, p)
           \/ DeleteMemory(m, scope)
           \/ \E names \in SUBSET Content[m].mentions, bound \in SUBSET BoundIn(m, scope) :
                  DeleteInterrupted(m, scope, names, bound)
           \/ RecordRecallFeedback({m}, scope)
    \/ \E upTo \in Memories : RunLifecycle(upTo)
    \/ \E m \in Memories : ConsolidateMerge(m, Content[m].text, Content[m].importance)

-----------------------------------------------------------------------------
\* Properties.

\* The index of names leads only to stored memories, however remember() and
\* delete_memory() were cut short: entity_salience() fails on an id that is
\* not stored, and with it the deletion of every other memory of that name.
MentionsAreStored == \A i \in index : i.memory \in DOMAIN memories

\* All that graph_verify() ever finds is bindings of a scope to memories that
\* were deleted from another scope or left it: a delete_memory() that answered
\* leaves none of its own scope behind, whatever crashes came before it.
DeletedIsUnbound ==
    \A scope \in Scopes : \A issue \in BindingIssues(scope) :
        /\ issue.kind = "missing_binding_memory"
        /\ [scope |-> scope, memory |-> issue.memory] \notin deleted

\* What is deleted is gone from the index of names and from the graph.
DeletedLeavesNothing == MentionsAreStored /\ DeletedIsUnbound

\* The same of every scope that the memory was bound in: "Hard-delete removes
\* graph bindings so no orphan remains" (rust/README.md:268).
DeletedIsUnboundEverywhere ==
    \A d \in deleted : \A b \in bindings : b.memory # d.memory
=============================================================================
