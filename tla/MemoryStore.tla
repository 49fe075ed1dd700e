----------------------------- MODULE MemoryStore -----------------------------
(***************************************************************************)
(* What one tenant's engine keeps of the memories it is asked to remember  *)
(* (rust/crates/celiums-memory-engine/src/engine.rs: remember(),           *)
(* delete_memory()): the document and, under the caller's idempotency key, *)
(* a ledger record; the vector; the entity index; the audit entry.         *)
(*                                                                         *)
(* The engine belongs to one thread, so calls do not overlap.  But only    *)
(* document and ledger are committed together: between any two commits the *)
(* process may end, and any commit may be refused by the store.            *)
(*                                                                         *)
(* A memory is named by the key it was remembered under, from which        *)
(* deterministic_remember_uuid() derives its id.  A remember() without key *)
(* is one under a key that is not used again.  Contents stand for          *)
(* everything else that the request's hash covers but the vector.          *)
(***************************************************************************)
EXTENDS Naturals, Functions

CONSTANTS
    Subjects,      \* idempotency keys
    Contents,
    Blocked,       \* contents the policy rejects
    Quarantined,   \* contents it stores but hides from every index
    Vectors,
    Unfit,         \* embeddings quantize() or the embedding space refuses
    MaxFaults,     \* bound on crashes and refused commits
    None

ASSUME StoreAssumption ==
    /\ Blocked \cup Quarantined \subseteq Contents
    /\ Blocked \cap Quarantined = {}
    /\ Unfit \subseteq Vectors
    /\ MaxFaults \in Nat
    /\ None \notin Subjects \cup Contents \cup Vectors

VARIABLES
    memories,   \* documents: the content under each key
    ledger,     \* per key, what its first request asked for
    vectors,
    bindings,   \* memories the entity index lists, under one entity at least
    audited,    \* memories with an audit entry for their storing
    call,       \* the call the engine is in, and where
    answered,   \* keys whose remember() has been answered with the memory
    deleting,   \* keys whose delete_memory() has begun
    faults

documents == <<memories, ledger>>
storeVars == <<memories, ledger, vectors, bindings, audited>>
history == <<answered, deleting>>
callVars == <<storeVars, call, answered, deleting, faults>>

Frame(step, subject, content, vector, outcome) ==
    [step |-> step, subject |-> subject, content |-> content,
     vector |-> vector, outcome |-> outcome]
Idle == Frame("idle", None, None, None, None)

Commits == {"judge", "vector", "bind", "audit", "affect", "unbind", "unvector", "unstore"}
Outcomes == {"stored", "blocked", "invalid", "conflict", "broken", "deleted", "failed"}

StoreTypeOK ==
    /\ DOMAIN memories \subseteq Subjects
    /\ \A s \in DOMAIN memories : memories[s] \in Contents
    /\ DOMAIN ledger \subseteq Subjects
    /\ \A s \in DOMAIN ledger : ledger[s] \in [content : Contents, vector : Vectors]
    /\ DOMAIN vectors \subseteq Subjects
    /\ \A s \in DOMAIN vectors : vectors[s] \in Vectors
    /\ bindings \cup audited \cup answered \cup deleting \subseteq Subjects
    /\ call \in [step    : Commits \cup {"idle", "returned"},
                 subject : Subjects \cup {None},
                 content : Contents \cup {None},
                 vector  : Vectors \cup {None},
                 outcome : Outcomes \cup {None}]
    /\ faults \in 0..MaxFaults

StoreInit ==
    /\ memories = [s \in {} |-> None]
    /\ ledger = [s \in {} |-> None]
    /\ vectors = [s \in {} |-> None]
    /\ bindings = {}
    /\ audited = {}
    /\ call = Idle
    /\ answered = {}
    /\ deleting = {}
    /\ faults = 0

With(map, key, value) ==
    [k \in DOMAIN map \cup {key} |-> IF k = key THEN value ELSE map[k]]
Without(map, key) == [k \in DOMAIN map \ {key} |-> map[k]]

At(step) == call.step = step
Goto(step) == call' = [call EXCEPT !.step = step]
Return(outcome) == call' = [call EXCEPT !.step = "returned", !.outcome = outcome]

-----------------------------------------------------------------------------
\* remember()

Remember(subject, content, vector) ==
    /\ At("idle")
    /\ call' = Frame("judge", subject, content, vector, None)

\* The policy comes first, then the embedding.
Admissible == call.content \notin Blocked /\ call.vector \notin Unfit

Refuse ==
    /\ At("judge")
    /\ ~Admissible
    /\ Return(IF call.content \in Blocked THEN "blocked" ELSE "invalid")
    /\ UNCHANGED <<storeVars, history, faults>>

\* Mutant: the vector of a memory that is already stored is not repaired.
NothingRepaired == vectors

\* Mutant: the vector is repaired whatever the treatment.
AllRepaired == With(vectors, call.subject, call.vector)

\* A retry writes the vector again, in case its write was interrupted.
Repaired ==
    IF call.content \in Quarantined THEN vectors ELSE With(vectors, call.subject, call.vector)

\* The key is known: the memory must still be there and the request the same;
\* then it is returned as it is stored.
RememberAgain ==
    /\ At("judge")
    /\ Admissible
    /\ call.subject \in DOMAIN ledger
    /\ \/ /\ call.subject \notin DOMAIN memories
          /\ Return("broken")
          /\ UNCHANGED <<vectors, answered>>
       \/ /\ call.subject \in DOMAIN memories
          /\ ledger[call.subject] # [content |-> call.content, vector |-> call.vector]
          /\ Return("conflict")
          /\ UNCHANGED <<vectors, answered>>
       \/ /\ call.subject \in DOMAIN memories
          /\ ledger[call.subject] = [content |-> call.content, vector |-> call.vector]
          /\ vectors' = Repaired
          /\ Return("stored")
          /\ answered' = answered \cup {call.subject}
    /\ UNCHANGED <<documents, bindings, audited, deleting, faults>>

\* Mutant: a known key whose memory is gone is taken as new.
NewUnlessStored == call.subject \notin DOMAIN memories

\* The key has not been used.
New == call.subject \notin DOMAIN ledger

\* Document and ledger record in one transaction.
CommitDocuments ==
    /\ At("judge")
    /\ Admissible
    /\ New
    /\ memories' = With(memories, call.subject, call.content)
    /\ ledger' = With(ledger, call.subject, [content |-> call.content, vector |-> call.vector])
    /\ Goto(IF call.content \in Quarantined THEN "audit" ELSE "vector")
    /\ UNCHANGED <<vectors, bindings, audited, history, faults>>

CommitVector ==
    /\ At("vector")
    /\ vectors' = With(vectors, call.subject, call.vector)
    /\ Goto("bind")
    /\ UNCHANGED <<documents, bindings, audited, history, faults>>

\* index_entities(): the first of its commits; the others change nothing here.
BindEntities ==
    /\ At("bind")
    /\ bindings' = bindings \cup {call.subject}
    /\ Goto("audit")
    /\ UNCHANGED <<documents, vectors, audited, history, faults>>

\* append_audit()
AppendAudit ==
    /\ At("audit")
    /\ audited' = audited \cup {call.subject}
    /\ Goto("affect")
    /\ UNCHANGED <<documents, vectors, bindings, history, faults>>

\* Affect and circadian state are written last; nothing here reads them.
UpdateAffect ==
    /\ At("affect")
    /\ Return("stored")
    /\ answered' = answered \cup {call.subject}
    /\ UNCHANGED <<storeVars, deleting, faults>>

-----------------------------------------------------------------------------
\* delete_memory()

DeleteMemory(subject) ==
    /\ At("idle")
    /\ subject \in DOMAIN memories
    /\ call' = Frame("unbind", subject, None, None, None)
    /\ deleting' = deleting \cup {subject}
    /\ UNCHANGED <<storeVars, answered, faults>>

\* unindex_entities(): the last of its commits.
UnbindEntities ==
    /\ At("unbind")
    /\ bindings' = bindings \ {call.subject}
    /\ Goto("unvector")
    /\ UNCHANGED <<documents, vectors, audited, history, faults>>

\* Mutant: the document goes first.
DeleteRecordFirst ==
    /\ At("unvector")
    /\ memories' = Without(memories, call.subject)
    /\ Goto("unstore")
    /\ UNCHANGED <<ledger, vectors, bindings, audited, history, faults>>

\* delete_vectors()
DeleteVector ==
    /\ At("unvector")
    /\ vectors' = Without(vectors, call.subject)
    /\ Goto("unstore")
    /\ UNCHANGED <<documents, bindings, audited, history, faults>>

\* delete_record()
DeleteRecord ==
    /\ At("unstore")
    /\ memories' = Without(memories, call.subject)
    /\ Return("deleted")
    /\ UNCHANGED <<ledger, vectors, bindings, audited, history, faults>>

-----------------------------------------------------------------------------
\* The caller has the answer.
Leave == At("returned") /\ call' = Idle

\* The store refuses a commit: the call ends where it is.
RefuseCommit ==
    /\ call.step \in Commits
    /\ faults < MaxFaults
    /\ faults' = faults + 1
    /\ Return("failed")
    /\ UNCHANGED <<storeVars, history>>

\* The process ends; the engine is opened again.
StoreCrash ==
    /\ ~At("idle")
    /\ faults < MaxFaults
    /\ faults' = faults + 1
    /\ call' = Idle
    /\ UNCHANGED <<storeVars, history>>

\* The steps a call takes by itself.
StoreStep ==
    \/ Refuse
    \/ RememberAgain
    \/ CommitDocuments
    \/ CommitVector
    \/ BindEntities
    \/ AppendAudit
    \/ UpdateAffect
    \/ UnbindEntities
    \/ DeleteVector
    \/ DeleteRecord

StoreNext ==
    \/ \E s \in Subjects, c \in Contents, v \in Vectors :
           Remember(s, c, v) /\ UNCHANGED <<storeVars, history, faults>>
    \/ \E s \in Subjects : DeleteMemory(s)
    \/ StoreStep
    \/ RefuseCommit
    \/ Leave /\ UNCHANGED <<storeVars, history, faults>>
    \/ StoreCrash

StoreSpec == StoreInit /\ [][StoreNext]_callVars

-----------------------------------------------------------------------------
\* Whatever was interrupted, every vector and every entry of the entity index is
\* of a memory that exists: delete_memory() removes the document last, remember()
\* writes it first (docs/ROADMAP.md: "delete leaves no orphaned vector, entity").
NoOrphans == DOMAIN vectors \cup bindings \subseteq DOMAIN memories

\* A memory that remember() has returned, at first or on a retry after an
\* interruption, is found by its vector, unless it is hidden or being deleted.
AnsweredIsSearchable ==
    \A s \in answered \ deleting :
        /\ s \in DOMAIN memories
        /\ memories[s] \notin Quarantined =>
               s \in DOMAIN vectors /\ vectors[s] = ledger[s].vector

\* Quarantined content never enters an index, not even by the repair of a retry
\* (rust/README.md: "never enter vector/entity indexes").
QuarantinedIsHidden ==
    \A s \in DOMAIN memories :
        memories[s] \in Quarantined => s \notin DOMAIN vectors \cup bindings

\* A memory that was stored and answered for has its audit entry (rust/README.md:
\* "Decisions are recorded in a per-tenant BLAKE3 audit chain"; remember() appends it).
\* It fails: the retry after a crash before append_audit() returns without appending.
StoredIsAudited == answered \subseteq audited
=============================================================================
