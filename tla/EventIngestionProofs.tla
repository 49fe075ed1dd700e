------------------------- MODULE EventIngestionProofs -------------------------
EXTENDS EventIngestion, TLAPS

(***************************************************************************)
(* What remember() and delete_memory() keep true of the tenant's store     *)
(* however they are interrupted, proved for any keys, contents, vectors    *)
(* and number of interruptions.                                            *)
(***************************************************************************)

(***************************************************************************)
(* The invariant.  None of the three properties is inductive: a call       *)
(* carries content and vector of its own past a series of commits, and     *)
(* what it writes last is right because of what it wrote first.            *)
(***************************************************************************)

\* A document has a ledger record, which agrees with it.
Recorded ==
    \A s \in DOMAIN memories :
        s \in DOMAIN ledger /\ ledger[s].content = memories[s]

\* A vector is of a memory, and the one its first request came with.
VectorsAgree ==
    \A s \in DOMAIN vectors :
        s \in DOMAIN memories /\ vectors[s] = ledger[s].vector

Remembering == {"judge", "vector", "bind", "audit", "affect"}
Written == {"vector", "bind", "audit", "affect"}
Removing == {"unbind", "unvector", "unstore"}

\* What the call has done so far is still there.
CallIsSound ==
    /\ call.step \in Remembering =>
           call.subject \in Subjects /\ call.content \in Contents /\ call.vector \in Vectors
    /\ call.step \in Written =>
           /\ call.subject \in DOMAIN memories
           /\ ledger[call.subject] = [content |-> call.content, vector |-> call.vector]
    /\ call.step \in {"vector", "bind"} => call.content \notin Quarantined
    /\ call.step \in {"bind", "audit", "affect"} =>
           call.content \in Quarantined \/ call.subject \in DOMAIN vectors
    /\ call.step \in Removing => call.subject \in DOMAIN memories \cap deleting
    /\ call.step \in {"unvector", "unstore"} => call.subject \notin bindings
    /\ call.step = "unstore" => call.subject \notin DOMAIN vectors

StoreInv ==
    /\ StoreTypeOK
    /\ Recorded
    /\ VectorsAgree
    /\ bindings \subseteq DOMAIN memories
    /\ QuarantinedIsHidden
    /\ AnsweredIsSearchable
    /\ CallIsSound

USE StoreAssumption DEF Removing, Remembering, Written

\* An empty store.
LEMMA EmptyStoreIsSound == StoreInit => StoreInv
  BY DEF StoreInit, StoreInv, StoreTypeOK, Recorded, VectorsAgree, QuarantinedIsHidden,
         AnsweredIsSearchable, CallIsSound, Idle, Frame, Commits, Outcomes

\* What no action but its own touches.
USE DEF storeVars, documents, history, callVars

LEMMA RememberKeeps ==
    ASSUME StoreInv, NEW s \in Subjects, NEW c \in Contents, NEW v \in Vectors,
           Remember(s, c, v), UNCHANGED <<storeVars, history, faults>>
    PROVE  StoreInv'
  <1>1. call' = [step |-> "judge", subject |-> s, content |-> c, vector |-> v, outcome |-> None]
    BY DEF Remember, Frame
  <1>2. StoreTypeOK'
    BY <1>1 DEF StoreInv, StoreTypeOK, Commits
  <1>3. CallIsSound'
    BY <1>1 DEF CallIsSound
  <1> QED
    BY <1>2, <1>3
    DEF StoreInv, Recorded, VectorsAgree, QuarantinedIsHidden, AnsweredIsSearchable

LEMMA RefuseKeeps ==
    ASSUME StoreInv, Refuse
    PROVE  StoreInv'
  <1>1. call'.step = "returned" /\ StoreTypeOK'
    BY DEF Refuse, Return, At, StoreInv, StoreTypeOK, Outcomes
  <1>2. CallIsSound'
    BY <1>1 DEF CallIsSound
  <1> QED
    BY <1>1, <1>2
    DEF Refuse, StoreInv, Recorded, VectorsAgree, QuarantinedIsHidden, AnsweredIsSearchable

LEMMA RememberAgainKeeps ==
    ASSUME StoreInv, RememberAgain
    PROVE  StoreInv'
  <1>1. /\ call'.step = "returned"
        /\ call.subject \in Subjects /\ call.content \in Contents /\ call.vector \in Vectors
    BY DEF RememberAgain, Return, At, StoreInv, StoreTypeOK, CallIsSound
  <1>2. CASE UNCHANGED <<vectors, answered>>
    <2>1. StoreTypeOK'
      <3>1. PICK outcome \in {"broken", "conflict", "stored"} :
                call' = [call EXCEPT !.step = "returned", !.outcome = outcome]
        BY DEF RememberAgain, Return
      <3>2. outcome \in Outcomes
        BY DEF Outcomes
      <3>3. call' \in [step    : Commits \cup {"idle", "returned"},
                       subject : Subjects \cup {None},
                       content : Contents \cup {None},
                       vector  : Vectors \cup {None},
                       outcome : Outcomes \cup {None}]
        BY <3>1, <3>2 DEF StoreInv, StoreTypeOK
      <3>4. UNCHANGED <<documents, vectors, bindings, audited, answered, deleting, faults>>
        BY <1>2 DEF RememberAgain
      <3> QED
        BY <3>3, <3>4 DEF StoreInv, StoreTypeOK
    <2>2. CallIsSound'
      BY <1>1 DEF CallIsSound
    <2>3. UNCHANGED <<documents, vectors, bindings, audited, answered, deleting>>
      BY <1>2 DEF RememberAgain
    <2> QED
      BY <2>1, <2>2, <2>3
      DEF StoreInv, Recorded, VectorsAgree, QuarantinedIsHidden, AnsweredIsSearchable
  <1>3. CASE /\ call.subject \in DOMAIN memories
             /\ ledger[call.subject] = [content |-> call.content, vector |-> call.vector]
             /\ vectors' = Repaired
             /\ Return("stored")
             /\ answered' = answered \cup {call.subject}
    <2>1. /\ vectors' = IF call.content \in Quarantined THEN vectors
                        ELSE With(vectors, call.subject, call.vector)
          /\ memories[call.subject] = call.content
      BY <1>3 DEF Repaired, StoreInv, Recorded
    <2>2. StoreTypeOK'
      <3>1. /\ DOMAIN vectors' \subseteq Subjects
            /\ \A s \in DOMAIN vectors' : vectors'[s] \in Vectors
        BY <1>1, <2>1 DEF With, StoreInv, StoreTypeOK
      <3>2. call' \in [step    : Commits \cup {"idle", "returned"},
                       subject : Subjects \cup {None},
                       content : Contents \cup {None},
                       vector  : Vectors \cup {None},
                       outcome : Outcomes \cup {None}]
        BY <1>3 DEF Return, StoreInv, StoreTypeOK, Outcomes
      <3> QED
        BY <1>1, <1>3, <3>1, <3>2 DEF RememberAgain, StoreInv, StoreTypeOK
    <2>3. VectorsAgree'
      BY <1>3, <2>1 DEF RememberAgain, With, StoreInv, VectorsAgree
    <2>4. QuarantinedIsHidden'
      BY <2>1 DEF RememberAgain, With, StoreInv, QuarantinedIsHidden
    <2>5. AnsweredIsSearchable'
      BY <1>3, <2>1 DEF RememberAgain, With, StoreInv, AnsweredIsSearchable
    <2>6. CallIsSound'
      BY <1>1 DEF CallIsSound
    <2> QED
      BY <2>2, <2>3, <2>4, <2>5, <2>6 DEF RememberAgain, StoreInv, Recorded
  <1> QED
    BY <1>2, <1>3 DEF RememberAgain

LEMMA CommitDocumentsKeeps ==
    ASSUME StoreInv, CommitDocuments
    PROVE  StoreInv'
  <1>1. /\ call.subject \in Subjects /\ call.content \in Contents /\ call.vector \in Vectors
        /\ call.subject \notin DOMAIN ledger
        /\ call.subject \notin DOMAIN memories \cup DOMAIN vectors \cup bindings
        /\ call.subject \notin answered \ deleting
    BY DEF CommitDocuments, New, At, StoreInv, StoreTypeOK, Recorded, VectorsAgree,
           AnsweredIsSearchable, CallIsSound
  <1>2. /\ memories' = With(memories, call.subject, call.content)
        /\ ledger' = With(ledger, call.subject,
                         [content |-> call.content, vector |-> call.vector])
        /\ call' = [call EXCEPT !.step =
                       IF call.content \in Quarantined THEN "audit" ELSE "vector"]
        /\ UNCHANGED <<vectors, bindings, audited, answered, deleting, faults>>
    BY DEF CommitDocuments, Goto
  <1>3. /\ DOMAIN memories' = DOMAIN memories \cup {call.subject}
        /\ memories'[call.subject] = call.content
        /\ \A s \in DOMAIN memories : memories'[s] = memories[s]
        /\ DOMAIN ledger' = DOMAIN ledger \cup {call.subject}
        /\ ledger'[call.subject] = [content |-> call.content, vector |-> call.vector]
        /\ \A s \in DOMAIN ledger : ledger'[s] = ledger[s]
    BY <1>1, <1>2 DEF With
  <1>4. StoreTypeOK'
    <2>1. call' \in [step    : Commits \cup {"idle", "returned"},
                     subject : Subjects \cup {None},
                     content : Contents \cup {None},
                     vector  : Vectors \cup {None},
                     outcome : Outcomes \cup {None}]
      BY <1>2 DEF StoreInv, StoreTypeOK, Commits
    <2> QED
      BY <1>1, <1>2, <1>3, <2>1 DEF StoreInv, StoreTypeOK
  <1>5. Recorded'
    BY <1>1, <1>3 DEF StoreInv, Recorded
  <1>6. VectorsAgree' /\ bindings' \subseteq DOMAIN memories'
    BY <1>1, <1>2, <1>3 DEF StoreInv, VectorsAgree, Recorded
  <1>7. QuarantinedIsHidden'
    BY <1>1, <1>2, <1>3 DEF StoreInv, QuarantinedIsHidden
  <1>8. AnsweredIsSearchable'
    BY <1>1, <1>2, <1>3 DEF StoreInv, AnsweredIsSearchable, Recorded
  <1>9. CallIsSound'
    BY <1>1, <1>2, <1>3 DEF CommitDocuments, StoreInv, StoreTypeOK, CallIsSound, At
  <1> QED
    BY <1>4, <1>5, <1>6, <1>7, <1>8, <1>9 DEF StoreInv

LEMMA CommitVectorKeeps ==
    ASSUME StoreInv, CommitVector
    PROVE  StoreInv'
  <1>1. /\ call.subject \in Subjects /\ call.vector \in Vectors
        /\ call.content \notin Quarantined
        /\ call.subject \in DOMAIN memories
        /\ ledger[call.subject] = [content |-> call.content, vector |-> call.vector]
        /\ memories[call.subject] = call.content
    BY DEF CommitVector, At, StoreInv, Recorded, CallIsSound
  <1>2. /\ DOMAIN vectors' = DOMAIN vectors \cup {call.subject}
        /\ vectors'[call.subject] = call.vector
        /\ \A s \in DOMAIN vectors \ {call.subject} : vectors'[s] = vectors[s]
    BY DEF CommitVector, With
  <1>3. StoreTypeOK'
    <2>1. call' \in [step    : Commits \cup {"idle", "returned"},
                     subject : Subjects \cup {None},
                     content : Contents \cup {None},
                     vector  : Vectors \cup {None},
                     outcome : Outcomes \cup {None}]
      BY DEF CommitVector, Goto, StoreInv, StoreTypeOK, Commits
    <2> QED
      BY <1>1, <1>2, <2>1 DEF CommitVector, StoreInv, StoreTypeOK
  <1>4. VectorsAgree' /\ QuarantinedIsHidden' /\ AnsweredIsSearchable'
    BY <1>1, <1>2
    DEF CommitVector, StoreInv, VectorsAgree, QuarantinedIsHidden, AnsweredIsSearchable
  <1>5. CallIsSound'
    BY <1>1, <1>2 DEF CommitVector, At, Goto, StoreInv, StoreTypeOK, CallIsSound
  <1> QED
    BY <1>3, <1>4, <1>5 DEF CommitVector, StoreInv, Recorded

LEMMA BindEntitiesKeeps ==
    ASSUME StoreInv, BindEntities
    PROVE  StoreInv'
  <1>1. /\ call.subject \in Subjects
        /\ call.content \notin Quarantined
        /\ call.subject \in DOMAIN memories
        /\ memories[call.subject] = call.content
    BY DEF BindEntities, At, StoreInv, Recorded, CallIsSound
  <1>2. StoreTypeOK'
    BY <1>1 DEF BindEntities, Goto, StoreInv, StoreTypeOK, Commits
  <1>3. CallIsSound'
    BY DEF BindEntities, At, Goto, StoreInv, StoreTypeOK, CallIsSound
  <1> QED
    BY <1>1, <1>2, <1>3
    DEF BindEntities, StoreInv, Recorded, VectorsAgree, QuarantinedIsHidden,
        AnsweredIsSearchable

LEMMA AppendAuditKeeps ==
    ASSUME StoreInv, AppendAudit
    PROVE  StoreInv'
  <1>1. call.subject \in Subjects
    BY DEF AppendAudit, At, StoreInv, CallIsSound
  <1>2. StoreTypeOK'
    BY <1>1 DEF AppendAudit, Goto, StoreInv, StoreTypeOK, Commits
  <1>3. CallIsSound'
    BY DEF AppendAudit, At, Goto, StoreInv, StoreTypeOK, CallIsSound
  <1> QED
    BY <1>2, <1>3
    DEF AppendAudit, StoreInv, Recorded, VectorsAgree, QuarantinedIsHidden,
        AnsweredIsSearchable

LEMMA UpdateAffectKeeps ==
    ASSUME StoreInv, UpdateAffect
    PROVE  StoreInv'
  <1>1. /\ call.subject \in Subjects
        /\ call.subject \in DOMAIN memories
        /\ memories[call.subject] \in Quarantined \/ call.subject \in DOMAIN vectors
    BY DEF UpdateAffect, At, StoreInv, Recorded, CallIsSound
  <1>2. call'.step = "returned" /\ StoreTypeOK'
    BY <1>1 DEF UpdateAffect, Return, StoreInv, StoreTypeOK, Outcomes
  <1>3. CallIsSound'
    BY <1>2 DEF CallIsSound
  <1>4. AnsweredIsSearchable'
    BY <1>1 DEF UpdateAffect, StoreInv, VectorsAgree, AnsweredIsSearchable
  <1> QED
    BY <1>2, <1>3, <1>4
    DEF UpdateAffect, StoreInv, Recorded, VectorsAgree, QuarantinedIsHidden

LEMMA DeleteMemoryKeeps ==
    ASSUME StoreInv, NEW s \in Subjects, DeleteMemory(s)
    PROVE  StoreInv'
  <1>1. call' = [step |-> "unbind", subject |-> s, content |-> None, vector |-> None,
                 outcome |-> None]
    BY DEF DeleteMemory, Frame
  <1>2. StoreTypeOK'
    BY <1>1 DEF DeleteMemory, StoreInv, StoreTypeOK, Commits
  <1>3. CallIsSound'
    BY <1>1 DEF DeleteMemory, CallIsSound
  <1> QED
    BY <1>2, <1>3
    DEF DeleteMemory, StoreInv, Recorded, VectorsAgree, QuarantinedIsHidden,
        AnsweredIsSearchable

LEMMA UnbindEntitiesKeeps ==
    ASSUME StoreInv, UnbindEntities
    PROVE  StoreInv'
  <1>1. StoreTypeOK'
    BY DEF UnbindEntities, Goto, StoreInv, StoreTypeOK, Commits
  <1>2. CallIsSound'
    BY DEF UnbindEntities, At, Goto, StoreInv, StoreTypeOK, CallIsSound
  <1> QED
    BY <1>1, <1>2
    DEF UnbindEntities, StoreInv, Recorded, VectorsAgree, QuarantinedIsHidden,
        AnsweredIsSearchable

LEMMA DeleteVectorKeeps ==
    ASSUME StoreInv, DeleteVector
    PROVE  StoreInv'
  <1>1. call.subject \in deleting
    BY DEF DeleteVector, At, StoreInv, CallIsSound
  <1>2. /\ DOMAIN vectors' = DOMAIN vectors \ {call.subject}
        /\ \A s \in DOMAIN vectors \ {call.subject} : vectors'[s] = vectors[s]
    BY DEF DeleteVector, Without
  <1>3. StoreTypeOK'
    <2>1. call' \in [step    : Commits \cup {"idle", "returned"},
                     subject : Subjects \cup {None},
                     content : Contents \cup {None},
                     vector  : Vectors \cup {None},
                     outcome : Outcomes \cup {None}]
      BY DEF DeleteVector, Goto, StoreInv, StoreTypeOK, Commits
    <2> QED
      BY <1>2, <2>1 DEF DeleteVector, StoreInv, StoreTypeOK
  <1>4. CallIsSound'
    BY <1>2 DEF DeleteVector, At, Goto, StoreInv, StoreTypeOK, CallIsSound
  <1> QED
    BY <1>1, <1>2, <1>3, <1>4
    DEF DeleteVector, StoreInv, Recorded, VectorsAgree, QuarantinedIsHidden,
        AnsweredIsSearchable

LEMMA DeleteRecordKeeps ==
    ASSUME StoreInv, DeleteRecord
    PROVE  StoreInv'
  <1>1. call.subject \in deleting /\ call.subject \notin DOMAIN vectors \cup bindings
    BY DEF DeleteRecord, At, StoreInv, CallIsSound
  <1>2. /\ DOMAIN memories' = DOMAIN memories \ {call.subject}
        /\ \A s \in DOMAIN memories \ {call.subject} : memories'[s] = memories[s]
    BY DEF DeleteRecord, Without
  <1>3. StoreTypeOK'
    <2>1. call' \in [step    : Commits \cup {"idle", "returned"},
                     subject : Subjects \cup {None},
                     content : Contents \cup {None},
                     vector  : Vectors \cup {None},
                     outcome : Outcomes \cup {None}]
      BY DEF DeleteRecord, Return, StoreInv, StoreTypeOK, Outcomes
    <2> QED
      BY <1>2, <2>1 DEF DeleteRecord, StoreInv, StoreTypeOK
  <1>4. CallIsSound'
    BY DEF DeleteRecord, Return, StoreInv, StoreTypeOK, CallIsSound
  <1> QED
    BY <1>1, <1>2, <1>3, <1>4
    DEF DeleteRecord, StoreInv, Recorded, VectorsAgree, QuarantinedIsHidden,
        AnsweredIsSearchable

\* An interruption leaves the store as it is, and so does a call that ends.
LEMMA InterruptionKeeps ==
    ASSUME StoreInv, UNCHANGED <<storeVars, history>>, faults' \in 0..MaxFaults,
           call' \in {call, Idle} \/ \E outcome \in Outcomes : Return(outcome)
    PROVE  StoreInv'
  <1>1. CASE call' = call
    BY <1>1
    DEF StoreInv, StoreTypeOK, Recorded, VectorsAgree, QuarantinedIsHidden,
        AnsweredIsSearchable, CallIsSound
  <1>2. CASE call' = Idle
    <2>1. StoreTypeOK'
      BY <1>2 DEF StoreInv, StoreTypeOK, Idle, Frame
    <2>2. CallIsSound'
      BY <1>2 DEF CallIsSound, Idle, Frame
    <2> QED
      BY <2>1, <2>2
      DEF StoreInv, Recorded, VectorsAgree, QuarantinedIsHidden, AnsweredIsSearchable
  <1>3. CASE \E outcome \in Outcomes : Return(outcome)
    <2>1. call'.step = "returned" /\ StoreTypeOK'
      BY <1>3 DEF Return, StoreInv, StoreTypeOK
    <2>2. CallIsSound'
      BY <2>1 DEF CallIsSound
    <2> QED
      BY <2>1, <2>2
      DEF StoreInv, Recorded, VectorsAgree, QuarantinedIsHidden, AnsweredIsSearchable
  <1> QED
    BY <1>1, <1>2, <1>3

LEMMA StoreStepKeeps ==
    ASSUME StoreInv, StoreStep
    PROVE  StoreInv'
  BY RefuseKeeps, RememberAgainKeeps, CommitDocumentsKeeps, CommitVectorKeeps,
     BindEntitiesKeeps, AppendAuditKeeps, UpdateAffectKeeps, UnbindEntitiesKeeps,
     DeleteVectorKeeps, DeleteRecordKeeps
  DEF StoreStep

LEMMA RefuseCommitKeeps ==
    ASSUME StoreInv, RefuseCommit
    PROVE  StoreInv'
  <1>1. faults' \in 0..MaxFaults
    BY DEF RefuseCommit, StoreInv, StoreTypeOK
  <1>2. "failed" \in Outcomes /\ Return("failed")
    BY DEF RefuseCommit, Outcomes
  <1> QED
    BY <1>1, <1>2, InterruptionKeeps DEF RefuseCommit

LEMMA StoreNextKeeps ==
    ASSUME StoreInv, [StoreNext]_callVars
    PROVE  StoreInv'
  <1>1. CASE \E s \in Subjects, c \in Contents, v \in Vectors :
                 Remember(s, c, v) /\ UNCHANGED <<storeVars, history, faults>>
    BY <1>1, RememberKeeps
  <1>2. CASE \E s \in Subjects : DeleteMemory(s)
    BY <1>2, DeleteMemoryKeeps
  <1>3. CASE StoreStep
    BY <1>3, StoreStepKeeps
  <1>4. CASE RefuseCommit
    BY <1>4, RefuseCommitKeeps
  <1>5. CASE Leave /\ UNCHANGED <<storeVars, history, faults>>
    BY <1>5, InterruptionKeeps DEF Leave, StoreInv, StoreTypeOK
  <1>6. CASE StoreCrash
    <2>1. faults' \in 0..MaxFaults
      BY <1>6 DEF StoreCrash, StoreInv, StoreTypeOK
    <2> QED
      BY <1>6, <2>1, InterruptionKeeps DEF StoreCrash
  <1>7. CASE UNCHANGED callVars
    BY <1>7, InterruptionKeeps DEF StoreInv, StoreTypeOK
  <1> QED
    BY <1>1, <1>2, <1>3, <1>4, <1>5, <1>6, <1>7 DEF StoreNext

\* The invariant of the store holds whatever calls are made and wherever they are
\* interrupted (engine.rs: remember(), delete_memory()).
THEOREM StoreInvariant == StoreSpec => []StoreInv
  BY EmptyStoreIsSound, StoreNextKeeps, PTL DEF StoreSpec

LEMMA OrphansExcluded == StoreInv => NoOrphans
  BY DEF StoreInv, VectorsAgree, NoOrphans

\* No vector and no entity binding is of a memory that is gone (delete_memory()
\* removes the document last, remember() writes it first).
THEOREM StoreHasNoOrphans == StoreSpec => []NoOrphans
  BY StoreInvariant, OrphansExcluded, PTL

\* Quarantined content is in no index (remember(): the repair of a retry included).
THEOREM StoreHidesQuarantined == StoreSpec => []QuarantinedIsHidden
  <1>1. StoreInv => QuarantinedIsHidden
    BY DEF StoreInv
  <1> QED
    BY <1>1, StoreInvariant, PTL

\* What remember() has answered with is found by its vector (remember(): "Repair a
\* vector write interrupted after the atomic document commit").
THEOREM StoreFindsAnswered == StoreSpec => []AnsweredIsSearchable
  <1>1. StoreInv => AnsweredIsSearchable
    BY DEF StoreInv
  <1> QED
    BY <1>1, StoreInvariant, PTL

-------------------------------------------------------------------------------

(***************************************************************************)
(* What ingestion keeps true, proved for any events, contents, batches and *)
(* number of interruptions: the store below it stays sound, batch records  *)
(* tell the truth, and every behaviour is one of EventPromise.             *)
(***************************************************************************)

(***************************************************************************)
(* The invariant.  EventPromise says when an event may become a memory and *)
(* when it may be settled; ingest_event() decides that at the entry and    *)
(* acts on it commits later.  So what the entry says of the event that a   *)
(* call is about must still hold while the call is under way.              *)
(***************************************************************************)

EntriesTypeOK ==
    /\ DOMAIN entries \subseteq Events
    /\ \A e \in DOMAIN entries : entries[e] \in [content : Contents, status : Statuses]

BatchesTypeOK ==
    /\ DOMAIN batches \subseteq Batches
    /\ \A b \in DOMAIN batches :
           batches[b] \in BatchRecords /\ Len(batches[b].items) = Len(batches[b].members)

JobTypeOK ==
    /\ job \in [kind     : {"none", "ingest", "enrich"},
                batch    : Batches \cup {None},
                requests : Seq(Requests),
                items    : Seq(Statuses)]
    /\ Len(job.items) <= Len(job.requests)

IngestTypeOK == EntriesTypeOK /\ BatchesTypeOK /\ JobTypeOK

\* A memory of an event is of the content it is accounted for with, and was let
\* through by the policy.
MemoriesAreOfEvents ==
    /\ \A s \in DOMAIN ledger : ledger[s].content \notin Blocked
    /\ \A e \in DOMAIN ledger \cap Events :
           e \in DOMAIN entries /\ entries[e].content = ledger[e].content

\* remember() is called for the current request, whose event is not settled.
CallIsTheJobs ==
    /\ job.kind = "none" => job = NoJob
    /\ job.kind = "none" /\ call.step \in Remembering => call.subject \notin Events
    /\ job.kind # "none" /\ call.step # "idle" =>
           /\ Len(job.items) < Len(job.requests)
           /\ call.step \in Remembering \cup {"returned"}
           /\ call.subject = Current.event
           /\ call.content = Current.content
           /\ call.subject \in DOMAIN entries
           /\ entries[call.subject].content = call.content
           /\ entries[call.subject].status \notin Terminal
           /\ At("returned") /\ call.outcome = "stored" => call.subject \in DOMAIN ledger
           /\ At("returned") /\ call.outcome = "blocked" => call.content \in Blocked

\* An event of the requests that has an entry has it under a content it is sent with.
AreAccounted(requests) ==
    \A i \in DOMAIN requests :
        LET event == requests[i].event IN
        event \in DOMAIN entries => entries[event].content \in ContentsFor(requests, event)

\* What a batch has found out so far is so.
ItemsAreTrue ==
    job.batch # None =>
        /\ job.kind = "ingest"
        /\ AreAccounted(job.requests)
        /\ \A i \in DOMAIN job.items :
               LET event == job.requests[i].event IN
               /\ event \in DOMAIN entries
               /\ job.items[i] \in Terminal => entries[event].status = job.items[i]

IngestInv ==
    /\ StoreInv
    /\ IngestTypeOK
    /\ MemoriesAreOfEvents
    /\ CallIsTheJobs
    /\ ItemsAreTrue
    /\ BatchesAreTrue

USE StoreAssumption, IngestionAssumption DEF Removing, Remembering, Written

LEMMA NothingIngestedIsSound == Init => IngestInv
  <1> SUFFICES ASSUME Init PROVE IngestInv
    OBVIOUS
  <1>1. StoreInv
    BY EmptyStoreIsSound DEF Init
  <1>2. IngestTypeOK
    BY DEF Init, IngestTypeOK, EntriesTypeOK, BatchesTypeOK, BatchRecords, JobTypeOK, NoJob, Job
  <1>3. MemoriesAreOfEvents /\ CallIsTheJobs /\ ItemsAreTrue /\ BatchesAreTrue
    BY DEF Init, StoreInit, Idle, Frame, NoJob, Job, MemoriesAreOfEvents, CallIsTheJobs,
           ItemsAreTrue, BatchesAreTrue
  <1> QED
    BY <1>1, <1>2, <1>3 DEF IngestInv

LEMMA TypesStay ==
    ASSUME IngestInv
    PROVE  /\ UNCHANGED entries => EntriesTypeOK'
           /\ UNCHANGED batches => BatchesTypeOK'
           /\ UNCHANGED job => JobTypeOK'
  <1>1. UNCHANGED entries => EntriesTypeOK'
    BY DEF IngestInv, IngestTypeOK, EntriesTypeOK
  <1>2. UNCHANGED batches => BatchesTypeOK'
    BY DEF IngestInv, IngestTypeOK, BatchesTypeOK, BatchRecords
  <1>3. UNCHANGED job => JobTypeOK'
    BY DEF IngestInv, IngestTypeOK, JobTypeOK
  <1> QED
    BY <1>1, <1>2, <1>3

\* What batches say stays true as long as nothing is written.
LEMMA BatchesStayTrue ==
    ASSUME BatchesAreTrue, UNCHANGED <<entries, batches>>
    PROVE  BatchesAreTrue'
  BY DEF BatchesAreTrue

\* As long as the ledgers stay, the call may go on or end.
LEMMA CallGoesOn ==
    ASSUME IngestInv, StoreInv', UNCHANGED <<ledger, ingestVars>>,
           call'.step # "idle" =>
               /\ call'.step \in Remembering => call.step \in Remembering
               /\ job.kind # "none" => call.step # "idle" /\ call'.step \notin Removing
               /\ call'.subject = call.subject /\ call'.content = call.content
               /\ job.kind # "none" /\ call'.step = "returned" =>
                      \/ call' = call
                      \/ /\ call'.outcome = "stored" => call.subject \in DOMAIN ledger
                         /\ call'.outcome = "blocked" => call.content \in Blocked
    PROVE  IngestInv'
  <1>1. IngestTypeOK'
    BY TypesStay DEF IngestTypeOK, ingestVars
  <1>2. BatchesAreTrue'
    BY BatchesStayTrue DEF IngestInv, ingestVars
  <1>3. MemoriesAreOfEvents'
    BY DEF IngestInv, MemoriesAreOfEvents, ingestVars
  <1>4. ItemsAreTrue'
    BY DEF IngestInv, ItemsAreTrue, AreAccounted, ingestVars
  <1>5. call'.step \in Remembering \cup Removing \cup {"idle", "returned"}
    BY DEF StoreInv, StoreTypeOK, Commits
  <1>6. CallIsTheJobs'
    BY <1>5 DEF IngestInv, CallIsTheJobs, Current, At, ingestVars, NoJob, Job
  <1> QED
    BY <1>1, <1>2, <1>3, <1>4, <1>6 DEF IngestInv

LEMMA DocumentsKeepIngestion ==
    ASSUME IngestInv, CommitDocuments, UNCHANGED ingestVars
    PROVE  IngestInv'
  <1>1. StoreInv'
    BY CommitDocumentsKeeps DEF IngestInv
  <1>2. /\ DOMAIN ledger' = DOMAIN ledger \cup {call.subject}
        /\ ledger'[call.subject].content = call.content
        /\ \A s \in DOMAIN ledger : ledger'[s].content = ledger[s].content
        /\ call.content \notin Blocked
    BY DEF CommitDocuments, New, With, Admissible
  <1>3. /\ call.step = "judge" /\ call'.step \in {"audit", "vector"}
        /\ call'.subject = call.subject /\ call'.content = call.content
    BY DEF CommitDocuments, At, Goto, IngestInv, StoreInv, StoreTypeOK
  <1>4. MemoriesAreOfEvents'
    BY <1>2, <1>3 DEF IngestInv, MemoriesAreOfEvents, CallIsTheJobs, ingestVars
  <1>5. CallIsTheJobs'
    BY <1>2, <1>3 DEF IngestInv, CallIsTheJobs, Current, At, ingestVars, NoJob, Job
  <1>6. ItemsAreTrue'
    BY DEF IngestInv, ItemsAreTrue, AreAccounted, ingestVars
  <1>7. BatchesAreTrue'
    BY BatchesStayTrue DEF IngestInv, ingestVars
  <1>8. IngestTypeOK'
    BY TypesStay DEF IngestTypeOK, ingestVars
  <1> QED
    BY <1>1, <1>4, <1>5, <1>6, <1>7, <1>8 DEF IngestInv

LEMMA StoreStepKeepsIngestion ==
    ASSUME IngestInv, StoreStep, UNCHANGED ingestVars
    PROVE  IngestInv'
  <1> USE DEF storeVars, documents
  <1>1. StoreInv'
    BY StoreStepKeeps DEF IngestInv
  <1>2. CASE Refuse
    BY <1>1, <1>2, CallGoesOn
    DEF Refuse, At, Return, Admissible, IngestInv, StoreInv, StoreTypeOK
  <1>3. CASE RememberAgain
    <2>1. /\ call'.subject = call.subject /\ call'.content = call.content
          /\ call'.step = "returned" /\ call.step = "judge"
          /\ call'.outcome # "blocked" /\ call.subject \in DOMAIN ledger
      BY <1>3 DEF RememberAgain, At, Return, IngestInv, StoreInv, StoreTypeOK
    <2> QED
      BY <1>1, <1>3, <2>1, CallGoesOn DEF RememberAgain
  <1>4. CASE CommitDocuments
    BY <1>4, DocumentsKeepIngestion
  <1>5. CASE CommitVector \/ BindEntities \/ AppendAudit
    <2>1. /\ call'.subject = call.subject /\ call'.content = call.content
          /\ call.step \in Written /\ call'.step \in Written
          /\ UNCHANGED ledger
      BY <1>5 DEF CommitVector, BindEntities, AppendAudit, At, Goto, IngestInv, StoreInv,
                  StoreTypeOK
    <2> QED
      BY <1>1, <2>1, CallGoesOn
  <1>6. CASE UpdateAffect
    <2>1. call.subject \in DOMAIN ledger
      BY <1>6 DEF UpdateAffect, At, IngestInv, StoreInv, CallIsSound, Recorded
    <2>2. /\ call'.subject = call.subject /\ call'.content = call.content
          /\ call'.outcome = "stored"
          /\ call.step = "affect" /\ call'.step = "returned"
          /\ UNCHANGED ledger
      BY <1>6 DEF UpdateAffect, At, Return, IngestInv, StoreInv, StoreTypeOK
    <2> QED
      BY <1>1, <2>1, <2>2, CallGoesOn
  <1>7. CASE UnbindEntities \/ DeleteVector \/ DeleteRecord
    <2>1. /\ call'.subject = call.subject /\ call'.content = call.content
          /\ call.step \in Removing /\ call'.step \in Removing \cup {"returned"}
          /\ UNCHANGED ledger
      BY <1>7 DEF UnbindEntities, DeleteVector, DeleteRecord, At, Goto, Return, IngestInv,
                  StoreInv, StoreTypeOK
    <2>2. job.kind = "none"
      BY <2>1 DEF IngestInv, CallIsTheJobs
    <2> QED
      BY <1>1, <2>1, <2>2, CallGoesOn
  <1> QED
    BY <1>2, <1>3, <1>4, <1>5, <1>6, <1>7 DEF StoreStep

\* The contents of requests, and of the members that are recorded of them.
LEMMA ContentsOfRequests ==
    ASSUME NEW requests \in Seq(Requests)
    PROVE  /\ \A i \in DOMAIN requests :
                  requests[i].content \in ContentsFor(requests, requests[i].event)
           /\ \A event : ContentsFor(Members(requests), event) = ContentsFor(requests, event)
  BY DEF ContentsFor, Members, Member

\* An entry keeps its content, and a settled one its status; then what has been
\* said of entries stays true.
EntriesMoveOn ==
    /\ DOMAIN entries \subseteq DOMAIN entries'
    /\ \A e \in DOMAIN entries :
           /\ entries'[e].content = entries[e].content
           /\ entries[e].status \in Terminal => entries'[e].status = entries[e].status

LEMMA WhatWasSaidStaysTrue ==
    ASSUME IngestInv, EntriesMoveOn
    PROVE  /\ UNCHANGED ledger => MemoriesAreOfEvents'
           /\ UNCHANGED batches => BatchesAreTrue'
  <1>1. UNCHANGED ledger => MemoriesAreOfEvents'
    BY DEF IngestInv, EntriesMoveOn, MemoriesAreOfEvents
  <1>2. ASSUME UNCHANGED batches PROVE BatchesAreTrue'
    <2>1. ASSUME NEW b \in DOMAIN batches, NEW i \in DOMAIN batches[b].members
          PROVE  LET event == batches[b].members[i].event
                     item == batches[b].items[i] IN
                 /\ event \in DOMAIN entries'
                 /\ entries'[event].content \in ContentsFor(batches[b].members, event)
                 /\ item \in Terminal => entries'[event].status = item
      <3>1. LET event == batches[b].members[i].event
                item == batches[b].items[i] IN
            /\ event \in DOMAIN entries
            /\ entries[event].content \in ContentsFor(batches[b].members, event)
            /\ item \in Terminal => entries[event].status = item
        BY DEF IngestInv, BatchesAreTrue
      <3> QED
        BY <3>1 DEF EntriesMoveOn
    <2> QED
      BY <1>2, <2>1 DEF BatchesAreTrue
  <1> QED
    BY <1>1, <1>2

LEMMA JobIsTyped ==
    ASSUME IngestInv, UNCHANGED <<entries, batches>>,
           NEW kind \in {"ingest", "enrich"}, NEW batch \in Batches \cup {None},
           NEW requests \in Seq(Requests),
           job' = [kind |-> kind, batch |-> batch, requests |-> requests, items |-> <<>>]
    PROVE  IngestTypeOK'
  <1>1. <<>> \in Seq(Statuses) /\ Len(<<>>) <= Len(requests)
    OBVIOUS
  <1>2. JobTypeOK'
    BY <1>1 DEF JobTypeOK
  <1>3. EntriesTypeOK' /\ BatchesTypeOK'
    BY TypesStay
  <1> QED
    BY <1>2, <1>3 DEF IngestTypeOK

LEMMA IngestEventKeeps ==
    ASSUME IngestInv, NEW request \in Requests, IngestEvent(request)
    PROVE  IngestInv'
  <1>1. /\ job' = [kind |-> "ingest", batch |-> None, requests |-> <<request>>, items |-> <<>>]
        /\ UNCHANGED <<callVars, entries, batches>>
        /\ call.step = "idle"
    BY DEF IngestEvent, Job, Free, At
  <1>2. StoreInv'
    BY <1>1, StoreNextKeeps DEF IngestInv
  <1>3. IngestTypeOK'
    <2>1. <<request>> \in Seq(Requests)
      OBVIOUS
    <2>2. UNCHANGED <<entries, batches>>
      BY <1>1
    <2> QED
      BY <1>1, <2>1, <2>2, JobIsTyped
  <1>4. EntriesMoveOn /\ UNCHANGED <<ledger, batches, call>>
    BY <1>1 DEF EntriesMoveOn, callVars, storeVars
  <1>5. CallIsTheJobs' /\ ItemsAreTrue'
    BY <1>1, <1>4 DEF CallIsTheJobs, ItemsAreTrue
  <1> QED
    BY <1>2, <1>3, <1>4, <1>5, WhatWasSaidStaysTrue DEF IngestInv

LEMMA IngestBatchKeeps ==
    ASSUME IngestInv, NEW b \in Batches, NEW requests \in Submissions, IngestBatch(b, requests)
    PROVE  IngestInv'
  <1>1. /\ job' = [kind |-> "ingest", batch |-> b, requests |-> requests, items |-> <<>>]
        /\ UNCHANGED <<callVars, entries, batches>>
        /\ call.step = "idle"
        /\ \A i \in DOMAIN requests : ~Conflicts(requests[i])
        /\ requests \in Seq(Requests)
    BY DEF IngestBatch, Job, Free, At, BatchAccepted
  <1>2. StoreInv'
    BY <1>1, StoreNextKeeps DEF IngestInv
  <1>3. IngestTypeOK'
    BY <1>1, JobIsTyped
  <1>4. EntriesMoveOn /\ UNCHANGED <<ledger, batches, call>>
    BY <1>1 DEF EntriesMoveOn, callVars, storeVars
  <1>5. CallIsTheJobs'
    BY <1>1, <1>4 DEF CallIsTheJobs
  <1>6. ItemsAreTrue'
    <2>1. AreAccounted(requests)
      BY <1>1, ContentsOfRequests DEF AreAccounted, Conflicts
    <2> QED
      BY <1>1, <2>1 DEF ItemsAreTrue, AreAccounted
  <1> QED
    BY <1>2, <1>3, <1>4, <1>5, <1>6, WhatWasSaidStaysTrue DEF IngestInv

LEMMA EnrichEventKeeps ==
    ASSUME IngestInv, NEW e \in Events, NEW v \in Vectors, EnrichEvent(e, v)
    PROVE  IngestInv'
  <1> DEFINE request == [event |-> e, content |-> entries[e].content, vector |-> v]
  <1>1. /\ job' = [kind |-> "enrich", batch |-> None, requests |-> <<request>>, items |-> <<>>]
        /\ call' = [step |-> "judge", subject |-> e, content |-> entries[e].content,
                    vector |-> v, outcome |-> None]
        /\ Remember(e, entries[e].content, v)
        /\ UNCHANGED <<storeVars, history, faults, entries, batches>>
        /\ e \in DOMAIN entries
        /\ entries[e].status \notin Terminal
    BY DEF EnrichEvent, Job, Remember, Frame
  <1>2. entries[e].content \in Contents
    BY <1>1 DEF IngestInv, IngestTypeOK, EntriesTypeOK
  <1>3. StoreInv'
    BY <1>1, <1>2, RememberKeeps DEF IngestInv
  <1>4. IngestTypeOK'
    <2>1. <<request>> \in Seq(Requests)
      BY <1>2 DEF Requests
    <2> QED
      BY <1>1, <2>1, JobIsTyped
  <1>5. EntriesMoveOn /\ UNCHANGED <<ledger, batches>>
    BY <1>1 DEF EntriesMoveOn, storeVars, documents
  <1>6. CallIsTheJobs'
    BY <1>1, <1>2 DEF CallIsTheJobs, Current, At
  <1>7. ItemsAreTrue'
    BY <1>1 DEF ItemsAreTrue
  <1> QED
    BY <1>3, <1>4, <1>5, <1>6, <1>7, WhatWasSaidStaysTrue DEF IngestInv

LEMMA RecordEnrichmentFailureKeeps ==
    ASSUME IngestInv, NEW e \in Events, RecordEnrichmentFailure(e)
    PROVE  IngestInv'
  <1>1. /\ job = NoJob /\ call.step = "idle"
        /\ e \in DOMAIN entries
        /\ entries[e].status \notin Terminal
        /\ entries' = [entries EXCEPT ![e].status = "failed"]
        /\ UNCHANGED <<callVars, batches, job>>
    BY DEF RecordEnrichmentFailure, Free, At
  <1>2. StoreInv'
    BY <1>1, StoreNextKeeps DEF IngestInv
  <1>3. IngestTypeOK'
    <2>1. EntriesTypeOK'
      BY <1>1 DEF IngestInv, IngestTypeOK, EntriesTypeOK, Statuses
    <2> QED
      BY <1>1, <2>1, TypesStay DEF IngestTypeOK
  <1>4. EntriesMoveOn /\ UNCHANGED <<ledger, batches, call>>
    BY <1>1 DEF EntriesMoveOn, callVars, storeVars, IngestInv, IngestTypeOK, EntriesTypeOK
  <1>5. CallIsTheJobs' /\ ItemsAreTrue'
    BY <1>1, <1>4 DEF CallIsTheJobs, ItemsAreTrue, NoJob, Job, At
  <1> QED
    BY <1>2, <1>3, <1>4, <1>5, WhatWasSaidStaysTrue DEF IngestInv

LEMMA RequestsAreTyped ==
    ASSUME NEW requests \in Seq(Requests)
    PROVE  /\ \A i \in DOMAIN requests :
                  requests[i].event \in Events /\ requests[i].content \in Contents
           /\ Members(requests) \in Seq([event : Events, content : Contents])
           /\ Len(Members(requests)) = Len(requests)
           /\ DOMAIN Members(requests) = DOMAIN requests
  <1>1. \A i \in DOMAIN requests : requests[i] \in Requests
    OBVIOUS
  <1>2. \A i \in DOMAIN requests :
            requests[i].event \in Events /\ requests[i].content \in Contents
    BY <1>1 DEF Requests
  <1>3. Len(requests) \in Nat /\ DOMAIN requests = 1..Len(requests)
    OBVIOUS
  <1>4. \A i \in DOMAIN requests : Member(requests[i]) \in [event : Events, content : Contents]
    BY <1>2 DEF Member
  <1> QED
    BY <1>2, <1>3, <1>4 DEF Members

\* What a raw batch leaves of the entries, and says of them.
LEMMA RawBatchFacts ==
    ASSUME IngestInv, NEW b \in Batches, NEW requests \in Submissions,
           IngestRawBatch(b, requests)
    PROVE  /\ \A i \in DOMAIN requests :
                  LET event == requests[i].event IN
                  /\ event \in DOMAIN entries'
                  /\ entries'[event].content \in ContentsFor(requests, event)
                  /\ entries'[event].status = Entry(requests[i]).status
           /\ \A e \in DOMAIN entries : entries'[e] = entries[e]
           /\ \A e \in DOMAIN entries' \ DOMAIN entries : entries'[e].status = "received"
           /\ EntriesMoveOn
           /\ EntriesTypeOK'
  <1>1. requests \in Seq(Requests)
    OBVIOUS
  <1>2. \A i \in DOMAIN requests :
            requests[i].event \in Events /\ requests[i].content \in Contents
    BY <1>1, RequestsAreTyped
  <1>3. PICK kept \in Kept(requests) : entries' = EntriesWith(requests, kept)
    BY DEF IngestRawBatch
  <1>4. \A e \in Named(requests) : kept[e] \in DOMAIN requests /\ requests[kept[e]].event = e
    BY <1>3 DEF Kept
  <1>5. /\ DOMAIN entries' = DOMAIN entries \cup Named(requests)
        /\ \A e \in DOMAIN entries : entries'[e] = entries[e]
        /\ \A e \in DOMAIN entries' \ DOMAIN entries :
               entries'[e] = Entry(requests[kept[e]])
    BY <1>3 DEF EntriesWith
  <1>6. ASSUME NEW e \in DOMAIN entries' \ DOMAIN entries
        PROVE  /\ entries'[e].content = requests[kept[e]].content
               /\ entries'[e].status = "received"
               /\ entries'[e] \in [content : Contents, status : Statuses]
    <2>1. /\ kept[e] \in DOMAIN requests /\ requests[kept[e]].event = e
          /\ e \notin DOMAIN entries /\ entries'[e] = Entry(requests[kept[e]])
      BY <1>4, <1>5
    <2>2. Entry(requests[kept[e]]) = [content |-> requests[kept[e]].content, status |-> "received"]
      BY <2>1 DEF Entry
    <2>3. requests[kept[e]].content \in Contents /\ "received" \in Statuses
      BY <1>2, <2>1 DEF Statuses
    <2> QED
      BY <2>1, <2>2, <2>3
  <1>7. EntriesMoveOn
    BY <1>5 DEF EntriesMoveOn
  <1>8. EntriesTypeOK'
    <2>1. DOMAIN entries' \subseteq Events
      BY <1>2, <1>5 DEF Named, IngestInv, IngestTypeOK, EntriesTypeOK
    <2> QED
      BY <1>5, <1>6, <2>1 DEF IngestInv, IngestTypeOK, EntriesTypeOK
  <1>9. ASSUME NEW i \in DOMAIN requests
        PROVE  LET event == requests[i].event IN
               /\ event \in DOMAIN entries'
               /\ entries'[event].content \in ContentsFor(requests, event)
               /\ entries'[event].status = Entry(requests[i]).status
    <2> DEFINE event == requests[i].event
    <2>1. event \in Named(requests)
      BY DEF Named
    <2>2. CASE event \in DOMAIN entries
      <3>1. entries[event].content = requests[i].content
        BY <2>2 DEF IngestRawBatch, BatchAccepted, Conflicts
      <3>2. requests[i].content \in ContentsFor(requests, event)
        BY <1>1, ContentsOfRequests
      <3> QED
        BY <1>5, <2>2, <3>1, <3>2 DEF Entry
    <2>3. CASE event \notin DOMAIN entries
      <3>1. event \in DOMAIN entries' \ DOMAIN entries
        BY <1>5, <2>1, <2>3
      <3>2. requests[kept[event]].content \in ContentsFor(requests, event)
        BY <1>1, <1>4, <2>1, ContentsOfRequests
      <3> QED
        BY <1>6, <2>3, <3>1, <3>2 DEF Entry
    <2> QED
      BY <2>2, <2>3
  <1> QED
    BY <1>5, <1>6, <1>7, <1>8, <1>9

LEMMA IngestRawBatchKeeps ==
    ASSUME IngestInv, NEW b \in Batches, NEW requests \in Submissions,
           IngestRawBatch(b, requests)
    PROVE  IngestInv'
  <1> DEFINE record == [members |-> Members(requests),
                        items |-> [i \in DOMAIN requests |-> Entry(requests[i]).status]]
  <1>1. /\ job = NoJob /\ call.step = "idle"
        /\ UNCHANGED <<callVars, job>>
        /\ DOMAIN batches' = DOMAIN batches \cup {b}
        /\ batches'[b] = record
        /\ \A c \in DOMAIN batches \ {b} : batches'[c] = batches[c]
    BY DEF IngestRawBatch, Free, At, With
  <1>2. StoreInv'
    BY <1>1, StoreNextKeeps DEF IngestInv
  <1>3. EntriesTypeOK' /\ EntriesMoveOn /\ MemoriesAreOfEvents'
    <2>1. UNCHANGED ledger
      BY <1>1 DEF callVars, storeVars, documents
    <2> QED
      BY <2>1, RawBatchFacts, WhatWasSaidStaysTrue
  <1>4. BatchesTypeOK'
    <2>1. requests \in Seq(Requests)
      OBVIOUS
    <2>2. record.members \in Seq([event : Events, content : Contents])
      BY <2>1, RequestsAreTyped
    <2>3. \A i \in DOMAIN requests : Entry(requests[i]).status \in Statuses
      BY <2>1 DEF Entry, IngestInv, IngestTypeOK, EntriesTypeOK, Statuses, Requests
    <2>4. record.items \in Seq(Statuses) /\ Len(record.items) = Len(record.members)
      BY <2>1, <2>3 DEF Members
    <2>5. record \in BatchRecords
      BY <2>2, <2>4 DEF BatchRecords
    <2> HIDE DEF record
    <2> QED
      BY <1>1, <2>4, <2>5 DEF IngestInv, IngestTypeOK, BatchesTypeOK
  <1>5. JobTypeOK'
    BY <1>1, TypesStay
  <1>6. CallIsTheJobs' /\ ItemsAreTrue'
    BY <1>1 DEF CallIsTheJobs, ItemsAreTrue, NoJob, Job, callVars
  <1>7. BatchesAreTrue'
    <2>1. requests \in Seq(Requests)
      OBVIOUS
    <2>2. ASSUME NEW c \in DOMAIN batches', NEW i \in DOMAIN batches'[c].members
          PROVE  LET event == batches'[c].members[i].event
                     item == batches'[c].items[i] IN
                 /\ event \in DOMAIN entries'
                 /\ entries'[event].content \in ContentsFor(batches'[c].members, event)
                 /\ item \in Terminal => entries'[event].status = item
      <3>1. CASE c = b
        <4>1. /\ i \in DOMAIN requests
              /\ batches'[c].members = Members(requests)
              /\ batches'[c].members[i].event = requests[i].event
              /\ batches'[c].items[i] = Entry(requests[i]).status
          BY <1>1, <2>2, <3>1 DEF Members, Member
        <4>2. ContentsFor(batches'[c].members, requests[i].event) =
                  ContentsFor(requests, requests[i].event)
          BY <2>1, <4>1, ContentsOfRequests
        <4> HIDE DEF record
        <4> QED
          BY <4>1, <4>2, RawBatchFacts
      <3>2. CASE c # b
        <4> HIDE DEF record
        <4>1. c \in DOMAIN batches /\ batches'[c] = batches[c]
          BY <1>1, <2>2, <3>2
        <4>2. LET event == batches[c].members[i].event
                  item == batches[c].items[i] IN
              /\ event \in DOMAIN entries
              /\ entries[event].content \in ContentsFor(batches[c].members, event)
              /\ item \in Terminal => entries[event].status = item
          BY <2>2, <4>1 DEF IngestInv, BatchesAreTrue
        <4> QED
          BY <1>3, <4>1, <4>2 DEF EntriesMoveOn
      <3> QED
        BY <3>1, <3>2
    <2> QED
      BY <2>2 DEF BatchesAreTrue
  <1> QED
    BY <1>2, <1>3, <1>4, <1>5, <1>6, <1>7 DEF IngestInv, IngestTypeOK

LEMMA CurrentIsTyped ==
    ASSUME IngestInv, Len(job.items) < Len(job.requests)
    PROVE  /\ Len(job.items) + 1 \in DOMAIN job.requests
           /\ Current.event \in Events
           /\ Current.content \in Contents
           /\ Current.vector \in Vectors \cup {None}
  <1>1. job.requests \in Seq(Requests) /\ job.items \in Seq(Statuses)
    BY DEF IngestInv, IngestTypeOK, JobTypeOK
  <1>2. Len(job.items) + 1 \in DOMAIN job.requests
    BY <1>1
  <1>3. Current \in Requests
    BY <1>1, <1>2 DEF Current
  <1> QED
    BY <1>2, <1>3 DEF Requests

\* The entry that is made for the current item accounts for it.
LEMMA CurrentStaysAccounted ==
    ASSUME IngestInv, job.batch # None, Len(job.items) < Len(job.requests), EntriesMoveOn,
           \A e \in DOMAIN entries' \ DOMAIN entries :
               e = Current.event /\ entries'[e].content = Current.content,
           job'.requests = job.requests
    PROVE  AreAccounted(job.requests)'
  <1>1. job.requests \in Seq(Requests) /\ AreAccounted(job.requests)
    BY DEF IngestInv, IngestTypeOK, JobTypeOK, ItemsAreTrue
  <1>2. Current.content \in ContentsFor(job.requests, Current.event)
    BY <1>1, CurrentIsTyped, ContentsOfRequests DEF Current
  <1>3. \A e \in DOMAIN entries' \ DOMAIN entries :
            entries'[e].content \in ContentsFor(job.requests, e)
    BY <1>2
  <1> QED
    BY <1>1, <1>3, Zenon DEF AreAccounted, EntriesMoveOn

\* An item is done with what the entry says.
LEMMA ItemDoneKeeps ==
    ASSUME IngestInv, job.kind # "none", Len(job.items) < Len(job.requests),
           NEW status \in Statuses, ItemDone(status), call'.step = "idle", EntriesMoveOn,
           Current.event \in DOMAIN entries',
           status \in Terminal => entries'[Current.event].status = status,
           \A e \in DOMAIN entries' \ DOMAIN entries :
               e = Current.event /\ entries'[e].content = Current.content
    PROVE  JobTypeOK' /\ ItemsAreTrue' /\ CallIsTheJobs'
  <1>1. CASE job.batch = None
    <2>1. job' = [kind |-> "none", batch |-> None, requests |-> <<>>, items |-> <<>>]
      BY <1>1 DEF ItemDone, NoJob, Job
    <2>2. JobTypeOK'
      BY <2>1 DEF JobTypeOK
    <2> QED
      BY <2>1, <2>2 DEF ItemsAreTrue, CallIsTheJobs, NoJob, Job
  <1>2. CASE job.batch # None
    <2>1. /\ job \in [kind     : {"none", "ingest", "enrich"},
                      batch    : Batches \cup {None},
                      requests : Seq(Requests),
                      items    : Seq(Statuses)]
          /\ job' = [job EXCEPT !.items = Append(job.items, status)]
      BY <1>2 DEF ItemDone, IngestInv, IngestTypeOK, JobTypeOK
    <2>2. /\ job'.kind = job.kind /\ job'.batch = job.batch /\ job'.requests = job.requests
          /\ job'.items = Append(job.items, status)
      BY <2>1
    <2>3. /\ DOMAIN job'.items = DOMAIN job.items \cup {Len(job.items) + 1}
          /\ \A i \in DOMAIN job.items : job'.items[i] = job.items[i]
          /\ job'.items[Len(job.items) + 1] = status
          /\ Len(job'.items) = Len(job.items) + 1
          /\ job'.items \in Seq(Statuses)
      BY <2>1, <2>2
    <2>4. JobTypeOK'
      <3>1. Len(job'.items) <= Len(job'.requests)
        BY <2>1, <2>2, <2>3
      <3> QED
        BY <2>1, <2>2, <2>3, <3>1 DEF JobTypeOK
    <2>5. CallIsTheJobs'
      BY <2>2 DEF CallIsTheJobs
    <2>6. ItemsAreTrue'
      <3>1. AreAccounted(job.requests)'
        BY <1>2, <2>2, CurrentStaysAccounted DEF AreAccounted
      <3>2. ASSUME NEW i \in DOMAIN job'.items
            PROVE  /\ job.requests[i].event \in DOMAIN entries'
                   /\ job'.items[i] \in Terminal =>
                          entries'[job.requests[i].event].status = job'.items[i]
        <4>1. CASE i \in DOMAIN job.items
          BY <1>2, <2>3, <4>1 DEF IngestInv, ItemsAreTrue, EntriesMoveOn
        <4>2. CASE i = Len(job.items) + 1
          BY <2>3, <4>2 DEF Current
        <4> QED
          BY <2>3, <4>1, <4>2
      <3> QED
        BY <1>2, <2>2, <3>1, <3>2 DEF IngestInv, ItemsAreTrue
    <2> QED
      BY <2>4, <2>5, <2>6
  <1> QED
    BY <1>1, <1>2

\* prepare_ingestion_entry() adds an entry or leaves them all as they are.
LEMMA PrepareFacts ==
    ASSUME IngestInv, PrepareEntry
    PROVE  /\ Len(job.items) < Len(job.requests) /\ job.kind = "ingest" /\ call.step = "idle"
           /\ DOMAIN entries' = DOMAIN entries \cup {Current.event}
           /\ entries'[Current.event] = Entry(Current)
           /\ \A e \in DOMAIN entries : entries'[e] = entries[e]
           /\ Entry(Current) \in [content : Contents, status : Statuses]
           /\ Entry(Current).content = Current.content \/ Conflicts(Current)
           /\ EntriesMoveOn /\ EntriesTypeOK'
           /\ UNCHANGED <<storeVars, history, faults, batches>>
  <1>1. /\ Len(job.items) < Len(job.requests) /\ job.kind = "ingest" /\ call.step = "idle"
        /\ entries' = With(entries, Current.event, Entry(Current))
        /\ UNCHANGED <<storeVars, history, faults, batches>>
    BY DEF PrepareEntry, Preparing, At
  <1>2. /\ DOMAIN entries' = DOMAIN entries \cup {Current.event}
        /\ entries'[Current.event] = Entry(Current)
        /\ \A e \in DOMAIN entries : entries'[e] = entries[e]
    BY <1>1 DEF With, Entry
  <1>3. Current.event \in Events /\ Current.content \in Contents
    BY <1>1, CurrentIsTyped
  <1>4. Entry(Current) \in [content : Contents, status : Statuses]
    BY <1>3 DEF Entry, IngestInv, IngestTypeOK, EntriesTypeOK, Statuses
  <1>5. Entry(Current).content = Current.content \/ Conflicts(Current)
    BY DEF Entry, Conflicts
  <1>6. EntriesMoveOn
    BY <1>2 DEF EntriesMoveOn
  <1>7. EntriesTypeOK'
    BY <1>2, <1>3, <1>4 DEF IngestInv, IngestTypeOK, EntriesTypeOK
  <1> QED
    BY <1>1, <1>2, <1>4, <1>5, <1>6, <1>7

LEMMA PrepareEntryKeeps ==
    ASSUME IngestInv, PrepareEntry
    PROVE  IngestInv'
  <1>1. Current.event \in Events /\ Current.content \in Contents
    BY PrepareFacts, CurrentIsTyped
  <1>2. MemoriesAreOfEvents' /\ BatchesAreTrue' /\ EntriesTypeOK' /\ BatchesTypeOK'
    BY PrepareFacts, WhatWasSaidStaysTrue, TypesStay DEF storeVars, documents
  <1>3. CASE Remembers(Current)
    <2>1. /\ Remember(Current.event, Current.content, Current.vector)
          /\ UNCHANGED job
          /\ Current.vector \in Vectors
          /\ Entry(Current).content = Current.content
          /\ Entry(Current).status \notin Terminal
      BY <1>3, PrepareFacts, CurrentIsTyped DEF PrepareEntry, Remembers
    <2>2. call' = [step |-> "judge", subject |-> Current.event, content |-> Current.content,
                   vector |-> Current.vector, outcome |-> None]
      BY <2>1 DEF Remember, Frame
    <2>3. StoreInv'
      BY <1>1, <2>1, PrepareFacts, RememberKeeps DEF IngestInv
    <2>4. JobTypeOK'
      BY <2>1, TypesStay
    <2>5. CallIsTheJobs'
      BY <2>1, <2>2, PrepareFacts DEF CallIsTheJobs, Current, At
    <2>6. ItemsAreTrue'
      <3>1. ASSUME job.batch # None PROVE AreAccounted(job.requests)'
        <4>1. \A e \in DOMAIN entries' \ DOMAIN entries :
                  e = Current.event /\ entries'[e].content = Current.content
          BY <2>1, PrepareFacts
        <4> QED
          BY <2>1, <3>1, <4>1, PrepareFacts, CurrentStaysAccounted
      <3> QED
        BY <2>1, <3>1, PrepareFacts DEF IngestInv, ItemsAreTrue
    <2> QED
      BY <1>2, <2>3, <2>4, <2>5, <2>6 DEF IngestInv, IngestTypeOK
  <1>4. CASE ~Remembers(Current)
    <2>1. ItemDone(Entry(Current).status) /\ UNCHANGED call
      BY <1>4 DEF PrepareEntry
    <2>2. StoreInv'
      BY <2>1, PrepareFacts, StoreNextKeeps DEF IngestInv, callVars, history
    <2>3. JobTypeOK' /\ ItemsAreTrue' /\ CallIsTheJobs'
      <3>1. Entry(Current).status \in Statuses /\ job.kind # "none"
        BY PrepareFacts
      <3>2. call'.step = "idle"
        BY <2>1, PrepareFacts
      <3>3. \A e \in DOMAIN entries' \ DOMAIN entries :
                e = Current.event /\ entries'[e].content = Current.content
        BY PrepareFacts DEF Conflicts
      <3> QED
        BY <2>1, <3>1, <3>2, <3>3, PrepareFacts, ItemDoneKeeps
    <2> QED
      BY <1>2, <2>2, <2>3 DEF IngestInv, IngestTypeOK
  <1> QED
    BY <1>3, <1>4

\* What is settled when remember() has returned.
LEMMA SettleFacts ==
    ASSUME IngestInv, job.kind # "none", At("returned")
    PROVE  /\ Len(job.items) < Len(job.requests)
           /\ Current.event = call.subject
           /\ Current.event \in DOMAIN entries
           /\ entries[Current.event].status \in Statuses \ Terminal
           /\ call.outcome = "stored" => Current.event \in DOMAIN ledger
           /\ call.outcome = "blocked" => Current.event \notin DOMAIN ledger
  <1>1. /\ Len(job.items) < Len(job.requests)
        /\ Current.event = call.subject
        /\ call.subject \in DOMAIN entries
        /\ entries[call.subject].content = call.content
        /\ entries[call.subject].status \notin Terminal
        /\ call.outcome = "stored" => call.subject \in DOMAIN ledger
        /\ call.outcome = "blocked" => call.content \in Blocked
    BY DEF IngestInv, CallIsTheJobs, At
  <1>2. call.subject \in Events /\ entries[call.subject].status \in Statuses
    BY <1>1 DEF IngestInv, IngestTypeOK, EntriesTypeOK
  <1>3. call.outcome = "blocked" => call.subject \notin DOMAIN ledger
    BY <1>1, <1>2 DEF IngestInv, MemoriesAreOfEvents
  <1> QED
    BY <1>1, <1>2, <1>3

LEMMA SettleEntryKeeps ==
    ASSUME IngestInv, SettleEntry
    PROVE  IngestInv'
  <1> DEFINE status == SettledAs(call.outcome)
  <1>1. /\ job.kind # "none" /\ At("returned")
        /\ entries' = [entries EXCEPT ![Current.event].status = status]
        /\ ItemDone(status)
        /\ call' = Idle
        /\ UNCHANGED <<storeVars, history, faults, batches>>
    BY DEF SettleEntry, Leave
  <1>2. status \in Statuses
    BY DEF SettledAs, Statuses, Terminal
  <1>3. /\ Len(job.items) < Len(job.requests)
        /\ Current.event \in DOMAIN entries
        /\ entries[Current.event].status \notin Terminal
    BY <1>1, SettleFacts
  <1>4. /\ DOMAIN entries' = DOMAIN entries
        /\ \A e \in DOMAIN entries :
               /\ entries'[e].content = entries[e].content
               /\ entries'[e].status = IF e = Current.event THEN status ELSE entries[e].status
               /\ entries'[e] \in [content : Contents, status : Statuses]
    BY <1>1, <1>2, <1>3 DEF IngestInv, IngestTypeOK, EntriesTypeOK
  <1>5. EntriesTypeOK'
    BY <1>4 DEF IngestInv, IngestTypeOK, EntriesTypeOK
  <1>6. EntriesMoveOn
    BY <1>3, <1>4 DEF EntriesMoveOn
  <1>7. MemoriesAreOfEvents' /\ BatchesAreTrue' /\ BatchesTypeOK'
    BY <1>1, <1>6, WhatWasSaidStaysTrue, TypesStay DEF storeVars, documents
  <1>8. StoreInv'
    BY <1>1, InterruptionKeeps DEF IngestInv, StoreInv, StoreTypeOK
  <1>9. JobTypeOK' /\ ItemsAreTrue' /\ CallIsTheJobs'
    <2>1. call'.step = "idle"
      BY <1>1 DEF Idle, Frame
    <2> QED
      BY <1>1, <1>2, <1>3, <1>4, <1>6, <2>1, ItemDoneKeeps
  <1> QED
    BY <1>5, <1>7, <1>8, <1>9 DEF IngestInv, IngestTypeOK

LEMMA FinishBatchKeeps ==
    ASSUME IngestInv, FinishBatch
    PROVE  IngestInv'
  <1> DEFINE record == [members |-> Members(job.requests), items |-> job.items]
  <1>1. /\ job.batch # None /\ call.step = "idle"
        /\ Len(job.items) = Len(job.requests)
        /\ job' = NoJob
        /\ UNCHANGED <<callVars, entries>>
        /\ DOMAIN batches' = DOMAIN batches \cup {job.batch}
        /\ batches'[job.batch] = record
        /\ \A c \in DOMAIN batches \ {job.batch} : batches'[c] = batches[c]
    BY DEF FinishBatch, At, With, Items
  <1>2. /\ job.requests \in Seq(Requests) /\ job.items \in Seq(Statuses)
        /\ job.batch \in Batches
    BY <1>1 DEF IngestInv, IngestTypeOK, JobTypeOK
  <1>3. StoreInv'
    BY <1>1, StoreNextKeeps DEF IngestInv
  <1>4. MemoriesAreOfEvents' /\ EntriesTypeOK'
    <2>1. EntriesMoveOn /\ UNCHANGED ledger
      BY <1>1 DEF EntriesMoveOn, callVars, storeVars, documents
    <2> QED
      BY <1>1, <2>1, WhatWasSaidStaysTrue, TypesStay
  <1>5. BatchesTypeOK'
    <2>1. /\ record.members \in Seq([event : Events, content : Contents])
          /\ record.items \in Seq(Statuses)
          /\ Len(record.items) = Len(record.members)
      BY <1>1, <1>2, RequestsAreTyped
    <2>2. record \in BatchRecords
      BY <2>1 DEF BatchRecords
    <2> HIDE DEF record
    <2> QED
      BY <1>1, <1>2, <2>1, <2>2 DEF IngestInv, IngestTypeOK, BatchesTypeOK
  <1>6. JobTypeOK' /\ CallIsTheJobs' /\ ItemsAreTrue'
    BY <1>1 DEF JobTypeOK, CallIsTheJobs, ItemsAreTrue, NoJob, Job, callVars
  <1>7. BatchesAreTrue'
    <2>1. ASSUME NEW c \in DOMAIN batches', NEW i \in DOMAIN batches'[c].members
          PROVE  LET event == batches'[c].members[i].event
                     item == batches'[c].items[i] IN
                 /\ event \in DOMAIN entries'
                 /\ entries'[event].content \in ContentsFor(batches'[c].members, event)
                 /\ item \in Terminal => entries'[event].status = item
      <3>1. CASE c = job.batch
        <4>1. /\ i \in DOMAIN job.requests /\ i \in DOMAIN job.items
              /\ batches'[c].members = Members(job.requests)
              /\ batches'[c].members[i].event = job.requests[i].event
              /\ batches'[c].items[i] = job.items[i]
          <5>1. batches'[c] = record /\ i \in DOMAIN record.members
            BY <1>1, <2>1, <3>1
          <5>2. i \in DOMAIN job.requests /\ i \in DOMAIN job.items
            BY <1>1, <1>2, <5>1 DEF Members
          <5> QED
            BY <5>1, <5>2 DEF Members, Member
        <4> DEFINE event == job.requests[i].event
        <4>2. /\ event \in DOMAIN entries
              /\ job.items[i] \in Terminal => entries[event].status = job.items[i]
          BY <1>1, <4>1 DEF IngestInv, ItemsAreTrue
        <4>3. entries[event].content \in ContentsFor(job.requests, event)
          BY <1>1, <4>1, <4>2 DEF IngestInv, ItemsAreTrue, AreAccounted
        <4>4. ContentsFor(batches'[c].members, event) = ContentsFor(job.requests, event)
          BY <1>2, <4>1, ContentsOfRequests
        <4>5. UNCHANGED entries
          BY <1>1
        <4> HIDE DEF record
        <4> QED
          BY <4>1, <4>2, <4>3, <4>4, <4>5
      <3>2. CASE c # job.batch
        <4> HIDE DEF record
        <4>1. c \in DOMAIN batches /\ batches'[c] = batches[c] /\ UNCHANGED entries
          BY <1>1, <2>1, <3>2
        <4> QED
          BY <2>1, <4>1 DEF IngestInv, BatchesAreTrue
      <3> QED
        BY <3>1, <3>2
    <2> QED
      BY <2>1 DEF BatchesAreTrue
  <1> QED
    BY <1>3, <1>4, <1>5, <1>6, <1>7 DEF IngestInv, IngestTypeOK

\* A refused commit of a job that is not in a call: the item is done, or the job.
LEMMA RefusePrepareKeeps ==
    ASSUME IngestInv, RefusePrepare
    PROVE  IngestInv'
  <1>1. /\ job.kind # "none" /\ call.step = "idle" /\ Len(job.items) < Len(job.requests)
        /\ faults' \in 0..MaxFaults
        /\ UNCHANGED <<storeVars, history, call, entries, batches>>
    BY DEF RefusePrepare, Preparing, At, Fault, IngestInv, StoreInv, StoreTypeOK
  <1>2. StoreInv'
    BY <1>1, InterruptionKeeps DEF IngestInv
  <1>3. EntriesMoveOn /\ UNCHANGED ledger
    BY <1>1 DEF EntriesMoveOn, storeVars, documents
  <1>4. MemoriesAreOfEvents' /\ BatchesAreTrue' /\ EntriesTypeOK' /\ BatchesTypeOK'
    BY <1>1, <1>3, WhatWasSaidStaysTrue, TypesStay
  <1>5. JobTypeOK' /\ ItemsAreTrue' /\ CallIsTheJobs'
    <2>1. CASE Current.event \in DOMAIN entries
      <3>1. entries[Current.event].status \in Statuses
        BY <2>1 DEF IngestInv, IngestTypeOK, EntriesTypeOK
      <3>2. ItemDone(entries[Current.event].status)
        BY <2>1 DEF RefusePrepare
      <3> QED
        BY <1>1, <1>3, <2>1, <3>1, <3>2, ItemDoneKeeps
    <2>2. CASE Current.event \notin DOMAIN entries
      <3>1. job' = [kind |-> "none", batch |-> None, requests |-> <<>>, items |-> <<>>]
        BY <2>2 DEF RefusePrepare, NoJob, Job
      <3> QED
        BY <1>1, <3>1 DEF JobTypeOK, ItemsAreTrue, CallIsTheJobs, NoJob, Job
    <2> QED
      BY <2>1, <2>2
  <1> QED
    BY <1>2, <1>4, <1>5 DEF IngestInv, IngestTypeOK

LEMMA RefuseSettleKeeps ==
    ASSUME IngestInv, RefuseSettle
    PROVE  IngestInv'
  <1>1. /\ job.kind # "none" /\ At("returned")
        /\ faults' \in 0..MaxFaults
        /\ ItemDone(entries[Current.event].status)
        /\ call' = Idle
        /\ UNCHANGED <<storeVars, history, entries, batches>>
    BY DEF RefuseSettle, Leave, Fault, IngestInv, StoreInv, StoreTypeOK
  <1>2. StoreInv'
    BY <1>1, InterruptionKeeps DEF IngestInv
  <1>3. EntriesMoveOn /\ UNCHANGED ledger
    BY <1>1 DEF EntriesMoveOn, storeVars, documents
  <1>4. MemoriesAreOfEvents' /\ BatchesAreTrue' /\ EntriesTypeOK' /\ BatchesTypeOK'
    BY <1>1, <1>3, WhatWasSaidStaysTrue, TypesStay
  <1>5. JobTypeOK' /\ ItemsAreTrue' /\ CallIsTheJobs'
    <2>1. call'.step = "idle"
      BY <1>1 DEF Idle, Frame
    <2> QED
      BY <1>1, <1>3, <2>1, SettleFacts, ItemDoneKeeps
  <1> QED
    BY <1>2, <1>4, <1>5 DEF IngestInv, IngestTypeOK

\* The job is given up, with the call it may be in.
LEMMA JobGivenUp ==
    ASSUME IngestInv, job' = NoJob, call' \in {call, Idle},
           call' = call => call.step \notin Remembering,
           faults' \in 0..MaxFaults, UNCHANGED <<storeVars, history, entries, batches>>
    PROVE  IngestInv'
  <1>1. StoreInv'
    BY InterruptionKeeps DEF IngestInv
  <1>2. EntriesMoveOn /\ UNCHANGED ledger
    BY DEF EntriesMoveOn, storeVars, documents
  <1>3. MemoriesAreOfEvents' /\ BatchesAreTrue' /\ EntriesTypeOK' /\ BatchesTypeOK'
    BY <1>2, WhatWasSaidStaysTrue, TypesStay
  <1>4. JobTypeOK' /\ ItemsAreTrue' /\ CallIsTheJobs'
    BY DEF JobTypeOK, ItemsAreTrue, CallIsTheJobs, NoJob, Job, Idle, Frame
  <1> QED
    BY <1>1, <1>3, <1>4 DEF IngestInv, IngestTypeOK

\* Calls that no ingestion makes: of keys that are no events', and deletions.
LEMMA DirectCallKeeps ==
    ASSUME IngestInv, job = NoJob, StoreInv', UNCHANGED <<ledger, ingestVars>>,
           call'.step \in Remembering => call'.subject \notin Events
    PROVE  IngestInv'
  <1>1. EntriesMoveOn
    BY DEF EntriesMoveOn, ingestVars
  <1>2. MemoriesAreOfEvents' /\ BatchesAreTrue' /\ IngestTypeOK'
    BY <1>1, WhatWasSaidStaysTrue, TypesStay DEF ingestVars, IngestTypeOK
  <1>3. CallIsTheJobs' /\ ItemsAreTrue'
    BY DEF CallIsTheJobs, ItemsAreTrue, NoJob, Job, ingestVars
  <1> QED
    BY <1>2, <1>3 DEF IngestInv

LEMMA NextKeeps ==
    ASSUME IngestInv, [Next]_vars
    PROVE  IngestInv'
  <1>1. ASSUME NEW s \in Subjects \ Events, NEW c \in Contents, NEW v \in Vectors,
               Remember(s, c, v), Direct, UNCHANGED <<storeVars, history, faults>>
        PROVE  IngestInv'
    <2>1. StoreInv'
      BY <1>1, RememberKeeps DEF IngestInv
    <2> QED
      BY <1>1, <2>1, DirectCallKeeps DEF Direct, Remember, Frame, storeVars, documents
  <1>2. ASSUME NEW s \in Subjects, DeleteMemory(s), Direct
        PROVE  IngestInv'
    <2>1. StoreInv'
      BY <1>2, DeleteMemoryKeeps DEF IngestInv
    <2> QED
      BY <1>2, <2>1, DirectCallKeeps DEF Direct, DeleteMemory, Frame, storeVars, documents
  <1>3. ASSUME NEW request \in Requests, IngestEvent(request)
        PROVE  IngestInv'
    BY <1>3, IngestEventKeeps
  <1>4. ASSUME NEW b \in Batches, NEW requests \in Submissions,
               IngestBatch(b, requests) \/ IngestRawBatch(b, requests)
        PROVE  IngestInv'
    BY <1>4, IngestBatchKeeps, IngestRawBatchKeeps
  <1>5. ASSUME NEW e \in Events, NEW v \in Vectors, EnrichEvent(e, v)
        PROVE  IngestInv'
    BY <1>5, EnrichEventKeeps
  <1>6. ASSUME NEW e \in Events, RecordEnrichmentFailure(e)
        PROVE  IngestInv'
    BY <1>6, RecordEnrichmentFailureKeeps
  <1>7. CASE StoreStep /\ UNCHANGED ingestVars
    BY <1>7, StoreStepKeepsIngestion
  <1>8. CASE PrepareEntry \/ SettleEntry \/ FinishBatch
    BY <1>8, PrepareEntryKeeps, SettleEntryKeeps, FinishBatchKeeps
  <1>9. CASE Leave /\ Direct /\ UNCHANGED <<storeVars, history, faults>>
    <2>1. StoreInv' /\ call'.step = "idle"
      BY <1>9, InterruptionKeeps DEF Leave, IngestInv, StoreInv, StoreTypeOK, Idle, Frame
    <2> QED
      BY <1>9, <2>1, DirectCallKeeps DEF Direct, storeVars, documents
  <1>10. CASE RefuseCommit /\ UNCHANGED ingestVars
    <2>1. StoreInv'
      BY <1>10, RefuseCommitKeeps DEF IngestInv
    <2>2. /\ call'.step = "returned" /\ call'.outcome = "failed"
          /\ call'.subject = call.subject /\ call'.content = call.content
          /\ call.step # "idle"
          /\ UNCHANGED ledger
      BY <1>10 DEF RefuseCommit, Return, Commits, IngestInv, StoreInv, StoreTypeOK,
                   storeVars, documents
    <2> QED
      BY <1>10, <2>1, <2>2, CallGoesOn
  <1>11. CASE RefusePrepare \/ RefuseSettle
    BY <1>11, RefusePrepareKeeps, RefuseSettleKeeps
  <1>12. CASE RefuseFinish
    BY <1>12, JobGivenUp DEF RefuseFinish, Fault, At, IngestInv, StoreInv, StoreTypeOK
  <1>13. CASE Crash
    <2>1. faults' \in 0..MaxFaults
      BY <1>13 DEF Crash, Fault, IngestInv, StoreInv, StoreTypeOK
    <2>2. Idle.step \notin Remembering
      BY DEF Idle, Frame
    <2> QED
      BY <1>13, <2>1, <2>2, JobGivenUp DEF Crash
  <1>14. CASE UNCHANGED vars
    <2>1. StoreInv'
      BY <1>14, StoreNextKeeps DEF IngestInv, vars
    <2> QED
      BY <1>14, <2>1, CallGoesOn DEF vars, callVars, storeVars, documents, IngestInv,
                                     CallIsTheJobs
  <1> QED
    BY <1>1, <1>2, <1>3, <1>4, <1>5, <1>6, <1>7, <1>8, <1>9, <1>10, <1>11, <1>12, <1>13, <1>14
    DEF Next, Step

\* The invariant holds for any calls, batches and interruptions.
THEOREM IngestionInvariant == Spec => []IngestInv
  BY NothingIngestedIsSound, NextKeeps, PTL DEF Spec

\* Type correctness of ingestion and the store below it.
THEOREM IngestionTypeCorrect == Spec => []TypeOK
  <1>1. IngestInv => TypeOK
    BY DEF IngestInv, StoreInv, IngestTypeOK, EntriesTypeOK, BatchesTypeOK, JobTypeOK, TypeOK,
           EntryRecords
  <1> QED
    BY <1>1, IngestionInvariant, PTL

\* A batch record says of every event what the ledger says (ingest_batch(),
\* ingest_raw_batch()), also after its events were settled in other ways: that it is
\* accounted for, under one of the contents the batch was sent with for it.  Nothing is
\* assumed of the batches; one may have an event more than once.
THEOREM BatchRecordsAreTrue == Spec => []BatchesAreTrue
  <1>1. IngestInv => BatchesAreTrue
    BY DEF IngestInv
  <1> QED
    BY <1>1, IngestionInvariant, PTL

\* Ingestion uses the store as the store may be used: no orphaned vectors or entity
\* bindings (remember(), delete_memory()).
THEOREM IngestionLeavesNoOrphans == Spec => []NoOrphans
  <1>1. IngestInv => NoOrphans
    BY OrphansExcluded DEF IngestInv
  <1> QED
    BY <1>1, IngestionInvariant, PTL

\* Nor does ingestion lose what is found by its vector, or show what is hidden
\* (remember(): "Repair a vector write interrupted after the atomic document commit").
THEOREM IngestionIsSearchable == Spec => [](AnsweredIsSearchable /\ QuarantinedIsHidden)
  <1>1. IngestInv => AnsweredIsSearchable /\ QuarantinedIsHidden
    BY DEF IngestInv, StoreInv
  <1> QED
    BY <1>1, IngestionInvariant, PTL

(***************************************************************************)
(* The refinement of EventPromise.                                         *)
(***************************************************************************)

Accounted == [e \in DOMAIN entries |-> entries[e].content]
Remembered == Restrict(memories, DOMAIN memories \cap Events)
Known == DOMAIN ledger \cap Events
Final == {e \in DOMAIN entries : entries[e].status \in Terminal}
Settled == [e \in Final |-> entries[e].status]

LEMMA DocumentsPromised ==
    ASSUME IngestInv, CommitDocuments, UNCHANGED ingestVars
    PROVE  [Promised!PromiseNext]_<<Accounted, Remembered, Known, Settled>>
  <1> DEFINE e == call.subject
  <1>1. /\ call.step = "judge" /\ e \notin DOMAIN ledger /\ e \notin DOMAIN memories
        /\ memories' = With(memories, e, call.content)
        /\ DOMAIN ledger' = DOMAIN ledger \cup {e}
        /\ UNCHANGED entries
    BY DEF CommitDocuments, New, At, With, IngestInv, StoreInv, Recorded, ingestVars
  <1>2. UNCHANGED <<Accounted, Settled>>
    BY <1>1 DEF Accounted, Settled, Final
  <1>3. CASE e \notin Events
    <2>1. Known' = Known
      BY <1>1, <1>3 DEF Known
    <2>2. Remembered' = Remembered
      BY <1>1, <1>3 DEF Remembered, Restrict, With
    <2> QED
      BY <1>2, <2>1, <2>2
  <1>4. CASE e \in Events
    <2>1. e \in DOMAIN entries /\ entries[e].content = call.content
      BY <1>1, <1>4 DEF IngestInv, CallIsTheJobs
    <2>2. Known' = Known \cup {e} /\ e \notin Known /\ e \in DOMAIN Accounted
      BY <1>1, <1>4, <2>1 DEF Known, Accounted
    <2>3. Remembered' = Promised!Extended(Remembered, [x \in {e} |-> Accounted[e]])
      BY <1>1, <1>4, <2>1 DEF Remembered, Restrict, With, Promised!Extended, Accounted
    <2>4. Promised!Become(e)
      BY <1>2, <2>2, <2>3
      DEF Promised!Become, Promised!Extended, Accounted, Remembered, Known, Settled, Final
    <2> QED
      BY <1>4, <2>4 DEF Promised!PromiseNext
  <1> QED
    BY <1>3, <1>4

LEMMA DeletionPromised ==
    ASSUME IngestInv, DeleteRecord, UNCHANGED ingestVars
    PROVE  [Promised!PromiseNext]_<<Accounted, Remembered, Known, Settled>>
  <1> DEFINE e == call.subject
  <1>1. /\ e \in DOMAIN memories
        /\ memories' = Without(memories, e)
        /\ UNCHANGED <<ledger, entries>>
    BY DEF DeleteRecord, At, IngestInv, StoreInv, CallIsSound, ingestVars
  <1>2. UNCHANGED <<Accounted, Known, Settled>>
    BY <1>1 DEF Accounted, Known, Settled, Final
  <1>3. CASE e \notin Events
    <2>1. Remembered' = Remembered
      BY <1>1, <1>3 DEF Remembered, Restrict, Without
    <2> QED
      BY <1>2, <2>1
  <1>4. CASE e \in Events
    <2>1. e \in DOMAIN Remembered
      BY <1>1, <1>4 DEF Remembered, Restrict
    <2>2. Remembered' = Promised!Restrict(Remembered, DOMAIN Remembered \ {e})
      BY <1>1, <1>4 DEF Remembered, Restrict, Promised!Restrict, Without
    <2>3. Promised!Forget(e)
      BY <1>2, <2>1, <2>2
      DEF Promised!Forget, Accounted, Remembered, Known, Settled, Final
    <2> QED
      BY <1>4, <2>3 DEF Promised!PromiseNext
  <1> QED
    BY <1>3, <1>4

\* Entries that are new, and nothing else, account for events.
LEMMA EntriesPromised ==
    ASSUME IngestInv, EntriesTypeOK', UNCHANGED <<memories, ledger>>,
           DOMAIN entries \subseteq DOMAIN entries',
           \A e \in DOMAIN entries : entries'[e] = entries[e],
           \A e \in DOMAIN entries' \ DOMAIN entries : entries'[e].status \notin Terminal
    PROVE  Promised!Account
  <1> DEFINE new == DOMAIN entries' \ DOMAIN entries
             content == [e \in new |-> entries'[e].content]
  <1>1. new \in SUBSET Events /\ content \in [new -> Contents]
    BY DEF EntriesTypeOK
  <1>2. Accounted' = Promised!Extended(Accounted, content)
    BY DEF Accounted, Promised!Extended
  <1>3. Final' = Final
    BY DEF Final
  <1>4. Settled' = Settled
    BY <1>3 DEF Settled, Final
  <1>5. UNCHANGED <<Remembered, Known>>
    BY DEF Remembered, Known
  <1> HIDE DEF new, content
  <1> QED
    BY <1>1, <1>2, <1>4, <1>5
    DEF Promised!Account, Accounted, Remembered, Known, Settled, Final

LEMMA RawBatchPromised ==
    ASSUME IngestInv, NEW b \in Batches, NEW requests \in Submissions,
           IngestRawBatch(b, requests)
    PROVE  Promised!Account
  <1>1. \A e \in DOMAIN entries : entries'[e] = entries[e]
    BY RawBatchFacts
  <1>2. \A e \in DOMAIN entries' \ DOMAIN entries : entries'[e].status \notin Terminal
    BY RawBatchFacts DEF Terminal
  <1>3. UNCHANGED <<memories, ledger>>
    BY DEF IngestRawBatch, callVars, storeVars, documents
  <1> QED
    BY <1>1, <1>2, <1>3, RawBatchFacts, EntriesPromised DEF EntriesMoveOn

LEMMA PreparePromised ==
    ASSUME IngestInv, PrepareEntry
    PROVE  Promised!Account
  <1>1. \A e \in DOMAIN entries' \ DOMAIN entries : entries'[e].status \notin Terminal
    BY PrepareFacts DEF Entry, Terminal
  <1>2. UNCHANGED <<memories, ledger>>
    BY PrepareFacts DEF storeVars, documents
  <1> QED
    BY <1>1, <1>2, PrepareFacts, EntriesPromised

LEMMA SettlePromised ==
    ASSUME IngestInv, SettleEntry
    PROVE  [Promised!PromiseNext]_<<Accounted, Remembered, Known, Settled>>
  <1> DEFINE e == Current.event
             status == SettledAs(call.outcome)
  <1>1. /\ job.kind # "none" /\ At("returned")
        /\ entries' = [entries EXCEPT ![e].status = status]
        /\ UNCHANGED <<memories, ledger>>
    BY DEF SettleEntry, storeVars, documents
  <1>2. /\ e \in DOMAIN entries
        /\ entries[e].status \notin Terminal
        /\ call.outcome = "stored" => e \in DOMAIN ledger
        /\ call.outcome = "blocked" => e \notin DOMAIN ledger
    BY <1>1, SettleFacts
  <1>3. /\ DOMAIN entries' = DOMAIN entries
        /\ \A x \in DOMAIN entries :
               /\ entries'[x].content = entries[x].content
               /\ entries'[x].status = IF x = e THEN status ELSE entries[x].status
    BY <1>1, <1>2 DEF IngestInv, IngestTypeOK, EntriesTypeOK
  <1>4. e \in Events
    BY <1>2 DEF IngestInv, IngestTypeOK, EntriesTypeOK
  <1>5. UNCHANGED <<Accounted, Remembered, Known>>
    BY <1>1, <1>3 DEF Accounted, Remembered, Known
  <1>6. status \in {"materialized", "rejected", "failed"}
    BY DEF SettledAs
  <1>7. status = "materialized" => e \in Known
    BY <1>2, <1>4 DEF SettledAs, Known
  <1>8. status = "rejected" => e \notin Known
    BY <1>2 DEF SettledAs, Known
  <1> HIDE DEF e, status
  <1>9. CASE status = "failed"
    <2>1. Final' = Final
      BY <1>2, <1>3, <1>9 DEF Final, Terminal
    <2>2. Settled' = Settled
      BY <1>2, <1>3, <2>1 DEF Settled, Final
    <2> QED
      BY <1>5, <2>2
  <1>10. CASE status \in {"materialized", "rejected"}
    <2>1. Final' = Final \cup {e} /\ e \notin Final
      BY <1>2, <1>3, <1>10 DEF Final, Terminal
    <2>2. Settled' = Promised!Extended(Settled, [x \in {e} |-> status])
      BY <1>2, <1>3, <2>1 DEF Settled, Promised!Extended, Final
    <2>3. e \in DOMAIN Accounted \ DOMAIN Settled
      BY <1>2, <2>1 DEF Accounted, Settled
    <2>4. (status = "materialized") <=> (e \in Known)
      BY <1>7, <1>8, <1>10
    <2>5. PICK x \in Events : x = e
      BY <1>4
    <2>6. Promised!Settle(x)
      BY <1>5, <1>10, <2>2, <2>3, <2>4, <2>5
      DEF Promised!Settle, Accounted, Remembered, Known, Settled, Final
    <2> QED
      BY <2>6 DEF Promised!PromiseNext
  <1> QED
    BY <1>6, <1>9, <1>10

\* Whoever leaves documents, ledger and entries alone breaks no promise.
LEMMA NothingPromised ==
    ASSUME UNCHANGED <<memories, ledger, entries>>
    PROVE  UNCHANGED <<Accounted, Remembered, Known, Settled>>
  BY DEF Accounted, Remembered, Known, Settled, Final

LEMMA EnrichmentFailurePromised ==
    ASSUME IngestInv, NEW e \in Events, RecordEnrichmentFailure(e)
    PROVE  UNCHANGED <<Accounted, Remembered, Known, Settled>>
  <1>1. /\ DOMAIN entries' = DOMAIN entries
        /\ \A x \in DOMAIN entries :
               /\ entries'[x].content = entries[x].content
               /\ entries'[x].status = IF x = e THEN "failed" ELSE entries[x].status
        /\ e \in DOMAIN entries
        /\ entries[e].status \notin Terminal
        /\ UNCHANGED <<memories, ledger>>
    BY DEF RecordEnrichmentFailure, IngestInv, IngestTypeOK, EntriesTypeOK, callVars,
           storeVars, documents
  <1>2. Final' = Final
    BY <1>1 DEF Final, Terminal
  <1>3. Settled' = Settled
    BY <1>1, <1>2 DEF Settled, Final
  <1> QED
    BY <1>1, <1>3 DEF Accounted, Remembered, Known

LEMMA StoreStepPromised ==
    ASSUME IngestInv, StoreStep, UNCHANGED ingestVars
    PROVE  [Promised!PromiseNext]_<<Accounted, Remembered, Known, Settled>>
  <1>1. CASE CommitDocuments
    BY <1>1, DocumentsPromised
  <1>2. CASE DeleteRecord
    BY <1>2, DeletionPromised
  <1>3. CASE UNCHANGED <<memories, ledger>>
    BY <1>3, NothingPromised DEF ingestVars
  <1> QED
    BY <1>1, <1>2, <1>3
    DEF StoreStep, Refuse, RememberAgain, CommitVector, BindEntities, AppendAudit,
        UpdateAffect, UnbindEntities, DeleteVector, storeVars, documents

LEMMA NextPromised ==
    ASSUME IngestInv, [Next]_vars
    PROVE  [Promised!PromiseNext]_<<Accounted, Remembered, Known, Settled>>
  <1> USE DEF callVars, storeVars, documents, ingestVars
  <1>1. CASE StoreStep /\ UNCHANGED ingestVars
    BY <1>1, StoreStepPromised
  <1>2. CASE PrepareEntry
    BY <1>2, PreparePromised DEF Promised!PromiseNext
  <1>3. CASE SettleEntry
    BY <1>3, SettlePromised
  <1>4. CASE \E e \in Events : RecordEnrichmentFailure(e)
    BY <1>4, EnrichmentFailurePromised
  <1>5. CASE \E b \in Batches, requests \in Submissions : IngestRawBatch(b, requests)
    BY <1>5, RawBatchPromised DEF Promised!PromiseNext
  <1>6. CASE UNCHANGED <<memories, ledger, entries>>
    BY <1>6, NothingPromised
  <1>7. \/ StoreStep /\ UNCHANGED ingestVars
        \/ PrepareEntry
        \/ SettleEntry
        \/ \E e \in Events : RecordEnrichmentFailure(e)
        \/ \E b \in Batches, requests \in Submissions : IngestRawBatch(b, requests)
        \/ UNCHANGED <<memories, ledger, entries>>
    BY DEF Next, Step, vars, Direct, DeleteMemory, IngestEvent, IngestBatch, EnrichEvent,
           FinishBatch, RefuseCommit, RefusePrepare, RefuseSettle, RefuseFinish, Crash
  <1> QED
    BY <1>1, <1>2, <1>3, <1>4, <1>5, <1>6, <1>7

LEMMA NothingIsPromised == Init => Promised!PromiseInit
  BY DEF Init, StoreInit, Promised!PromiseInit, Restrict

\* Through retries, conflicts, batches, enrichment, deletions and interruptions an
\* event keeps its content, becomes a memory at most once, does not come back once
\* deleted, and is settled once and truly (ingest_event(): "Identical retries reuse
\* the same event and memory IDs").
THEOREM IngestionKeepsPromise == Spec => KeepsPromise
  <1>1. IngestInv /\ [Next]_vars => [Promised!PromiseNext]_Promised!promiseVars
    BY NextPromised
    DEF Promised!promiseVars, Accounted, Remembered, Known, Settled, Final
  <1> QED
    BY <1>1, NothingIsPromised, IngestionInvariant, PTL DEF Spec, KeepsPromise, Promised!Promise
=============================================================================
