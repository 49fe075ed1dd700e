--------------------------- MODULE CheckpointStore ---------------------------
(***************************************************************************)
(* The retained checkpoint artifacts of one tenant                         *)
(* (apps/cloudflare-worker/src/checkpoint.ts): objects in R2, and in the   *)
(* Durable Object's storage the active pointer and the history of          *)
(* pointers.  persistCheckpoint() writes the three one after the other     *)
(* from inside fetch(), whose gate keeps two of them apart; a crash may    *)
(* come between any two writes, and the export then stays pending in the   *)
(* journal until its client asks again.                                    *)
(*                                                                         *)
(* Checkpoints are named by their checkpointSequence: the order in which   *)
(* the Container first exported them.  An export repeated under the same   *)
(* operation id returns the artifact it made the first time.               *)
(***************************************************************************)
EXTENDS Naturals, Sequences, SequencesExt

CONSTANTS
    MaxExports,   \* bound on the exports begun
    Retention,    \* CHECKPOINT_RETENTION
    LateRetries   \* may a client retry an export after a later one was begun?

\* A repeated export must not be the only one that is kept.
CheckpointAssumption ==
    /\ MaxExports \in Nat
    /\ Retention \in Nat /\ Retention >= 2
    /\ LateRetries \in BOOLEAN

None == 0
Checkpoints == 1..MaxExports

VARIABLES
    begun,     \* exports the Container has been asked for: 1..begun
    settled,   \* exports with a terminal receipt in the journal
    bucket,    \* artifacts in R2
    active,    \* checkpoint:active
    history,   \* checkpoint:history, newest first
    writer     \* where persistCheckpoint() is, for which checkpoint, and the
               \* objects it will delete

checkpointVars == <<begun, settled, bucket, active, history, writer>>

Writing(phase, id, expired) == [phase |-> phase, id |-> id, expired |-> expired]
NoExport == Writing("idle", None, {})

CheckpointsTypeOK ==
    /\ begun \in 0..MaxExports
    /\ settled \subseteq Checkpoints
    /\ bucket \subseteq Checkpoints
    /\ active \in Checkpoints \cup {None}
    /\ history \in Seq(Checkpoints)
    /\ Len(history) <= Retention
    /\ writer \in [phase   : {"idle", "put", "point", "record", "expire"},
                   id      : Checkpoints \cup {None},
                   expired : SUBSET Checkpoints]

CheckpointsInit ==
    /\ begun = 0
    /\ settled = {}
    /\ bucket = {}
    /\ active = None
    /\ history = <<>>
    /\ writer = NoExport

\* A client asks for a new export and the Container has made its artifact.
BeginNew ==
    /\ writer.phase = "idle"
    /\ begun < MaxExports
    /\ begun' = begun + 1
    /\ writer' = Writing("put", begun + 1, {})
    /\ UNCHANGED <<settled, bucket, active, history>>

\* A client asks again for an export the journal still has as pending.
BeginAgain(id) ==
    /\ writer.phase = "idle"
    /\ id \in 1..begun
    /\ id \notin settled
    /\ LateRetries \/ id = begun
    /\ writer' = Writing("put", id, {})
    /\ UNCHANGED <<begun, settled, bucket, active, history>>

\* Mutant: the pointer moves before the artifact is in the bucket.
PutArtifactLate ==
    /\ writer.phase = "put"
    /\ active' = writer.id
    /\ bucket' = bucket
    /\ writer' = [writer EXCEPT !.phase = "point"]
    /\ UNCHANGED <<begun, settled, history>>

\* bucket.put of the artifact.
PutArtifact ==
    /\ writer.phase = "put"
    /\ bucket' = bucket \cup {writer.id}
    /\ writer' = [writer EXCEPT !.phase = "point"]
    /\ UNCHANGED <<begun, settled, active, history>>

\* The pointer moves to the artifact.
PutPointer ==
    /\ writer.phase = "point"
    /\ active' = writer.id
    /\ writer' = [writer EXCEPT !.phase = "record"]
    /\ UNCHANGED <<begun, settled, bucket, history>>

\* history.filter(): the entries other than the checkpoint.
Without(entries, id) ==
    LET Filtered[n \in 0..Len(entries)] ==
            IF n = 0 THEN <<>>
            ELSE IF entries[n] # id THEN Append(Filtered[n - 1], entries[n])
            ELSE Filtered[n - 1] IN
    Filtered[Len(entries)]

\* The new history: the checkpoint first, the others behind it, cut to size.
Retained(id) ==
    LET newest == <<id>> \o Without(history, id) IN
    SubSeq(newest, 1, IF Len(newest) < Retention THEN Len(newest) ELSE Retention)

\* Mutant: the slice starts one entry early.
ExpiredTooEarly(id) ==
    Range(SubSeq(history, IF Retention > 1 THEN Retention - 1 ELSE 1, Len(history)))

\* What is deleted afterwards: the old history from where a new entry pushes it
\* out, whether or not the checkpoint was in it already.
Expired(id) == Range(SubSeq(history, Retention, Len(history)))

PutHistory ==
    /\ writer.phase = "record"
    /\ history' = Retained(writer.id)
    /\ writer' = Writing("expire", writer.id, Expired(writer.id))
    /\ UNCHANGED <<begun, settled, bucket, active>>

\* One expired object is deleted.
DeleteExpired ==
    /\ writer.phase = "expire"
    /\ \E id \in writer.expired :
           /\ bucket' = bucket \ {id}
           /\ writer' = [writer EXCEPT !.expired = @ \ {id}]
    /\ UNCHANGED <<begun, settled, active, history>>

\* persistCheckpoint() returns and the journal takes the receipt.
Finish ==
    /\ writer.phase = "expire"
    /\ writer.expired = {}
    /\ settled' = settled \cup {writer.id}
    /\ writer' = NoExport
    /\ UNCHANGED <<begun, bucket, active, history>>

\* The object is reset between two writes, or one of them throws.
CrashExport ==
    /\ writer.phase # "idle"
    /\ writer' = NoExport
    /\ UNCHANGED <<begun, settled, bucket, active, history>>

CheckpointsNext ==
    \/ BeginNew
    \/ \E id \in Checkpoints : BeginAgain(id)
    \/ PutArtifact
    \/ PutPointer
    \/ PutHistory
    \/ DeleteExpired
    \/ Finish
    \/ CrashExport

CheckpointsSpec == CheckpointsInit /\ [][CheckpointsNext]_checkpointVars

\* checkpointArtifact(): what GET /v1/checkpoints/export/<id> answers.
Served(id) ==
    IF active = None \/ id # active THEN "checkpoint_not_found"
    ELSE IF active \in bucket THEN "artifact" ELSE "checkpoint_missing"

-----------------------------------------------------------------------------
\* The checkpoint the pointer names can be downloaded: its GET never answers
\* checkpoint_missing (checkpoint.ts checkpointArtifact).
ActiveIsServed == active # None => Served(active) = "artifact"

\* The generations before the last retained one have their objects and are
\* retained once, however often an export is repeated after a crash.
NewestAreKept ==
    /\ \A i \in 1..Len(history) : i < Retention => history[i] \in bucket
    /\ IsInjective(history)

\* What the pointer and the history lead to is there.
ReferencedAreKept == ActiveIsServed /\ NewestAreKept

\* An object is deleted only while Retention - 1 newer checkpoints are retained.
OutlivedBeforeDeleted ==
    [][\A id \in bucket \ bucket' :
          Cardinality({kept \in Range(history) : kept > id}) >= Retention - 1]_checkpointVars

\* Every retained generation still has its object (README: "referenced by a
\* durable DO pointer, retained as recent generations").
RetainedAreKept == Range(history) \subseteq bucket

\* The active checkpoint is never replaced by an older one (ADR-025: "restores
\* the latest verified checkpoint").
ActiveNeverRegresses == [][active' >= active]_checkpointVars
=============================================================================
