--------------------------- MODULE EventIngestion ---------------------------
(***************************************************************************)
(* The ingestion of source events into one tenant's engine                 *)
(* (rust/crates/celiums-memory-engine/src/engine.rs: ingest_event(),       *)
(* ingest_batch(), enrich_event(), record_enrichment_failure();            *)
(* ingestion.rs): a durable entry per event, which remember() turns into a *)
(* memory under a key derived from the event, and a durable record per     *)
(* batch.  Ingesting an event is ingesting a batch of one without record.  *)
(*                                                                         *)
(* An event is one source event of one user; the entry that an earlier     *)
(* release may have made for it under another id is not told apart.        *)
(* Attempt and conflict counts are left out.                               *)
(***************************************************************************)
EXTENDS MemoryStore, SequencesExt

CONSTANTS
    Events,
    Own,           \* the embedding that who sends an event has for it
    Batches,       \* batch ids
    Submissions    \* the sequences of requests clients send

Requests == [event : Events, content : Contents, vector : Vectors \cup {None}]

ASSUME IngestionAssumption ==
    /\ Events \subseteq Subjects
    /\ None \notin Batches
    /\ Submissions \subseteq Seq(Requests) \ {<<>>}

ASSUME OwnAssumption == Own \in Vectors \ Unfit

VARIABLES
    entries,   \* the ingestion ledger: content and status of each event
    batches,   \* per batch, its membership and the last outcome of each item
    job        \* the ingestion the engine is in

ingestVars == <<entries, batches, job>>
vars == <<callVars, ingestVars>>

Job(kind, batch, requests, items) ==
    [kind |-> kind, batch |-> batch, requests |-> requests, items |-> items]
NoJob == Job("none", None, <<>>, <<>>)

Terminal == {"materialized", "rejected"}
Statuses == Terminal \cup {"received", "failed"}

\* IngestionEntry and IngestionBatch, as they are stored and read again; a batch's
\* own status is what the statuses of its items say.
EntryRecords == [content : Contents, status : Statuses]
BatchRecords ==
    [members : Seq([event : Events, content : Contents]), items : Seq(Statuses)]

TypeOK ==
    /\ StoreTypeOK
    /\ DOMAIN entries \subseteq Events
    /\ \A e \in DOMAIN entries : entries[e] \in EntryRecords
    /\ DOMAIN batches \subseteq Batches
    /\ \A b \in DOMAIN batches :
           batches[b] \in BatchRecords /\ Len(batches[b].items) = Len(batches[b].members)
    /\ job.kind \in {"none", "ingest", "enrich"}
    /\ job.batch \in Batches \cup {None}
    /\ job.requests \in Seq(Requests)
    /\ job.items \in Seq(Statuses)
    /\ Len(job.items) <= Len(job.requests)

Init ==
    /\ StoreInit
    /\ entries = [e \in {} |-> None]
    /\ batches = [b \in {} |-> None]
    /\ job = NoJob

Free == At("idle") /\ job = NoJob

\* canonical_ingest_event_hash() and canonical_batch_hash(): all but the embeddings.
Member(request) == [event |-> request.event, content |-> request.content]
Members(requests) == [i \in DOMAIN requests |-> Member(requests[i])]

Conflicts(request) ==
    request.event \in DOMAIN entries /\ entries[request.event].content # request.content
Entry(request) ==
    IF request.event \in DOMAIN entries THEN entries[request.event]
    ELSE [content |-> request.content, status |-> "received"]

Current == job.requests[Len(job.items) + 1]

\* The current item's outcome is known; for a single event the job is done.
ItemDone(status) ==
    job' = IF job.batch = None THEN NoJob ELSE [job EXCEPT !.items = Append(@, status)]

-----------------------------------------------------------------------------
\* Calls.

IngestEvent(request) ==
    /\ Free
    /\ job' = Job("ingest", None, <<request>>, <<>>)
    /\ UNCHANGED <<callVars, entries, batches>>

\* What ingest_batch() requires before it writes: the membership the batch was
\* first sent with, and no event known with another content.  Nothing asks whether
\* the batch itself has an event twice.
BatchAccepted(batch, requests) ==
    /\ batch \in DOMAIN batches => batches[batch].members = Members(requests)
    /\ \A i \in DOMAIN requests : ~Conflicts(requests[i])

Raw(batch, requests) ==
    /\ batch \notin DOMAIN batches
    /\ \A i \in DOMAIN requests : requests[i].vector = None

IngestBatch(batch, requests) ==
    /\ Free
    /\ BatchAccepted(batch, requests)
    /\ ~Raw(batch, requests)
    /\ job' = Job("ingest", batch, requests, <<>>)
    /\ UNCHANGED <<callVars, entries, batches>>

Named(requests) == {requests[i].event : i \in DOMAIN requests}

\* Of several new entries for one event, the request whose entry the store keeps.
Kept(requests) ==
    {kept \in [Named(requests) -> DOMAIN requests] :
        \A e \in Named(requests) : requests[kept[e]].event = e}

\* The entries that a raw batch leaves: known ones as they are.
EntriesWith(requests, kept) ==
    [e \in DOMAIN entries \cup Named(requests) |->
        IF e \in DOMAIN entries THEN entries[e] ELSE Entry(requests[kept[e]])]

\* ingest_raw_batch(): a new batch without embeddings is one transaction.
IngestRawBatch(batch, requests) ==
    /\ Free
    /\ BatchAccepted(batch, requests)
    /\ Raw(batch, requests)
    /\ \E kept \in Kept(requests) : entries' = EntriesWith(requests, kept)
    /\ batches' = With(batches, batch,
           [members |-> Members(requests),
            items |-> [i \in DOMAIN requests |-> Entry(requests[i]).status]])
    /\ UNCHANGED <<callVars, job>>

\* enrich_event(): a provider's embedding for an event that is not settled.
EnrichEvent(event, vector) ==
    /\ Free
    /\ event \in DOMAIN entries
    /\ entries[event].status \notin Terminal
    /\ job' = Job("enrich", None,
           <<[event |-> event, content |-> entries[event].content, vector |-> vector]>>, <<>>)
    /\ Remember(event, entries[event].content, vector)
    /\ UNCHANGED <<storeVars, history, faults, entries, batches>>

\* Mutant: an event that is settled fails as well.
FailAnyEvent(event) ==
    /\ Free
    /\ event \in DOMAIN entries
    /\ entries' = [entries EXCEPT ![event].status = "failed"]
    /\ UNCHANGED <<callVars, batches, job>>

\* record_enrichment_failure()
RecordEnrichmentFailure(event) ==
    /\ Free
    /\ event \in DOMAIN entries
    /\ entries[event].status \notin Terminal
    /\ entries' = [entries EXCEPT ![event].status = "failed"]
    /\ UNCHANGED <<callVars, batches, job>>

-----------------------------------------------------------------------------
\* The steps of an ingestion.

Preparing == job.kind = "ingest" /\ At("idle") /\ Len(job.items) < Len(job.requests)

\* Mutant: an event that failed is not taken up again.
RemembersReceived(request) ==
    ~Conflicts(request) /\ request.vector # None /\ Entry(request).status = "received"

\* Does ingest_event() go on to remember()?
Remembers(request) ==
    /\ ~Conflicts(request)
    /\ request.vector # None
    /\ Entry(request).status \notin Terminal

\* prepare_ingestion_entry(), and what ingest_event() does with the entry.
PrepareEntry ==
    /\ Preparing
    /\ entries' = With(entries, Current.event, Entry(Current))
    /\ IF Remembers(Current)
         THEN Remember(Current.event, Current.content, Current.vector) /\ UNCHANGED job
         ELSE ItemDone(Entry(Current).status) /\ UNCHANGED call
    /\ UNCHANGED <<storeVars, history, faults, batches>>

\* enrich_event() takes a policy rejection for a failure.
SettledAs(outcome) ==
    CASE outcome = "stored" -> "materialized"
      [] outcome = "blocked" /\ job.kind = "ingest" -> "rejected"
      [] OTHER -> "failed"

\* remember() has returned: the entry is persisted with its outcome.
SettleEntry ==
    /\ job.kind # "none"
    /\ At("returned")
    /\ LET status == SettledAs(call.outcome) IN
       /\ entries' = [entries EXCEPT ![Current.event].status = status]
       /\ ItemDone(status)
    /\ Leave
    /\ UNCHANGED <<storeVars, history, faults, batches>>

\* The items the batch record takes, new or resumed.
Items == job.items

\* persist_ingestion_batch()
FinishBatch ==
    /\ job.batch # None
    /\ At("idle")
    /\ Len(job.items) = Len(job.requests)
    /\ batches' = With(batches, job.batch, [members |-> Members(job.requests), items |-> Items])
    /\ job' = NoJob
    /\ UNCHANGED <<callVars, entries>>

-----------------------------------------------------------------------------
\* Refused commits of the ingestion's own, and crashes.

Fault == faults < MaxFaults /\ faults' = faults + 1

\* The outcome is then the one the entry has in the store; without an entry the
\* whole call fails.
RefusePrepare ==
    /\ Preparing
    /\ Fault
    /\ IF Current.event \in DOMAIN entries THEN ItemDone(entries[Current.event].status)
       ELSE job' = NoJob
    /\ UNCHANGED <<storeVars, history, call, entries, batches>>

RefuseSettle ==
    /\ job.kind # "none"
    /\ At("returned")
    /\ Fault
    /\ ItemDone(entries[Current.event].status)
    /\ Leave
    /\ UNCHANGED <<storeVars, history, entries, batches>>

RefuseFinish ==
    /\ job.batch # None
    /\ At("idle")
    /\ Len(job.items) = Len(job.requests)
    /\ Fault
    /\ job' = NoJob
    /\ UNCHANGED <<storeVars, history, call, entries, batches>>

Crash ==
    /\ ~Free
    /\ Fault
    /\ call' = Idle
    /\ job' = NoJob
    /\ UNCHANGED <<storeVars, history, entries, batches>>

-----------------------------------------------------------------------------
Direct == job = NoJob /\ UNCHANGED ingestVars

\* The steps the engine takes by itself.
Step ==
    \/ StoreStep /\ UNCHANGED ingestVars
    \/ PrepareEntry
    \/ SettleEntry
    \/ FinishBatch
    \/ Leave /\ Direct /\ UNCHANGED <<storeVars, history, faults>>

Next ==
    \/ \E s \in Subjects \ Events, c \in Contents, v \in Vectors :
           Remember(s, c, v) /\ Direct /\ UNCHANGED <<storeVars, history, faults>>
    \/ \E s \in Subjects : DeleteMemory(s) /\ Direct
    \/ \E request \in Requests : IngestEvent(request)
    \/ \E b \in Batches, requests \in Submissions :
           IngestBatch(b, requests) \/ IngestRawBatch(b, requests)
    \/ \E e \in Events, v \in Vectors : EnrichEvent(e, v)
    \/ \E e \in Events : RecordEnrichmentFailure(e)
    \/ Step
    \/ RefuseCommit /\ UNCHANGED ingestVars
    \/ RefusePrepare
    \/ RefuseSettle
    \/ RefuseFinish
    \/ Crash

Spec == Init /\ [][Next]_vars

\* Who sent an event sends it again, with the embedding it has for it.
Resend(e) == IngestEvent([event |-> e, content |-> entries[e].content, vector |-> Own])

Fairness ==
    /\ WF_vars(Step)
    /\ \A e \in Events : SF_vars(e \in DOMAIN entries /\ Resend(e))

FairSpec == Spec /\ Fairness

-----------------------------------------------------------------------------
Promised == INSTANCE EventPromise WITH
    accounted <- [e \in DOMAIN entries |-> entries[e].content],
    remembered <- Restrict(memories, DOMAIN memories \cap Events),
    known <- DOMAIN ledger \cap Events,
    settled <- [e \in {e \in DOMAIN entries : entries[e].status \in Terminal} |->
                   entries[e].status]

\* Through retries, conflicting contents, enrichment, batches, deletions and
\* interruptions an event keeps its content, becomes a memory at most once and is
\* settled at most once (ingest_event(): "Identical retries reuse the same event
\* and memory IDs; conflicting retries are recorded and rejected").
KeepsPromise == Promised!Promise

\* The contents that a batch was sent with for an event: one, unless the batch has
\* the event more than once.
ContentsFor(members, event) ==
    {members[i].content : i \in {j \in DOMAIN members : members[j].event = event}}

\* A batch record accounts for every event it was sent with, under a content it was
\* sent with for that event, and what it calls settled is so (ingest_batch,
\* ingest_raw_batch).
BatchesAreTrue ==
    \A b \in DOMAIN batches : \A i \in DOMAIN batches[b].members :
        LET event == batches[b].members[i].event
            item == batches[b].items[i] IN
        /\ event \in DOMAIN entries
        /\ entries[event].content \in ContentsFor(batches[b].members, event)
        /\ item \in Terminal => entries[event].status = item

\* No item of a batch passes another content off as its own: "changed immutable
\* payloads fail as durable conflicts" (rust/README.md:232-233).
PayloadsAreOwn ==
    \A b \in DOMAIN batches : \A i \in DOMAIN batches[b].members :
        LET member == batches[b].members[i] IN
        \/ entries[member.event].content = member.content
        \/ batches[b].items[i] = "failed"

IsSettled(e) == e \in DOMAIN entries /\ entries[e].status \in Terminal
IsDeleted(e) == e \in DOMAIN ledger \ DOMAIN memories

\* The memory of the event was stored with another embedding than its sender's.
TakenByAnother(e) == e \in DOMAIN ledger /\ ledger[e].vector # Own

\* An event that is sent again with its embedding is settled in the end, unless its
\* memory has been deleted meanwhile, or an enrichment or request with another
\* embedding that fits was cut short after it had stored the memory (ingest_event).
EventsSettle ==
    \A e \in Events :
        e \in DOMAIN entries ~> IsSettled(e) \/ IsDeleted(e) \/ TakenByAnother(e)

\* The same without the second exception: "A received or failed event can resume
\* when an embedding becomes available" (rust/README.md:231-232).
EventsResume ==
    \A e \in Events : e \in DOMAIN entries ~> IsSettled(e) \/ IsDeleted(e)
=============================================================================
