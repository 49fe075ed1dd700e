# A TLA+ model of celiums-memory

This directory models the parts of celiums-memory in which several actors, several
durable stores or a crash decide whether the program is correct. TLC checks the
models on small instances and TLAPS proves the most important results for every
value of the constants. `PROJECT.json` is the index: which definition stands for
which lines, which run checks which property, which mutant breaks it, what is
proved, and which hazards of the code each property is there for.

Paths below are relative to the repository. `server.rs` is
`rust/crates/celiums-memory-cli/src/server.rs`, `engine.rs` is
`rust/crates/celiums-memory-engine/src/engine.rs`.

## 1. The system and its parts

    client ── Worker ── Durable Object of the tenant ── Container: native server ── actor thread ── MemoryEngine ── Hyphae
              auth.ts   journal.ts runtime.ts index.ts   server.rs                  server.rs       engine.rs       (a crate)
                              │
                              └── R2: import bodies, checkpoint artifacts (checkpoint.ts)

| part | state | operations | what is hard |
|---|---|---|---|
| tenant journal (`journal.ts`) | a record per operation id, an index by sequence, the last sequence, the high-water mark | `prepare`, `finalize`, `pending` | commands settle out of order, twice, or with competing outcomes |
| tenant runtime (`index.ts`, `runtime.ts`) | what each handler is in the middle of; bodies in R2 | `fetch`, `replayPending` from `queue`, `alarm` or `fetch` | `fetch` holds the object's gate, replays do not; every `await` is a place to crash |
| checkpoint store (`checkpoint.ts`) | artifacts in R2, active pointer, history | `persistCheckpoint`, `checkpointArtifact` | three stores written one after the other, retries of old exports |
| tenant actors (`server.rs`) | registry, opening lock, actor threads and their channels, directories on disk | requests, `tenant_engine`, `engine_actor`, `import_checkpoint` | races to open, panics, clients that hang up, an import that takes no lock |
| admission (`server.rs`) | windows and quotas per account, pending confirmation tokens | `consume_limit`, `consume_write_quota`, `issue_confirmation`, `consume_confirmation` | checked in several steps around awaits, expiry |
| MCP sessions over HTTP (`server.rs`) | sessions, subscriptions, a bounded channel, a flag and a stream per session | initialize … delete, publish, `poll_next`, `drop` | publisher and stream meet only in a channel and an atomic flag |
| MCP session over stdio (`mcp.rs`) | handshake, subscriptions, pending confirmations; owns its engine | the tools, `resources/list`, `subscribe` | what a tool changed is worked out after the call; one-use confirmations; cursors over a list that changes |
| engine: writes and ingestion (`engine.rs`, `ingestion.rs`, `idempotency.rs`) | documents, vectors, an entity index, an idempotency ledger, an ingestion ledger, batch records, an audit chain | `remember`, `delete_memory`, `ingest_event`, `ingest_batch`, `enrich_event`, `record_enrichment_failure` | one call is several commits; retries, conflicts and partly done batches |
| engine: memories after they are stored | state, revision, importance and last use of a memory; index of names; bindings | `update_memory`, `delete_memory`, `consolidate`, `run_lifecycle`, `record_recall_feedback`, `bind_memory_entity` | many scopes see and bind one memory; deletions cut short |
| engine: claims (`claim.rs`) | claims, evidence links, supersession links | `create_claim`, `supersede_claim`, queries by valid and known time | a chain of retirements made in any order and of any times |
| engine: derived memories (`derived.rs`) | episodes, summaries, aggregates, runs, forget markers | consolidate, apply, `rollback_consolidation`, `forget_derived_source` | rollback and forgetting walk a hierarchy commit by commit |
| engine: entity graph (`graph.rs`) | ontology, entities, aliases, relations, lineages | define, create, alias, relate, merge and split; `traverse_graph`, `resolve_entity_id` | walks under budgets over a graph that changes over time |
| engine: recall (`recall_pipeline.rs`, `filter.rs`) | none | `recall`, `compose_context`, filters | four branches with authorizations of their own, joined under budgets |
| engine: journals and audit (`journal.rs`, `governance_audit.rs`) | hash chains per agent and per tenant, supersessions, feedback | `journal_write`, `journal_supersede`, `append_audit`, verification | the order of a chain is that of its keys; processes end |
| cognition (`celiums-cognition`) | none | scoring, affect, ethics | numeric, no interleaving |
| federation, atlas server, bench, harvester, plugin, scripts | caches and counters | HTTP fan-out | apart from the core |

They interact like this. The Worker authenticates a request and calls the
tenant's Durable Object. The object journals a mutating request, forwards it to
its Container, journals the answer and gives it to the client. In the Container
the native server authenticates again, applies limits and confirmations, finds
or opens the tenant's actor, and queues the operation. The actor executes it in
the `MemoryEngine` and tells the handler, which publishes the change to the MCP
sessions concerned. Checkpoints are exported by the engine, stored in R2 by the
object, and imported by a request like any other. A local client speaks to an
engine of its own through the stdio session instead.

Inside the engine, events are ingested and become memories; claims rest on
events, derived memories on events and claims, bindings tie memories to entities
of the graph; recall reads all of them, and a forgotten event leaves a marker
that all of them look at.

What makes each part correct is listed with the modules below; what can go wrong
is listed, line by line, under `hazards` in `PROJECT.json`.

## 2. The modules

| module | models | extends or uses |
|---|---|---|
| `TenantJournal` | `journal.ts` | |
| `TenantRuntime` | `index.ts`, `runtime.ts` and, as its environment, the Container and R2 | extends `TenantJournal`, refines `OperationOutcomes` |
| `OperationOutcomes` | the contract of the control plane with its clients (abstract) | |
| `CheckpointStore` | `checkpoint.ts` | |
| `TenantEngines` | `tenant_engine`, `engine_actor`, dispatch, `import_checkpoint` | |
| `RequestAdmission` | limits, quotas, confirmations | |
| `McpSessions` | MCP sessions, publishing, event streams | |
| `MemoryStore` | `remember`, `delete_memory`, commit by commit | |
| `EventIngestion` | ingestion of events and batches | extends `MemoryStore`, refines `EventPromise` |
| `EventPromise` | what ingestion promises of an event (abstract) | |
| `Claims` | claims, supersessions, queries of the past | |
| `DerivedMemories` | episodes, summaries, aggregates, runs, forgetting | extends `Claims` |
| `EntityGraph` | ontology, entities, relations, merges, traversal | extends `Claims` |
| `MemoryCorpus` | stored memories, names, bindings, lifecycle | extends `EntityGraph` |
| `Recall` | the recall pipeline | extends `MemoryCorpus` |
| `StdioSession` | the stdio MCP session | extends `Recall` |
| `RecallFilters` | validation and compilation of filters | |
| `AgentRecords` | journal and audit chains | |
| `KeyOrder` | the order of keys in a scan | extended by `StdioSession` and `AgentRecords` |
| `MC…` | instances for TLC: symmetry sets, the few constants that are functions, and what a behaviour is about | the module they name |
| `MCWorker` | `TenantRuntime` and `CheckpointStore`, the two halves of the Durable Object | |
| `MCKnowledge` | `DerivedMemories`, `EntityGraph` and `AgentRecords` | |
| `MCRecall` | `StdioSession`, `DerivedMemories` and `RecallFilters` | |
| `TenantRuntimeProofs`, `CheckpointStoreProofs`, `TenantEnginesProofs`, `RequestAdmissionProofs`, `McpSessionsProofs`, `EventIngestionProofs`, `DerivedMemoriesProofs` | theorems and proofs, also of the module that theirs extends | the module they name, `TLAPS` |
| `KnowledgeProofs` | theorems and proofs about `EntityGraph`, `MemoryCorpus`, `Recall`, `StdioSession` and `AgentRecords` | extends `StdioSession`, `AgentRecords`, `DerivedMemoriesProofs` |

An `MC` module that instantiates several components has a variable `about`, chosen
in the initial state: a behaviour is about one of them, or about one group of
operations, so that their state spaces add up instead of multiplying. Every
operation is in some group together with those it can interact with; the
comments and guards of `MCNext` say which.

Operators named in a comment as a *mutant* are plausible bugs. No specification
uses them; `PROJECT.json` says which definition each would replace and which
property then fails.

### TenantJournal

The variables are the four kinds of storage keys. A storage transaction is one
step, because Durable Object storage makes it atomic. *Content* stands for all
that `prepare` compares on a retry (method, path, body digest, tenant, body
reference, MCP session), *receipt* for a stored response. `AdvanceHighWaterMark`
is written as what the loop of `advanceHighWaterMark` computes — the largest mark
up to which everything is settled, read in the state the transaction has already
written — and not as a loop.

### TenantRuntime

`handler[h]` says between which two awaits a handler is: `fetch` for the client
request that is inside `blockConcurrencyWhile`, and one for each way into
`replayPending`. The gate is the guard `GateOpen`: it holds back the steps that
the object itself takes, not the Container's or R2's. An error that leaves the
callback of `blockConcurrencyWhile` resets the object, as the platform does:
`ResetObject` drops every handler, and what the Container already has may still be
applied there.

| action | code |
|---|---|
| `FetchNew`, `FetchRetry`, `FetchSettled`, `FetchConflict` | the outcomes of `prepare` in `forwardWithJournal` and `forwardBinaryWithJournal` |
| `FetchStore` | the import body put to R2 and read back (R2 is consistent, so the read finds it) |
| `FetchPersist` | `persistExport` as `beforeFinalize`; its writes are `CheckpointStore`'s |
| `FetchFinalize`, `FetchFinalizeFails` | `finalize`, and the 503 `receipt_persist_failed` |
| `FetchDelete`, `FetchRespond` | the rest of the handler |
| `ReplayStart`, `ReplayForward`, `ReplayEnd`, `ReplayFinalize`, `ReplayDelete` | `replayPending`, await by await |
| `ContainerReplies`, `ContainerFails`, `SessionEnds`, `ContainerLoss`, `Crash` | the environment |

### CheckpointStore

One action per write of `persistCheckpoint`, a crash between any two. Checkpoints
are numbered in the order in which the Container made them; an export repeated
under its operation id yields the checkpoint it made the first time
(`server.rs:343`). `LateRetries` says whether clients may repeat an export after
a later one was begun.

### TenantEngines

`phase` is the await a handler is at, `engine[r]` the life of the engine that
request `r` opened (opening, then an actor, dying after a panic until its channel
is closed). Unwinding a panicking actor drops the command's sender first, then the
engine, and the receiver last, which is why commands are still accepted while it
is `dying`. `Drop` is a handler dropped at an await: the lock is released, the
blocking task goes on (`orphan`). `origin` says who made a tenant's directory.

### RequestAdmission

Each mutex section is one step. A request passes `Arrive` (`consume_limit`), then,
once its body has been read, `Charge` (`consume_write_quota`, MCP only) and
`Confirm` (`consume_confirmation`). `counted`, `issued` and `spent` are history
variables: they record what the code lets through, unit by unit with its time, and
appear in no guard but that of the clients' choice of token.

### McpSessions

The publisher holds the lock on the sessions (`Unlocked`), while a stream touches
only its channel and the flag; `Enqueue` and `SetFlag` are two steps because
`try_send` and the store to the flag are. A stream that sleeps is woken by its
channel, by the removal of its session and by the keep-alive, not by the flag.
`owed` is a history variable: the changes a session has not been told of.

### MemoryStore

The engine of a tenant belongs to one actor, so calls do not overlap, but a call is
a series of Hyphae commits. `call` says which commit comes next; `StoreCrash` ends
the process between any two, `RefuseCommit` lets one fail, and the client may then
call again. A memory is named by its idempotency key, from which its id is derived;
a call without a key is one whose key is never used again. *Content* stands for
everything the request's hash covers except the vector. `bindings` are the memories
that at least one entity lists: of the commits of `index_entities` the first
matters, of `unindex_entities` the last. A vector that is written again under the
same transaction id is taken to be there afterwards, which holds whether Hyphae
repeats or skips it. `audited`, `answered` and `deleting` are history variables.

| action | code |
|---|---|
| `Remember`, `Refuse` | the request; policy gate, `quantize`, embedding space |
| `RememberAgain` | a known key: broken reference, conflict, or repair of the vector and the stored memory |
| `CommitDocuments`, `CommitVector`, `BindEntities`, `AppendAudit`, `UpdateAffect` | the commits of a new memory, in order |
| `DeleteMemory`, `UnbindEntities`, `DeleteVector`, `DeleteRecord` | `delete_memory`, in order |

### EventIngestion

Every event's memory has a key derived from the event, so an event is a key of the
store and `ingest_event` calls `Remember` of it. `job` is the ingestion under way:
the requests, the outcomes of the items so far, and the batch if there is one; a
single event is a batch of one without record. `PrepareEntry` commits the entry
before the memory, `SettleEntry` its outcome after it, `FinishBatch` the batch
record at the end; `IngestRawBatch` is one transaction. When a commit of the
ingestion's own fails, the item's outcome is read back from the store, as the code
does (`RefusePrepare`, `RefuseSettle`). A conflicting request only increments
counters in the code and changes nothing here.

A batch may have an event more than once, with different contents: nothing refuses it.
Taken one by one, the later item conflicts with the entry of the first and reports what
that entry says. A raw batch hands Hyphae several records of one key in one transaction;
which of them it keeps is not in this repository, so `Kept` is any choice. `Own` is the
embedding that the sender of an event has for it; the other vectors are those of
enrichment and of other requests, and fit or not.

### Claims

A claim's id is a hash of all it says and rests on, so a claim is its own id.
`claims` gives the time at which it was recorded, `links` the supersessions,
`forgotten` the markers that `forget_derived_source` leaves, `ingested` the events
that may serve as evidence. Of the evidence, `supports` is what supports the claim; the
rest refutes or qualifies it. `Reaches` is the walk by which `supersede_claim`
refuses a cycle. `LatestClaims` and what it is built from are the queries
by valid and known time, evaluated at any state.

### DerivedMemories

A derived memory's id is a hash of kind, scope, key, sources and period, and the
record of these stands for it; `derived` gives status, root events and transaction
time, `runs` what each consolidation created. One actor owns the engine, so calls
do not overlap, but a rollback and a forget are many commits:
`RollbackInterrupted` and `ForgetInterrupted` leave any part of what they had to
write, because records are written in the order of their hashes. `open` remembers
the calls that were cut short and not yet repeated, and `faults` bounds them.
`ReachedMemories` is `forgotten_source_reaches_derived` with the descendants,
`LineageIssues` is `verify_derived_lineage`.

| action | code |
|---|---|
| `ConsolidateTurn`, `ApplyConsolidation`, `RollbackConsolidation` | `consolidate_turn`, `apply_consolidation`, `rollback_consolidation` |
| `ConsolidateSummary`, `ConsolidateClaims` | `consolidate_summary` of a session, project or period; `consolidate_claims` |
| `ForgetDerivedSource` | marker, then memories, then aggregates |

### EntityGraph

Ids are hashes of what the records hold. `relations` are keyed by everything that
identifies a relation, with their validity. `Traverse(request, order)` is
`traverse_graph` over the order in which the store happens to scan the relations:
a round of its outer loop (`Advance`) takes one entity out of the queue, and in it
a round of the inner loop (`Inspect`) looks at one relation. `TraversalIsHonest`
asks for every order, since the order is that of hashes.
`Successions`, `EntityReaches` and `Resolve…` are the walks over merges and splits.

### MemoryCorpus

`MemoryStore` takes `remember` and `delete_memory` apart for one key; here an
operation is one action, and `RememberInterrupted`, `DeleteInterrupted` are the
parts of it that a crash can leave. What counts here is that several scopes see
one memory: it is deleted, updated and bound by requests of other scopes than its
own. Importance is counted in steps of the decay.

### Recall

The request carries what the two text branches score each memory: scoring is
numeric and external. The branches, the corpus a caller is authorized for, the
union with its limit, the merging of equal texts, the exclusion of what is
disclosed to nobody, and the composition of a context under a token budget are
operators over the state of `MemoryCorpus` and `Claims`; recall changes nothing. The
temporal branch takes the evidence that supports a current claim (`SupportOf`), while
retirement goes by all active evidence (`RetiredEvents`), as in the code.
Which diverse results the MMR selection picks is any choice. `Sections` sorts as
`sort_by_key` does, results of one rank as they were; `Add` is one round of the loop
of `compose_context`, with its `continue` and both of its ends.

### RecallFilters

`Valid` and `Compiled` are `MemoryFilter::validate` and `compile`, by cases on field
kind, operator and operand; `Selects` is what the store does with a compiled filter,
`Holds` what the expression says. A Rust `unreachable!` or `expect` that would be
met is the value `Panic`. The expressions are every operator on a field of each
kind with operands that fit and do not, and trees one level deeper and several
nodes larger than is allowed. `MAX_FILTER_NODES`, `MAX_FILTER_DEPTH` and
`MAX_LIST_VALUES` are constants, small in the instance.

### StdioSession

A message is one action, because `run()` reads, answers and notifies in a loop.
`told` holds the notifications that follow the response. `tickets` and `carried` are
history: which confirmations were issued, for what, and which destructive calls were
carried out. `walk` is a client that follows the cursors of `resources/list`, with
what it has been shown. The actions named `…Fails` are engine calls that stop
halfway.

### AgentRecords

Records are read in the order of their UUIDv7 keys: a time and a counter that keeps
one process's keys growing. `minted` is the last key of the process; `RestartRecords`
forgets it. A hash is the tuple of what it covers, so that no two inputs share one.
`Broken` is `journal_verify_chain`; `Damaged` are the changes of one record that a
store can suffer.

## 3. The runs

| run | instance | what it shows |
|---|---|---|
| `Worker` | 2 operations; text, import and export contents; replays from alarm and queue; 2 interruptions. Or 5 exports, retention 3, any number of crashes | answers are durable and the contract holds; the mark is exact; replay order; bodies kept; the active checkpoint is served and the newest generations are kept |
| `RuntimeLiveness` | 2 operations; imports, exports and MCP calls; the alarm; 2 interruptions | whatever is journaled is settled without the client |
| `EnginesResidents` | a read, two writes, an import; two tenants, room for one; channel of 1; a drop and a panic | one actor and one open directory per tenant, within the limit; no ambiguous refusals; every request answered |
| `Admission` | 3 requests, 2 roles, 2 targets, lifetime 1, 2 ticks. Or 5 requests of one account, REST and MCP; a request in 2 ticks and 2 write units in 3, 4 ticks | a token confirms one destruction; dead tokens make room; bursts are bounded |
| `SessionsNotified` | 2 sessions of 2 users, room for one; channel of 1; 2 changes; a hang-up | nothing owed is lost, places and receivers add up, and what is owed is told in the end |
| `IngestionRetries` | 2 events and a client's own key; contents stored, hidden, rejected; embeddings that do not fit and, for one event, two that do; batches of two events or of one event twice; one crash or refused commit anywhere | nothing orphaned, hidden content hidden, answered memories found, batch records true, the promise kept, events settled in the end |
| `Knowledge` | 2 events of a session and 1 of its project; 3 claims, two in conflict; 1 crash. Or 3 entities merged and split, or related and traversed. Or 3 entries in 2 journals, or 3 in the audit | nothing succeeds itself; the past loses only what is forgotten; forgetting reaches what it must; lineages verify; traversals own up to truncation; verification is right about intact and damaged chains |
| `Recall` | 4 memories of 3 scopes, 2 events, 3 claims, 3 entities; 4 requests at the limits of their budgets; pages of one; filters of every kind | nothing deleted is left in an index; recall is authorized and complete, contexts are honest; confirmations are spent once, subscribers are told, pages show everything once; filters mean what they say |
| `RuntimeStaleReplay`, `CheckpointRetriedExport`, `KnowledgeProjectEvent`, `RecallForgottenEvidence` | as small as shows the point, or the instance of the passing run | disagreements between a document and the code, see section 6 |

`RuntimeContainerLoss.cfg` (of `MCTenantRuntime`), `EnginesRefusedImport.cfg` (of
`MCTenantEngines`), `IngestionOtherEmbedding.cfg` and `IngestionTwoContents.cfg` (of
`MCEventIngestion`) are four more instances, not among the listed runs: TLC finds a
counterexample in each, to which section 6 refers.

Why the bounds are enough. Two operations are the fewest for order, competition
and head-of-line blocking; two interruptions allow a crash during the recovery
from a crash. With retention 3 the fifth export is the first whose repetition
finds a full history that has already been cut. Channels and registries of one
place reach their limits with two requests. The clock of `RequestAdmission` passes
two ends of the request window and one of the quota's. In `IngestionRetries` one fault suffices to separate any two
commits, and the state it leaves meets every call that can follow; `MaxFaults = 2`
without liveness adds no behaviour of another kind. Hidden content reaches it in
events alone, whose handlers end in the same `remember()`. The submissions are a batch
without embeddings, the same batch with one, a batch whose events come in the other
order, and a batch that has one event twice, with a content that the policy rejects and
one that it does not, raw and with an embedding, so that batches overlap, resume and
conflict. Two embeddings that fit are enough to find a memory stored with another than
the sender's; one event has both. A client's own key is used where no batches are, as
the two meet in `remember()` only. Operations, receipts and requests that are only compared
are symmetric; liveness is never checked under symmetry.

In `Knowledge`, three events separate an event that a session sees because it is its
own from one it sees because its project does; three claims are the fewest for a
cycle of supersessions that is not a pair; a hierarchy of episode, session summary
and project summary is the deepest the code builds, and one crash in a rollback or
a forget of it leaves every part of it. Three entities allow a merge of a split
and a path of two edges with a budget of one, and two seeds where one may be
reported; the third edge comes while the clock has not moved. The
behaviours about links forget one event at most, as one is enough to take the evidence
of a claim away and leave another's. A chain of three entries has a first, a middle and
a last one. In `Recall`, four memories are one of each kind that a
branch must treat differently (a session's, a project's, one without project, one
quarantined), two of which say the same; the requests sit at the limits of
candidates, results and tokens; two memories and pages of one are the fewest for a
cursor that a removal shifts. While memories come and go, one of them at a time has
been changed; around a recall, one is bound and one changed, or two are changed, of
the three that some request might see.

`CHECK_DEADLOCK FALSE` appears where the instance may come to rest: all exports
settled, all requests over, all changes told. The runtime has no such state, a
client may always retry.

### Fairness

- `TenantRuntime`: the event loop serves the steps a handler can take, the
  Container answers or fails, and the alarm keeps coming — `alarm()` re-arms
  itself, the `Container` base class sets the first one. Clients need not retry and
  queue messages need not arrive. Interruptions are bounded, so in the end there
  is a replay that none disturbs.
- `TenantEngines`: Tokio polls ready handlers, blocking tasks end, actors serve
  their channels: weak fairness. Its mutex is first come, first served, so an
  acquisition that is enabled again and again is taken: strong fairness. A body
  need not arrive, so imports need not end.
- `McpSessions`: the publisher runs to the end of its loop (it never awaits), and
  an open stream is polled while it is ready and by the keep-alive.
- `EventIngestion`: the engine finishes the calls it is in (weak fairness), and
  whoever sent an event sends it again with the embedding it has for it (`Own`, which
  fits). The engine is free again and again but not for ever, so that is strong
  fairness; it is an assumption on clients, who have a failed or received event to
  resume. Nothing is assumed of other requests and of enrichment, which may bring
  another embedding at any time.

The engine's other modules promise nothing about the future: their operations are
calls that a client makes or does not make.

## 4. What is proved

Every theorem holds for any value of the constants that the named assumptions of
the modules allow; TLC evaluates these assumptions in every run. None needs the
bounds that keep the instances small, nor finite sets of requests, tenants,
sessions, events, memories or entities, except where a module's assumption says so.
Four theorems have one hypothesis more, which the code does not enforce:
`~LateRetries` those of the checkpoint store (`CheckpointInvariant`,
`ReferencesAreKept`, `DeletedAreOutlived`), `~ClockStepsBack` that of the chains
(`VerificationIsTrue`). Each names a circumstance in which the code does not keep the
property (section 6).

### The Durable Object

`TenantRuntimeProofs` begins with the journal alone: for any sets of operations,
contents and receipts, `JournalSpec` keeps `JournalInv`: types, the agreement of the
index with the records, receipts exactly for settled commands, and the exact mark.
`HighWaterExact` is not inductive alone: a step that settles a command moves the mark
over sequences whose commands it finds through the index, so the index must be right;
and the loop ends only because sequences are given out without gaps. From the
invariant follow `SequencesAreDense`, `HighWaterMarkIsExact`, `SettlementIsFinal`
and `MarkNeverMovesBack`.

It goes on to prove that every step of the runtime is a step of the journal or none
(`RuntimeImplementsJournal`), so all of the above holds for it. The runtime's own
invariant adds what a handler may assume at each await: that the operation it works
on is recorded; that a response about to leave, or a body about to be deleted, belongs
to a settled operation; that what `fetch` is about to answer is the journal's receipt,
which only holds because no replay finalizes while the gate is closed; and that the
snapshot of a replay contains every command still pending below the one it will send
next. From it follow `AnswersAreTheReceipt`, `ReplaysFollowTheJournal`,
`BodiesOutliveTheirImports` and, with `OperationOutcomes`, `RuntimeKeepsContract`:
every step of the runtime accepts, decides or answers one operation, or does nothing
its clients can see.

`CheckpointStoreProofs` proves `ReferencesAreKept` and `DeletedAreOutlived` for any
number of exports, crashes and repetitions and any retention of two or more
(`CheckpointAssumption`), as long as an export is repeated only while it is the
latest (`~LateRetries`). The invariant is that the history then descends, so that
whatever falls off its end is older than all that stays and than the checkpoint the
pointer was moved to just before. Without the hypothesis a late repetition puts an old
checkpoint at the head, and TLC finds both properties violated.

### The native server

`TenantEnginesProofs` proves `RegistryStaysSound`: one actor per tenant and no more
residents than allowed, under any races, hang-ups and panics, and a directory open only
once as long as no handler is dropped. The
lookup is checked long before the registration it allows; what was seen still holds
then because only the holder of `engine_opening` adds to the registry, and an engine
whose opener is gone is dropped without having been registered. The invariant also
follows every command from the handler through the channel to the actor, which gives
`RefusedWritesNeverHappen` (a write answered 503 is in no queue and with no actor, unless
one died) and `ImportsHideNoWrite` (an import never replaces a directory that an engine
has written to).

`RequestAdmissionProofs` proves `DestructionIsConfirmed` and `OnlyUsableTokensCount`: a
token leaves the pool in the step that spends it, and the request it was issued to is
over, so what it was issued for cannot change. `ThroughputStaysLimited` bounds what any
stretch of a window's length lets through by two windows' worth. What a window counts
says nothing of the window before it, so the invariant (`CountsAreSound`) keeps for
every account that what was let through since the window started is what it counts,
that what falls into a window's length before its start is at most one limit — because
a window is renewed only when it has run out (`RenewedIsSound`) — and that all earlier
stretches are within two.

`McpSessionsProofs` proves `SessionsKeepTheirPlaces` and `NotificationsAreNotLost`: a
change that concerns a session is with the publisher, in the session's channel, or
behind the flag that says that the channel was full, until the session's stream has
told of it. The receiver of a channel goes back and forth between slot and stream; the
invariant says who has it.

### Writes and ingestion

`EventIngestionProofs` proves of `MemoryStore` alone `NoOrphans`, `QuarantinedIsHidden`
and `AnsweredIsSearchable` for any calls and interruptions. None is inductive: what a
call writes last is right because of what it wrote first, so the invariant says at
each commit what the earlier ones have left — `CommitVector` may write because the
document is there with the same content, `DeleteRecord` may remove it because
vector and bindings are gone — and that ledger, documents and vectors agree, which
is why the repair of a retry writes the right vector.

Then it proves type correctness, the same properties for the store as ingestion uses
it, `BatchesAreTrue`, and that ingestion implements `EventPromise`
(`IngestionKeepsPromise`). The invariant that carries them says that while `remember`
is under way the event's entry still has the content the call was made with and is
not settled, that `remember` answers *stored* only with a ledger record and *blocked*
only for content that can have none, that the entry of an event in a batch under way
has a content the batch was sent with for it, and that the items collected so far still
hold. Nothing is assumed of batches; of one that has an event twice, the entry has one
of the contents (`ContentsFor`), and that the other is not reported as its own is what
fails (`PayloadsAreOwn`, section 6). With the invariant, storing
the documents is the abstract `Become`, removing them `Forget`, a final status `Settle`,
new entries `Account`, and every other step nothing.

### Claims and derived memories

`DerivedMemoriesProofs` is about claims and what is derived from them, for any
events, candidates and scopes and any number of interruptions.

- `LinksAreAcyclic`: links never lead from a claim back to itself. A new link closes
  no cycle because the walk of `supersede_claim` found a set that holds the
  successor, is closed under the links and leaves the original out; in any group of
  claims either the part inside that set or the whole group then still has a last
  one. A successor that is recanted for and not looked up leads nowhere, as links
  are only of claims that are recorded (`ClaimsInvariant`).
- `PastIsKept`: `PastOnlyLosesForgotten`. Records of claims and links lie in the past
  and steps add to the present only, and no marker is taken back.
- `SessionEventsAreForgotten`: `SessionEventIsForgotten`. The invariant says that a
  memory rooted in an event of one session is of that session or its project, which
  is as far as `forgotten_source_reaches_derived` looks. It is the step that fails
  for events of a wider visibility (section 6).
- `AggregatesRestOnEvidence`: `AggregatesAreSupported`. The invariant says of every
  aggregate, active or not, that forgotten evidence is in it only while a forget is to
  be repeated: a blocked aggregate may become active when it is refreshed.
- `LineagesVerify`: `LineageVerifies`. The invariant says what an id says of its
  memory: of what kind its sources are and which events it goes back to; and that a
  source that is gone, or no longer active under an active memory, is so because of a
  forget or a rollback that a crash cut short. That two rounds of
  `stale_derived_descendants` are enough (`DescendantsAreAll`) is part of it.

`IdsAssumption` says that no event's id is an episode's id, both being hashes.

### The graph, the corpus and recall

`KnowledgeProofs` continues with the modules that share claims and graph. That a
component leaves the others' variables alone is proved once, so that each invariant
is shown for its own actions and carried to the specifications that extend it.

- `SuccessionsHaveAnEnd`: `NothingSucceedsItself`, for claims and for the lineages of
  merged and split entities, by the argument of `LinksAreAcyclic` over the walk of
  `record_entity_lineage`.
- `DeletionsLeaveNothing`: `DeletedLeavesNothing`. The invariant of the corpus
  (`CorpusInvariant`) says where index and bindings lead after any operation cut short
  at any commit, and that no id that was deleted is stored or bound again.
  `SessionKeepsCorpus` carries it to the tools of a session.
- `NobodyIsShownMore`: `RecallIsAuthorized`. Each branch looks at a corpus of its own;
  in every state all of them lie in what `get_memory` would show the caller, and
  neither the union nor the citations of merged duplicates lead out of it.
- `NothingDueIsLeftOut`: `RecallIsComplete`. A memory that a branch found is followed
  through the union, the exclusions, the merging of equal texts and the limits: at each
  it stays, is cited by another, or leaves a reason behind.

- `TraversalsAreHonest`: `TraversalIsHonest`, for every order of the scan.
- `ContextsAreHonest`: `ContextIsHonest`, for every response.

The last two are about loops, which the modules write as recursive functions over the
numbers of their rounds. Two lemmas replace an induction over those: of the rounds
that break what the others keep there would be a first (`EveryRound`); if each round
leads from a state to a state, a function that goes through all of them exists
(`LoopHasStates`), and so the `CHOOSE` behind the recursive function is such a
function. What is left is what one round keeps.

A walk (`HonestWalk`) holds no more edges and entities than the budgets allow; it
holds the seeds and whoever waits in the queue; every set that holds the seeds and is
closed under the relations holds all of the walk; and as long as no reason is given,
whatever a relation leads to from an entity that was taken out of the queue is in the
walk. The entities of the walk are those taken out and those waiting, so that after as
many rounds as there are entities nobody waits. That there are finitely many relations
to scan in any reachable state (`GraphIsFinite`) is an invariant.

A context (`HonestContext`) after `k` results has spent what it no longer has, has no
more than `k` sections, and if it has `k` and none was cut they are the first `k`
results in full. Besides: what fits is paid for by what is left (`FittingFits`), the
sections are the results in another order and as many (`SectionsAreResults`), and a
result is of a memory that was scored, since of the memories that read the same one is
better than the others (`OneIsBest`).

`RecallAssumption` says that limits and token budgets are positive — `compose_context`
answers a budget of zero before it recalls anything —, that the four treatments are
disclosed in some way, and that only what is quarantined is withheld without a trace
(`governance.rs:312`). `CostAssumption` says that the cost of every text that
can be disclosed is known, and that each of its words costs at least one token. `GraphAssumption` says that the budgets
of a traversal are positive and that `None` is no reason for truncation.

### The stdio session

- `DestructionIsConfirmed`: `ConfirmedOnce`. What was carried out for a resource and the
  confirmations still pending for it are together no more than were issued for it.
- `RevisionsAreTold`: `SubscribersAreTold`, from what each tool announces and what it
  changes.
- `UndisturbedListingIsComplete`: `PagesAreComplete`. A cursor is an offset; the
  invariant is that as long as nothing was announced, what the client has seen is what is
  readable among the first `offset` ids of the list. The lemmas behind it are about
  `InOrder`: what comes first of a finite set, and what of it lies in another one.

### Journals and audit

- `VerificationIsTrue`: `VerifyTellsTheTruth`, if the clock is not set back. A new key is
  then greater than all keys of this process and of those before it (`IdsGrow`), so a new
  record is last in its scan and its link is to the record before it; conversely, a record
  whose text is changed, that is removed or that a stranger inserts leaves a hash or a link
  that the verification finds wrong, unless it cuts or continues the end of the chain.
- `SupersededNeverReturns`: `SupersededStaysHidden`. Whether an entry is shown is decided
  by the links alone, and links are never taken back. Nothing is said of the order in
  which entries supersede each other, of which the code asks nothing either.

### Only model-checked

- Liveness: `PendingIsResolved`, `RequestsAreAnswered`, `OwedIsTold`, `EventsSettle`. The
  prover has no rules for `ENABLED` and fairness. `PendingIsResolved` and `EventsSettle`
  name their exceptions: bodies that are missing and exports that keep failing; memories
  deleted meanwhile, and those stored with another embedding than the sender's.
- `AcceptedMeansWhatItSays`: filters are trees, and their validation, compilation and
  meaning are recursive operators, which cannot be reasoned about here.

## 5. What is abstracted

Contents, receipts, tenants and tokens are model values: only equality matters to
the control flow. The two places where a value's kind matters are kept: whether a
receipt is a success and whether it is a Container's or the operation's own
answer. Authentication, capability checks, request validation and formatting
decide nothing about the state modelled and are taken as passed. `Hyphae`, R2,
Durable Object storage, Tokio and the Container platform are external, modelled
from how the code uses them.

## 6. Where the code and its documents differ

Four have a run whose counterexample shows it, four more an instance of their own;
`findings` in `PROJECT.json` quotes the document.

1. `RuntimeStaleReplay`: a replay sends a command again that a retry settled after
   the snapshot was taken (`index.ts:125`, `:132`).
2. `CheckpointRetriedExport`: repeating an export deletes a generation that is
   still retained (`checkpoint.ts:50`).
3. `KnowledgeProjectEvent`: an episode of a session is made of every event the
   session sees; forgetting one that was captured for the project or for all does
   not reach it (`engine.rs:5632`).
4. `RecallForgottenEvidence`: a claim that was retired keeps the memories of its
   evidence out of recall only until that evidence is forgotten (`engine.rs:3538`).
5. `RuntimeContainerLoss.cfg`: nothing restores a checkpoint after the Container is
   lost, and settled commands are not replayed (`index.ts:120`).
6. `EnginesRefusedImport.cfg`: a refused import leaves its directory in place
   (`server.rs:454`).
7. `IngestionOtherEmbedding.cfg` (`EventsResume`): "A received or failed event can
   resume when an embedding becomes available" (`rust/README.md:231`), but when an
   enrichment was interrupted after it had stored the memory, sending the event again
   with another embedding of it is a conflict for good (`engine.rs:1993`). The entry
   stays failed although the memory exists; only the embedding that was stored settles
   it. `EventsSettle` names this as an exception (`TakenByAnother`).
8. `IngestionTwoContents.cfg` (`PayloadsAreOwn`): "changed immutable payloads fail as
   durable conflicts" (`rust/README.md:232`), but a batch may have an event twice with
   two contents. The conflict is counted on the entry, and the item of the second
   content reports the first's outcome, materialized, as its own (`engine.rs:1323`,
   `:1362`). In a raw batch both items are reported as received.

Others were met while modelling and have no run.

Worker and runtime. A replay finalizes an export as applied without persisting it
(`index.ts:152`). A crash between journal and R2 leaves a command whose missing body
stops every replay (`index.ts:129`), and a client that repeats a failing export resets
the object under the replay (`index.ts:71`): `PendingIsResolved` excepts these two. A
late retry of an old export moves the active pointer back (`checkpoint.ts:48`;
`LateRetries = TRUE` with `ActiveNeverRegresses` shows it). A busy Container or a
lost MCP session becomes the final answer of an operation, where ADR-025 has
receipts recorded "only after a successful result" (`runtime.ts:73`;
`RejectionIsTheOperations` in place of `PendingIsResolved` in `RuntimeLiveness.cfg`
shows it).

Writes and ingestion. A crash between the document commit and `append_audit` leaves
a memory that is never audited and whose entities are never indexed, because the
retry returns the stored memory (`engine.rs:2012`; `StoredIsAudited` in
`IngestionRetries.cfg` shows it), where `rust/README.md` has decisions "recorded in a
per-tenant BLAKE3 audit chain". `enrich_event` records a policy rejection as failed,
not rejected (`engine.rs:1234`), and such an event can be enriched again and again;
only `ingest_event` settles it.

Derived memories. A crash in the middle of a rollback, and then the retry, leave a
grandchild active: descendants are looked for from what is still active
(`engine.rs:4152`). Between the marker of a forgotten event and its propagation a
summary can still be made of an episode rooted in it; it stays until the forget is
repeated. After a rollback an episode can never be consolidated again, and after an
erasure the same plan is answered with the old committed run. Forgetting a session's
event makes summaries of its project stale, never withdrawn. Forgetting after a
rollback overwrites the status `RolledBack`.

Claims and the graph. `ClaimSnapshot::diff` keeps one entry per property
(`temporal.rs:185`). When a successor's evidence is forgotten its original stays
retired. `resolve_entity_id` reports a cycle where there is none when an entity is
split and one half is then merged into the other (`engine.rs:2798`;
`ResolutionFindsNoCycle` states it). `delete_memory` removes the bindings of the scope
it is called from; those of other scopes stay, against "Hard-delete removes graph
bindings so no orphan remains" (`rust/README.md:268`; `DeletedIsUnboundEverywhere`). A
traversal does not report edges between entities at its greatest depth, and reports
"edges" when all that is left is an edge it has already taken. Recording a lineage or
an alias again overwrites what was there, although events are "append-only"
(`engine.rs:2755`).

Lifecycle and recall. Repeating `run_lifecycle` compounds the decay of the same idle
days. `consolidate` merges into duplicates of other scopes and users, revives archived
memories and leaves the revision as it was; `update_memory` therefore does not notice
it, nor feedback or decay. A budget of zero edges or entities makes a recall with
seeds fail as a whole. `RecallAbstention::PolicyRestricted` cannot be reached
(`engine.rs:3113`). All restricted memories share one summary text, so recall merges
them into one, and the candidate limit drops memories without saying so.
`authorization_filter` and `memory_visible_to` disagree about memories of a project
without a project id.

Sessions. A tool that fails halfway, and a consolidation that merges or revives,
change the list of resources and send no `list_changed` (`mcp.rs:1251`;
`rust/README.md:295`). Cursors of `resources/list` are offsets: a removal between two
pages hides a memory (`engine.rs:3871`), of which the client learns only by the
notification.

Chains. Verification cannot see that the end of a chain was cut off, and the hash of
a journal entry covers neither its type, valence and tags nor `preceded_by`
(`journal.rs:119`). A clock set back over a restart sorts new entries before old ones
and makes an honest chain fail (`journal.rs:147`; `ClockStepsBack = TRUE` shows it). Two
journal entries can supersede each other, and are then both hidden.

## 7. Not modelled

- Worker authentication, the command line, request parsing and formatting: pure
  functions without state.
- Portability and time travel: encryption, manifests and migrations are data
  conversions within one call, and reading the past is Hyphae's snapshot, which is
  external. The restore is modelled where it meets other requests (`TenantEngines`).
- Cognition: floating-point scoring and text classification.
- Consolidation schedules: stored for an external runner and read by nothing else.
- Affect and circadian state, counters and statistics of the engine.
- Federation, Atlas server, bench, harvester, plugin and scripts: apart from the
  memory core, with no state that it depends on.
