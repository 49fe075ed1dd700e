---------------------------- MODULE TenantRuntime ----------------------------
(***************************************************************************)
(* The control plane of one tenant (apps/cloudflare-worker/src/index.ts    *)
(* and runtime.ts): the Durable Object that journals mutating requests,    *)
(* forwards them to the tenant's Container and replays what is left        *)
(* unresolved, together with the R2 objects that hold import bodies.       *)
(*                                                                         *)
(* fetch() runs inside blockConcurrencyWhile, so a client request holds    *)
(* the object from its first step to its last; queue() and alarm() enter   *)
(* through replayPending() and hold nothing while they await R2 or the     *)
(* Container.  Every await is therefore a step boundary, and the gate is a *)
(* guard on the steps the object itself takes.                             *)
(***************************************************************************)
EXTENDS TenantJournal, FiniteSets

CONSTANTS
    ImportContents,   \* PUT /v1/checkpoints/import: the body goes through R2
    ExportContents,   \* POST /v1/checkpoints/export: persisted before it settles
    SessionContents,  \* MCP calls, which name a session the Container holds
    Replayers,        \* handlers that run replayPending()
    GatedReplayers,   \* those that do so inside fetch(), holding the gate
    Successful,       \* receipts of a 2xx response
    Unavailable,      \* the receipt of a Container too busy to serve (503)
    NoSession,        \* the receipt of a call on an unknown MCP session (404)
    NoOperation,
    MaxInterruptions  \* bound on crashes, failures and conflicting retries

ASSUME RuntimeAssumption ==
    /\ ImportContents \subseteq Contents
    /\ ExportContents \subseteq Contents
    /\ SessionContents \subseteq Contents
    /\ ImportContents \cap ExportContents = {}
    /\ GatedReplayers \subseteq Replayers
    /\ "fetch" \notin Replayers
    /\ Successful \subseteq Receipts
    /\ {Unavailable, NoSession} \subseteq Receipts \ Successful
    /\ NoOperation \notin Operations
    /\ MaxInterruptions \in Nat

VARIABLES
    handler,        \* what the client request and each replay is in the middle of
    todo,           \* the rest of the snapshot each replay took from pending()
    objects,        \* operations whose body R2 holds (pending/<tenant>/<op>.bin)
    persisted,      \* exports whose artifact and pointer persistExport() wrote
    session,        \* the MCP session each session content names, once opened
    onDisk,         \* operations applied to the disk of the running Container
    answers,        \* the receipts clients have been sent
    interruptions

runtimeVars == <<handler, todo, objects, persisted, session, onDisk, answers,
                 interruptions>>
vars == <<journalVars, runtimeVars>>

Handlers == {"fetch"} \cup Replayers
Gated == {"fetch"} \cup GatedReplayers

At(phase, op, reply) == [phase |-> phase, op |-> op, reply |-> reply]
Idle == At("idle", NoOperation, NoReceipt)

Phases == {"idle", "storing", "forwarded", "replied", "persisted", "deleting",
           "responding", "choosing"}

TypeOK ==
    /\ JournalTypeOK
    /\ handler \in [Handlers -> [phase : Phases,
                                 op    : Operations \cup {NoOperation},
                                 reply : Receipts \cup {NoReceipt}]]
    /\ todo \in [Replayers -> SUBSET Operations]
    /\ objects \subseteq Operations
    /\ persisted \subseteq Operations
    /\ session \in [SessionContents -> {"live", "ended"}]
    /\ onDisk \subseteq Operations
    /\ answers \in [Operations -> SUBSET Receipts]
    /\ interruptions \in 0..MaxInterruptions

\* The operation asks for one of the given contents.
Asks(op, contents) == commands[op].content \in contents

\* Mutant: replays and client requests do not exclude each other.
GateIgnored(h) == TRUE

\* No other handler is inside blockConcurrencyWhile.
GateOpen(h) == \A other \in Gated \ {h} : handler[other].phase = "idle"

InPhase(h, phase) == handler[h].phase = phase
Goes(h, phase, op, reply) == handler' = [handler EXCEPT ![h] = At(phase, op, reply)]

-----------------------------------------------------------------------------
Init ==
    /\ JournalInit
    /\ handler = [h \in Handlers |-> Idle]
    /\ todo = [r \in Replayers |-> {}]
    /\ objects = {}
    /\ persisted = {}
    /\ session = [content \in SessionContents |-> "live"]
    /\ onDisk = {}
    /\ answers = [op \in Operations |-> {}]
    /\ interruptions = 0

Interrupts ==
    /\ interruptions < MaxInterruptions
    /\ interruptions' = interruptions + 1

\* The object is torn down: every handler is gone, storage and R2 are not.  A
\* request the Container already has may still be applied there.
ResetObject ==
    /\ handler' = [h \in Handlers |-> Idle]
    /\ todo' = [r \in Replayers |-> {}]
    /\ \E late \in SUBSET {handler[h].op : h \in {g \in Handlers : InPhase(g, "forwarded")}} :
           onDisk' = onDisk \cup late
    /\ UNCHANGED <<objects, persisted, session, answers>>

-----------------------------------------------------------------------------
\* Client requests: forwardWithJournal() and forwardBinaryWithJournal().

FirstPhase(content) == IF content \in ImportContents THEN "storing" ELSE "forwarded"

\* prepare() of a new operation id, and the request is on its way.
FetchNew(op, content) ==
    /\ InPhase("fetch", "idle")
    /\ GateOpen("fetch")
    /\ PrepareNew(op, content)
    /\ Goes("fetch", FirstPhase(content), op, NoReceipt)
    /\ UNCHANGED <<todo, objects, persisted, session, onDisk, answers, interruptions>>

\* A retry of an operation that is still pending is forwarded again.
FetchRetry(op) ==
    /\ InPhase("fetch", "idle")
    /\ GateOpen("fetch")
    /\ IsPending(op)
    /\ Goes("fetch", FirstPhase(commands[op].content), op, NoReceipt)
    /\ UNCHANGED <<journalVars, todo, objects, persisted, session, onDisk, answers,
                   interruptions>>

\* A retry of a settled operation is answered from its receipt.
FetchSettled(op) ==
    /\ InPhase("fetch", "idle")
    /\ GateOpen("fetch")
    /\ Settled(op)
    /\ answers' = [answers EXCEPT ![op] = @ \cup {commands[op].receipt}]
    /\ UNCHANGED <<journalVars, handler, todo, objects, persisted, session, onDisk,
                   interruptions>>

\* OperationConflictError leaves the blockConcurrencyWhile callback, which
\* resets the object.
FetchConflict(op, content) ==
    /\ InPhase("fetch", "idle")
    /\ GateOpen("fetch")
    /\ Conflicts(op, content)
    /\ Interrupts
    /\ ResetObject
    /\ UNCHANGED journalVars

\* The import body is put to R2 and read back before it is forwarded.
FetchStore ==
    /\ InPhase("fetch", "storing")
    /\ objects' = objects \cup {handler["fetch"].op}
    /\ Goes("fetch", "forwarded", handler["fetch"].op, NoReceipt)
    /\ UNCHANGED <<journalVars, todo, persisted, session, onDisk, answers, interruptions>>

\* persistExport() as beforeFinalize: the artifact is fetched and persisted
\* when the response is an export's metadata; any other response makes it throw,
\* which resets the object and leaves the export pending.
FetchPersist ==
    /\ InPhase("fetch", "replied")
    /\ Asks(handler["fetch"].op, ExportContents)
    /\ \/ /\ handler["fetch"].reply \in Successful
          /\ persisted' = persisted \cup {handler["fetch"].op}
          /\ Goes("fetch", "persisted", handler["fetch"].op, handler["fetch"].reply)
          /\ UNCHANGED <<todo, objects, session, onDisk, answers>>
       \/ /\ handler["fetch"].reply \notin Successful
          /\ ResetObject
    /\ UNCHANGED <<journalVars, interruptions>>

\* The response of fetch's operation is ready to be finalized.
FetchReady ==
    \/ InPhase("fetch", "persisted")
    \/ InPhase("fetch", "replied") /\ ~Asks(handler["fetch"].op, ExportContents)

Terminal(receipt) == IF receipt \in Successful THEN "applied" ELSE "rejected"

FetchFinalize ==
    LET op == handler["fetch"].op
        reply == handler["fetch"].reply IN
    /\ FetchReady
    /\ Finalize(op, Terminal(reply), reply)
    /\ Goes("fetch", IF Asks(op, ImportContents) THEN "deleting" ELSE "responding",
            op, reply)
    /\ UNCHANGED <<todo, objects, persisted, session, onDisk, answers, interruptions>>

\* Mutant: the response is sent although its receipt could not be stored.
FetchAnswersAnyway ==
    LET op == handler["fetch"].op IN
    /\ FetchReady
    /\ Interrupts
    /\ answers' = [answers EXCEPT ![op] = @ \cup {handler["fetch"].reply}]
    /\ Goes("fetch", "idle", NoOperation, NoReceipt)
    /\ UNCHANGED <<journalVars, todo, objects, persisted, session, onDisk>>

\* The receipt cannot be stored.  A text request is told so with a 503 that is
\* not a receipt (receipt_persist_failed); an import's error leaves the gate.
FetchFinalizeFails ==
    /\ FetchReady
    /\ Interrupts
    /\ \/ /\ ~Asks(handler["fetch"].op, ImportContents)
          /\ Goes("fetch", "idle", NoOperation, NoReceipt)
          /\ UNCHANGED <<todo, objects, persisted, session, onDisk, answers>>
       \/ /\ Asks(handler["fetch"].op, ImportContents)
          /\ ResetObject
    /\ UNCHANGED journalVars

\* The import body is no longer needed.
FetchDelete ==
    /\ InPhase("fetch", "deleting")
    /\ objects' = objects \ {handler["fetch"].op}
    /\ Goes("fetch", "responding", handler["fetch"].op, handler["fetch"].reply)
    /\ UNCHANGED <<journalVars, todo, persisted, session, onDisk, answers, interruptions>>

\* The response leaves the object.
FetchRespond ==
    /\ InPhase("fetch", "responding")
    /\ answers' = [answers EXCEPT ![handler["fetch"].op] = @ \cup {handler["fetch"].reply}]
    /\ Goes("fetch", "idle", NoOperation, NoReceipt)
    /\ UNCHANGED <<journalVars, todo, objects, persisted, session, onDisk, interruptions>>

-----------------------------------------------------------------------------
\* Replays: replayPending(), from queue(), alarm() or, when no queue is bound,
\* from POST /v1/checkpoints/replay inside fetch().

\* The snapshot of unresolved commands is taken once.
ReplayStart(r) ==
    /\ InPhase(r, "idle")
    /\ GateOpen(r)
    /\ todo' = [todo EXCEPT ![r] = PendingCommands]
    /\ Goes(r, "choosing", NoOperation, NoReceipt)
    /\ UNCHANGED <<journalVars, objects, persisted, session, onDisk, answers, interruptions>>

\* Mutant: a command whose body is missing is skipped instead of ending the replay.
ReplaySkipsMissing(r) ==
    LET op == First(todo[r]) IN
    /\ InPhase(r, "choosing")
    /\ GateOpen(r)
    /\ todo[r] # {}
    /\ todo' = [todo EXCEPT ![r] = @ \ {op}]
    /\ IF Asks(op, ImportContents) /\ op \notin objects
         THEN UNCHANGED handler
         ELSE Goes(r, "forwarded", op, NoReceipt)
    /\ UNCHANGED <<journalVars, objects, persisted, session, onDisk, answers, interruptions>>

\* The next command of the snapshot is forwarded as it was stored, without
\* looking at the journal again.
ReplayForward(r) ==
    LET op == First(todo[r]) IN
    /\ InPhase(r, "choosing")
    /\ GateOpen(r)
    /\ todo[r] # {}
    /\ Asks(op, ImportContents) => op \in objects
    /\ todo' = [todo EXCEPT ![r] = @ \ {op}]
    /\ Goes(r, "forwarded", op, NoReceipt)
    /\ UNCHANGED <<journalVars, objects, persisted, session, onDisk, answers, interruptions>>

\* The replay ends: its snapshot is done, or the next body is missing in R2
\* (checkpoint_missing).
ReplayEnd(r) ==
    /\ InPhase(r, "choosing")
    /\ GateOpen(r)
    /\ \/ todo[r] = {}
       \/ /\ todo[r] # {}
          /\ Asks(First(todo[r]), ImportContents)
          /\ First(todo[r]) \notin objects
    /\ todo' = [todo EXCEPT ![r] = {}]
    /\ Goes(r, "idle", NoOperation, NoReceipt)
    /\ UNCHANGED <<journalVars, objects, persisted, session, onDisk, answers, interruptions>>

\* Mutant: a replayed command is finalized only when it succeeded.
ReplayFinalizesSuccess(r) ==
    LET op == handler[r].op
        reply == handler[r].reply IN
    /\ InPhase(r, "replied")
    /\ GateOpen(r)
    /\ IF reply \in Successful THEN Finalize(op, Terminal(reply), reply)
                               ELSE UNCHANGED journalVars
    /\ Goes(r, "choosing", NoOperation, NoReceipt)
    /\ UNCHANGED <<todo, objects, persisted, session, onDisk, answers, interruptions>>

\* The response is journaled whatever it is; finalize() drops it when the
\* command has been settled in the meantime.
ReplayFinalize(r) ==
    LET op == handler[r].op
        reply == handler[r].reply IN
    /\ InPhase(r, "replied")
    /\ GateOpen(r)
    /\ Finalize(op, Terminal(reply), reply)
    /\ IF Asks(op, ImportContents) THEN Goes(r, "deleting", op, reply)
                                   ELSE Goes(r, "choosing", NoOperation, NoReceipt)
    /\ UNCHANGED <<todo, objects, persisted, session, onDisk, answers, interruptions>>

\* Mutant: the body is deleted before the receipt is stored.
ReplayDeletesFirst(r) ==
    /\ InPhase(r, "replied")
    /\ Asks(handler[r].op, ImportContents)
    /\ objects' = objects \ {handler[r].op}
    /\ UNCHANGED <<journalVars, handler, todo, persisted, session, onDisk, answers,
                   interruptions>>

\* R2 deletes the body; the delete is already on its way, so no gate holds it.
ReplayDelete(r) ==
    /\ InPhase(r, "deleting")
    /\ objects' = objects \ {handler[r].op}
    /\ Goes(r, "choosing", NoOperation, NoReceipt)
    /\ UNCHANGED <<journalVars, todo, persisted, session, onDisk, answers, interruptions>>

-----------------------------------------------------------------------------
\* The Container, as the object sees it: it answers a forwarded request once,
\* applies it when it answers 2xx, and loses its sessions and its disk.

\* A call on a session the Container does not hold gets a 404, and a busy
\* Container a 503; otherwise the outcome is the operation's own.
CanAnswer(op, receipt) ==
    IF Asks(op, SessionContents) /\ session[commands[op].content] # "live"
      THEN receipt \in {NoSession, Unavailable}
      ELSE receipt # NoSession

ContainerReplies(h) ==
    LET op == handler[h].op IN
    /\ InPhase(h, "forwarded")
    /\ \E receipt \in Receipts :
           /\ CanAnswer(op, receipt)
           /\ onDisk' = IF receipt \in Successful THEN onDisk \cup {op} ELSE onDisk
           /\ Goes(h, "replied", op, receipt)
    /\ UNCHANGED <<journalVars, todo, objects, persisted, session, answers, interruptions>>

\* containerFetch() throws, before or after the Container applied the request:
\* inside fetch() that resets the object, elsewhere it ends the replay.
ContainerFails(h) ==
    /\ InPhase(h, "forwarded")
    /\ GateOpen(h)
    /\ Interrupts
    /\ \/ /\ h \in Gated
          /\ ResetObject
       \/ /\ h \notin Gated
          /\ Goes(h, "idle", NoOperation, NoReceipt)
          /\ todo' = [todo EXCEPT ![h] = {}]
          /\ onDisk' \in {onDisk, onDisk \cup {handler[h].op}}
          /\ UNCHANGED <<objects, persisted, session, answers>>
    /\ UNCHANGED journalVars

\* A session a client opened expires or is deleted; it never comes back.
SessionEnds(content) ==
    /\ session[content] = "live"
    /\ session' = [session EXCEPT ![content] = "ended"]
    /\ UNCHANGED <<journalVars, handler, todo, objects, persisted, onDisk, answers,
                   interruptions>>

\* The Container is destroyed and started again on an empty disk (sleepAfter,
\* eviction, a new image): nothing in the object reacts to it.
ContainerLoss ==
    /\ Interrupts
    /\ onDisk' = {}
    /\ session' = [content \in SessionContents |-> "ended"]
    /\ UNCHANGED <<journalVars, handler, todo, objects, persisted, answers>>

\* The Durable Object is evicted or restarted between two steps.
Crash ==
    /\ Interrupts
    /\ ResetObject
    /\ UNCHANGED journalVars

-----------------------------------------------------------------------------
FetchStep == FetchStore \/ FetchPersist \/ FetchFinalize \/ FetchDelete \/ FetchRespond

ReplayStep(r) ==
    ReplayForward(r) \/ ReplayEnd(r) \/ ReplayFinalize(r) \/ ReplayDelete(r)

Next ==
    \/ \E op \in Operations :
           \/ \E content \in Contents : FetchNew(op, content) \/ FetchConflict(op, content)
           \/ FetchRetry(op)
           \/ FetchSettled(op)
    \/ FetchStep
    \/ FetchFinalizeFails
    \/ \E r \in Replayers : ReplayStart(r) \/ ReplayStep(r)
    \/ \E h \in Handlers : ContainerReplies(h) \/ ContainerFails(h)
    \/ \E content \in SessionContents : SessionEnds(content)
    \/ ContainerLoss
    \/ Crash

Spec == Init /\ [][Next]_vars

\* What runs keeps running: the object's event loop serves the steps of its
\* handlers, the Container answers, and the alarm fires again and again
\* (alarm() re-arms itself).  Clients need not retry and queue messages need
\* not come.
Fairness ==
    /\ WF_vars(FetchStep)
    /\ \A h \in Handlers : WF_vars(ContainerReplies(h))
    /\ \A r \in Replayers : WF_vars(ReplayStep(r))
    /\ "alarm" \in Replayers => WF_vars(ReplayStart("alarm"))

FairSpec == Spec /\ Fairness

-----------------------------------------------------------------------------
\* A client is only ever told the receipt the journal holds, and each
\* operation's answers are all the same: fetch() answers from finalize()'s
\* stored receipt although it sends its own copy, which only the gate makes equal.
AnswersAreDurable ==
    \A op \in Operations : answers[op] # {} =>
        /\ Settled(op)
        /\ answers[op] = {commands[op].receipt}

\* Outcome of an operation as the journal records it.
JournaledOutcome ==
    [op \in Operations |-> IF Recorded(op) THEN commands[op].receipt ELSE NoReceipt]

Contract == INSTANCE OperationOutcomes
    WITH accepted <- DOMAIN commands, outcome <- JournaledOutcome

\* The control plane implements the contract of its clients: one decision per
\* operation, every answer that decision, whatever is retried, replayed or lost.
KeepsContract == Contract!Spec

\* Handler h sends operation op to the Container in this step.
Forwards(h, op) ==
    /\ handler[h].phase # "forwarded"
    /\ handler'[h].phase = "forwarded"
    /\ handler'[h].op = op

\* The body of an import stays in R2 until the import is settled, so that a
\* replay can still send it (deletes in index.ts replayPending and runtime.ts
\* forwardBinaryWithJournal come after finalize).
BodyKeptUntilSettled ==
    [][\A op \in objects \ objects' : Settled(op)]_vars

\* A replay sends a command only when everything journaled before it is settled
\* (pending() sorts by sequence, and replayPending stops at the first failure).
ReplayInOrder ==
    [][\A r \in Replayers, op \in Operations : Forwards(r, op) =>
          \A earlier \in DOMAIN commands :
              commands[earlier].sequence < commands[op].sequence => Settled(earlier)]_vars

\* A settled operation is not sent to the Container again (ADR-025: "A terminal
\* receipt is replayed without calling the Container again").
SettledIsNotForwarded ==
    [][\A h \in Handlers, op \in Operations : Forwards(h, op) => ~Settled(op)]_vars

\* Only the operation's own outcome is recorded as its receipt, never that the
\* Container was busy or has lost the session the command ran in (ADR-025: "The
\* DO records the receipt and advances the high-water mark only after a
\* successful result").  It fails: every response that is not 2xx is a rejection.
RejectionIsTheOperations ==
    \A op \in DOMAIN commands : commands[op].receipt \notin {Unavailable, NoSession}

\* A crash came before the put of an import's body: no replay gets past it.
BodyIsMissing ==
    \E op \in Operations \ objects : IsPending(op) /\ Asks(op, ImportContents)

\* persistExport() is about to throw, which ends whatever replay is under way.
ExportFails ==
    /\ InPhase("fetch", "replied")
    /\ Asks(handler["fetch"].op, ExportContents)
    /\ handler["fetch"].reply \notin Successful

\* An unresolved command is resolved by the alarm's replays alone, without the
\* client coming back (README: "replays unresolved tail operations after a
\* Container failure"), unless an import without a body is in the way or
\* clients repeat an export that fails for ever.
PendingIsResolved ==
    \A op \in Operations : IsPending(op) ~> Settled(op) \/ BodyIsMissing \/ ExportFails

\* A write a client was told is applied is on the Container's disk, or comes
\* back to it (ADR-025: the DO "restores the latest verified checkpoint, and
\* replays the pending tail"; "RPO 0 for acknowledged writes").
AcknowledgedWriteReturns ==
    \A op \in Operations :
        answers[op] \cap Successful # {} ~> op \in onDisk
=============================================================================
