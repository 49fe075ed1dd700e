---------------------------- MODULE TenantEngines ----------------------------
(***************************************************************************)
(* The native server's resident tenant actors                              *)
(* (rust/crates/celiums-memory-cli/src/server.rs): how a request finds or  *)
(* opens the engine of its tenant, the bounded queue in front of the       *)
(* actor thread that owns it, and the import of a checkpoint, which        *)
(* creates a tenant's directory behind the registry's back.                *)
(*                                                                         *)
(* A handler is a future: it can be dropped at every await (the client is  *)
(* gone), while the blocking task it awaits runs on.  An engine is named   *)
(* by the request that opened it.  Hyphae, which holds the directory, is   *)
(* external: its open may fail at any time, and its restore needs a        *)
(* directory that does not exist.                                          *)
(***************************************************************************)
EXTENDS Naturals, Sequences, FiniteSets

CONSTANTS
    Tenants,
    Reads, Writes,   \* requests executed by the actor, without and with effect
    Imports,         \* PUT /v1/checkpoints/import
    TenantOf,        \* the tenant each request is authenticated for
    NoRequest,
    QueueCapacity,   \* commands an actor's channel holds
    MaxEngines,      \* max_tenant_engines
    MaxDrops,        \* bound on handlers dropped by a disconnecting client
    MaxPanics        \* bound on actor threads that panic

Requests == Reads \cup Writes \cup Imports

ASSUME EnginesAssumption ==
    /\ Reads \cap Writes = {} /\ (Reads \cup Writes) \cap Imports = {}
    /\ TenantOf \in [Requests -> Tenants]
    /\ NoRequest \notin Requests
    /\ QueueCapacity \in Nat \ {0}
    /\ {MaxEngines, MaxDrops, MaxPanics} \subseteq Nat

VARIABLES
    phase,      \* where each request's handler is
    answer,     \* what its client was told
    using,      \* the engine whose sender the handler holds
    opening,    \* holder of the engine_opening lock
    engines,    \* the registry: the engine of each tenant
    engine,     \* life of the engine each request opened
    queue,      \* commands in the channel of each engine's actor
    executing,  \* the command each actor is in the middle of
    origin,     \* who made each tenant's directory: an open, an import, nobody
    applied,    \* writes the engines have carried out
    drops, panics

handlerVars == <<phase, answer, using>>
registryVars == <<opening, engines>>
actorVars == <<engine, queue, executing>>
bounds == <<drops, panics>>
vars == <<handlerVars, registryVars, actorVars, origin, applied, bounds>>

TypeOK ==
    /\ phase \in [Requests -> {"new", "locking", "opening", "sending", "waiting",
                               "receiving", "restoring", "verifying", "over"}]
    /\ answer \in [Requests -> {"none", "done", "failed", "unavailable", "conflict",
                                "restored"}]
    /\ using \in [Requests -> Requests \cup {NoRequest}]
    /\ opening \in Requests \cup {NoRequest}
    /\ engines \in [Tenants -> Requests \cup {NoRequest}]
    /\ engine \in [Requests -> {"none", "opening", "orphan", "actor", "dying", "closed"}]
    /\ queue \in [Requests -> Seq(Reads \cup Writes)]
    /\ \A e \in Requests : Len(queue[e]) <= QueueCapacity
    /\ executing \in [Requests -> Requests \cup {NoRequest}]
    /\ origin \in [Tenants -> Imports \cup {NoRequest, "open"}]
    /\ applied \subseteq Writes
    /\ drops \in 0..MaxDrops
    /\ panics \in 0..MaxPanics

Init ==
    /\ phase = [r \in Requests |-> "new"]
    /\ answer = [r \in Requests |-> "none"]
    /\ using = [r \in Requests |-> NoRequest]
    /\ opening = NoRequest
    /\ engines = [t \in Tenants |-> NoRequest]
    /\ engine = [r \in Requests |-> "none"]
    /\ queue = [r \in Requests |-> <<>>]
    /\ executing = [r \in Requests |-> NoRequest]
    /\ origin = [t \in Tenants |-> NoRequest]
    /\ applied = {}
    /\ drops = 0
    /\ panics = 0

Goes(r, next) == phase' = [phase EXCEPT ![r] = next] /\ UNCHANGED <<answer, using>>
Sends(r, e) ==
    /\ phase' = [phase EXCEPT ![r] = "sending"]
    /\ using' = [using EXCEPT ![r] = e]
    /\ UNCHANGED answer
Answers(r, what) ==
    /\ phase' = [phase EXCEPT ![r] = "over"]
    /\ answer' = [answer EXCEPT ![r] = what]
    /\ UNCHANGED using
EngineBecomes(r, state) == engine' = [engine EXCEPT ![r] = state]

\* registered_engine() drops the entries whose actor has closed its channel.
Registered ==
    [t \in Tenants |-> IF engines[t] # NoRequest /\ engine[engines[t]] = "closed"
                         THEN NoRequest ELSE engines[t]]
Found(r) == Registered[TenantOf[r]]
Resident == {t \in Tenants : Registered[t] # NoRequest}

-----------------------------------------------------------------------------
\* The handler of a read or a write, and tenant_engine().

Lookup(r) ==
    /\ phase[r] = "new"
    /\ r \notin Imports
    /\ engines' = Registered
    /\ IF Found(r) # NoRequest THEN Sends(r, Found(r)) ELSE Goes(r, "locking")
    /\ UNCHANGED <<opening, actorVars, origin, applied, bounds>>

\* A blocking task starts to open the engine.
StartsOpening(r) ==
    /\ opening' = r
    /\ Goes(r, "opening")
    /\ EngineBecomes(r, "opening")

\* Mutant: the registry is not looked at again once the lock is held.
AcquireUnchecked(r) ==
    /\ phase[r] = "locking"
    /\ opening = NoRequest
    /\ StartsOpening(r)
    /\ UNCHANGED <<engines, queue, executing, origin, applied, bounds>>

\* Under engine_opening the registry is looked at again; without an engine in
\* it there is either no room for another actor or one is opened.
Acquire(r) ==
    /\ phase[r] = "locking"
    /\ opening = NoRequest
    /\ engines' = Registered
    /\ \/ Found(r) # NoRequest /\ Sends(r, Found(r)) /\ UNCHANGED <<opening, engine>>
       \/ /\ Found(r) = NoRequest
          /\ Cardinality(Resident) >= MaxEngines
          /\ Answers(r, "unavailable")
          /\ UNCHANGED <<opening, engine>>
       \/ /\ Found(r) = NoRequest
          /\ Cardinality(Resident) < MaxEngines
          /\ StartsOpening(r)
    /\ UNCHANGED <<queue, executing, origin, applied, bounds>>

\* The blocking task makes sure that the directory exists.
OpenCreates(r) ==
    /\ engine[r] \in {"opening", "orphan"}
    /\ r \notin Imports
    /\ origin[TenantOf[r]] = NoRequest
    /\ origin' = [origin EXCEPT ![TenantOf[r]] = "open"]
    /\ UNCHANGED <<handlerVars, registryVars, actorVars, applied, bounds>>

\* The engine is open: its actor starts and is registered, the lock is free.
Opened(r) ==
    /\ phase[r] = "opening"
    /\ origin[TenantOf[r]] # NoRequest
    /\ EngineBecomes(r, "actor")
    /\ engines' = [engines EXCEPT ![TenantOf[r]] = r]
    /\ opening' = NoRequest
    /\ Sends(r, r)
    /\ UNCHANGED <<queue, executing, origin, applied, bounds>>

\* The directory, the engine or the thread cannot be had.
OpenFails(r) ==
    /\ phase[r] = "opening"
    /\ EngineBecomes(r, "closed")
    /\ opening' = NoRequest
    /\ Answers(r, "unavailable")
    /\ UNCHANGED <<engines, queue, executing, origin, applied, bounds>>

\* try_send to the engine the handler found, which may have closed or filled
\* its channel since.
Send(r) ==
    LET e == using[r] IN
    /\ phase[r] = "sending"
    /\ IF engine[e] \in {"actor", "dying"} /\ Len(queue[e]) < QueueCapacity
         THEN queue' = [queue EXCEPT ![e] = Append(@, r)] /\ Goes(r, "waiting")
         ELSE Answers(r, "unavailable") /\ UNCHANGED queue
    /\ UNCHANGED <<registryVars, engine, executing, origin, applied, bounds>>

\* Mutant: writes time out like reads.
AnyTimesOut(r) ==
    /\ phase[r] = "waiting"
    /\ Answers(r, "unavailable")
    /\ UNCHANGED <<registryVars, actorVars, origin, applied, bounds>>

\* A read waits 30 seconds for its answer, a write as long as it takes.
TimesOut(r) ==
    /\ phase[r] = "waiting"
    /\ r \in Reads
    /\ Answers(r, "unavailable")
    /\ UNCHANGED <<registryVars, actorVars, origin, applied, bounds>>

-----------------------------------------------------------------------------
\* The actor thread of engine e.

\* The next command; one whose handler is gone is discarded.
Take(e) ==
    /\ engine[e] = "actor"
    /\ executing[e] = NoRequest
    /\ queue[e] # <<>>
    /\ queue' = [queue EXCEPT ![e] = Tail(@)]
    /\ executing' = IF phase[Head(queue[e])] = "waiting"
                      THEN [executing EXCEPT ![e] = Head(queue[e])] ELSE executing
    /\ UNCHANGED <<handlerVars, registryVars, engine, origin, applied, bounds>>

\* The command is carried out and its handler, if it still waits, is told.
Execute(e) ==
    LET r == executing[e] IN
    /\ engine[e] = "actor"
    /\ r # NoRequest
    /\ executing' = [executing EXCEPT ![e] = NoRequest]
    /\ \E outcome \in {"done", "failed"} :
           /\ applied' = IF r \in Writes /\ outcome = "done" THEN applied \cup {r} ELSE applied
           /\ IF phase[r] = "waiting" THEN Answers(r, outcome) ELSE UNCHANGED handlerVars
    /\ UNCHANGED <<registryVars, engine, queue, origin, bounds>>

\* The thread panics.  It drops the command's sender, then the engine; the
\* channel still takes commands until its receiver is dropped too.
Panic(e) ==
    LET r == executing[e] IN
    /\ engine[e] = "actor"
    /\ r # NoRequest
    /\ panics < MaxPanics
    /\ panics' = panics + 1
    /\ EngineBecomes(e, "dying")
    /\ executing' = [executing EXCEPT ![e] = NoRequest]
    /\ applied' \in {applied, applied \cup ({r} \cap Writes)}
    /\ IF phase[r] = "waiting" THEN Answers(r, "unavailable") ELSE UNCHANGED handlerVars
    /\ UNCHANGED <<registryVars, queue, origin, drops>>

\* Mutant: the commands left in the channel keep their response senders.
ClosesQuietly(e) ==
    /\ engine[e] = "dying"
    /\ EngineBecomes(e, "closed")
    /\ queue' = [queue EXCEPT ![e] = <<>>]
    /\ UNCHANGED <<handlerVars, registryVars, executing, origin, applied, bounds>>

\* The receiver is dropped, and with it every command left in the channel.
Closes(e) ==
    LET left == {r \in Reads \cup Writes : phase[r] = "waiting" /\ using[r] = e} IN
    /\ engine[e] = "dying"
    /\ EngineBecomes(e, "closed")
    /\ queue' = [queue EXCEPT ![e] = <<>>]
    /\ phase' = [r \in Requests |-> IF r \in left THEN "over" ELSE phase[r]]
    /\ answer' = [r \in Requests |-> IF r \in left THEN "unavailable" ELSE answer[r]]
    /\ UNCHANGED <<using, registryVars, executing, origin, applied, bounds>>

-----------------------------------------------------------------------------
\* import_checkpoint(), which takes no lock and registers nothing.

ImportChecks(r) ==
    /\ phase[r] = "new"
    /\ r \in Imports
    /\ engines' = Registered
    /\ IF Found(r) # NoRequest \/ origin[TenantOf[r]] # NoRequest
         THEN Answers(r, "conflict") ELSE Goes(r, "receiving")
    /\ UNCHANGED <<opening, actorVars, origin, applied, bounds>>

\* The body has arrived and a blocking task restores it; or it is too large.
ImportReceives(r) ==
    /\ phase[r] = "receiving"
    /\ \/ Goes(r, "restoring") /\ EngineBecomes(r, "opening")
       \/ Answers(r, "failed") /\ UNCHANGED engine
    /\ UNCHANGED <<registryVars, queue, executing, origin, applied, bounds>>

\* The blocking task ends without an engine; its handler may be gone.
ImportFails(r) ==
    /\ EngineBecomes(r, "closed")
    /\ IF phase[r] \in {"restoring", "verifying"} THEN Answers(r, "failed")
                                                  ELSE UNCHANGED handlerVars

\* Mutant: the destination is not looked at again when the body has arrived.
RestoreOverwrites(r) ==
    /\ r \in Imports
    /\ engine[r] \in {"opening", "orphan"}
    /\ origin[TenantOf[r]] # r
    /\ origin' = [origin EXCEPT ![TenantOf[r]] = r]
    /\ IF phase[r] = "restoring" THEN Goes(r, "verifying") ELSE UNCHANGED handlerVars
    /\ UNCHANGED <<registryVars, actorVars, applied, bounds>>

\* The artifact becomes the tenant's directory, if there is none by now.
Restore(r) ==
    /\ r \in Imports
    /\ engine[r] \in {"opening", "orphan"}
    /\ \/ /\ origin[TenantOf[r]] = NoRequest
          /\ origin' = [origin EXCEPT ![TenantOf[r]] = r]
          /\ IF phase[r] = "restoring" THEN Goes(r, "verifying") ELSE UNCHANGED handlerVars
          /\ UNCHANGED engine
       \/ /\ origin[TenantOf[r]] # r
          /\ ImportFails(r)
          /\ UNCHANGED origin
    /\ UNCHANGED <<registryVars, queue, executing, applied, bounds>>

\* The restored directory is opened once and let go.
Verify(r) ==
    /\ r \in Imports
    /\ engine[r] \in {"opening", "orphan"}
    /\ origin[TenantOf[r]] = r
    /\ \/ /\ EngineBecomes(r, "closed")
          /\ IF phase[r] = "verifying" THEN Answers(r, "restored") ELSE UNCHANGED handlerVars
       \/ ImportFails(r)
    /\ UNCHANGED <<registryVars, queue, executing, origin, applied, bounds>>

-----------------------------------------------------------------------------
\* A handler is dropped at an await.  It lets go of the lock; the blocking task
\* it waited for goes on, and nobody will take what it opens.
Drop(r) ==
    /\ phase[r] \in {"locking", "opening", "waiting", "receiving", "restoring", "verifying"}
    /\ drops < MaxDrops
    /\ drops' = drops + 1
    /\ Goes(r, "over")
    /\ opening' = IF opening = r THEN NoRequest ELSE opening
    /\ engine' = IF engine[r] = "opening" THEN [engine EXCEPT ![r] = "orphan"] ELSE engine
    /\ UNCHANGED <<engines, queue, executing, origin, applied, panics>>

\* The blocking task of a dropped handler ends: its engine is closed.
OrphanEnds(r) ==
    /\ engine[r] = "orphan"
    /\ r \notin Imports
    /\ EngineBecomes(r, "closed")
    /\ UNCHANGED <<handlerVars, registryVars, queue, executing, origin, applied, bounds>>

HandlerStep(r) ==
    \/ Lookup(r) \/ Acquire(r) \/ Send(r) \/ TimesOut(r)
    \/ ImportChecks(r) \/ ImportReceives(r)
BlockingStep(r) ==
    OpenCreates(r) \/ Opened(r) \/ OpenFails(r) \/ Restore(r) \/ Verify(r) \/ OrphanEnds(r)
ActorStep(e) == Take(e) \/ Execute(e) \/ Closes(e)

Next == \E r \in Requests :
    HandlerStep(r) \/ BlockingStep(r) \/ ActorStep(r) \/ Panic(r) \/ Drop(r)

Spec == Init /\ [][Next]_vars

\* Tokio polls every ready handler and hands its mutex out in turn, blocking
\* tasks end, actors serve their channels.  A body need not arrive.
Fairness == \A r \in Requests :
    /\ WF_vars(Lookup(r) \/ Send(r) \/ ImportChecks(r))
    /\ SF_vars(Acquire(r))
    /\ WF_vars(Opened(r) \/ OpenFails(r))
    /\ WF_vars(Restore(r) \/ Verify(r))
    /\ WF_vars(ActorStep(r))

FairSpec == Spec /\ Fairness

-----------------------------------------------------------------------------
\* The engines whose actor has not let go of its directory.
Actors(t) == {e \in Requests : TenantOf[e] = t /\ engine[e] \in {"actor", "dying"}}

\* One actor per tenant, through races to open it, panics and reopenings
\* (ARCHITECTURE.md: "one actor and one opaque durable data path per tenant").
OneActorPerTenant == \A t \in Tenants : Cardinality(Actors(t)) <= 1

\* Resident actors stay within max_tenant_engines, which is checked long before
\* the actor it admits is registered (tenant_engine).
ActorsWithinLimit == Cardinality({t \in Tenants : Actors(t) # {}}) <= MaxEngines

\* As long as no handler is dropped, the requests open a tenant's directory in
\* one engine at a time: the lock covers the whole of an opening, and nobody
\* opens it again before a dead actor has let go of it (tenant_engine).
OneEnginePerDirectory ==
    drops = 0 =>
        \A t \in Tenants :
            Cardinality({e \in Reads \cup Writes : TenantOf[e] = t
                             /\ engine[e] \in {"opening", "orphan", "actor", "dying"}}) <= 1

\* All of it: one engine where there may be one, one actor for a tenant and no
\* more actors than the registry may hold.
RegistryIsSound == OneActorPerTenant /\ ActorsWithinLimit /\ OneEnginePerDirectory

\* A write answered 503 has not happened and never will, unless its actor died
\* (docs/EXECUTION.md: "without ambiguous write timeout").
RefusedWriteNeverHappens ==
    panics = 0 =>
        \A r \in Writes : answer[r] = "unavailable" =>
            /\ r \notin applied
            /\ \A e \in Requests : executing[e] # r /\ \A i \in DOMAIN queue[e] : queue[e][i] # r

\* An import never replaces a directory that an engine has written to, although
\* it looks for one long before it restores (import_checkpoint).
RestoreHidesNoWrite ==
    [][\A t \in Tenants : origin'[t] # origin[t] =>
          \A r \in applied : TenantOf[r] # t]_vars

\* Every read and write is answered, or its client has gone: whatever the lock,
\* the registry, the channel and the actor go through.
RequestsAreAnswered ==
    \A r \in Reads \cup Writes : phase[r] = "new" ~> phase[r] = "over"

\* An import that is refused leaves no generation behind (README: "restored only
\* into a new verified tenant generation").
RefusedImportLeavesNothing ==
    \A r \in Imports : answer[r] \in {"failed", "conflict"} => origin[TenantOf[r]] # r
=============================================================================
