--------------------------- MODULE DerivedMemories ---------------------------
(***************************************************************************)
(* The memories derived from source events and claims: episodes of turns,  *)
(* summaries of sessions, projects and periods, aggregates of claims; the  *)
(* runs that create them and are rolled back; and the forgetting of a      *)
(* source event (rust/crates/celiums-memory-engine/src/derived.rs;         *)
(* engine.rs: consolidate_turn() to verify_derived_lineage()).             *)
(*                                                                         *)
(* One actor owns the engine, so that its operations do not overlap, but a *)
(* rollback and a forget are many commits: a crash leaves any part of what *)
(* they had to write, in the order of the records' hashes.  A derived      *)
(* memory's id is a hash of its kind, scope, key, sources and period: the  *)
(* record of them stands for the id.  One version of the algorithms.       *)
(***************************************************************************)
EXTENDS Claims

CONSTANTS
    Periods,     \* the windows [from, to) that period summaries are asked for
    MaxDerived,  \* bound on the derived memories
    MaxFaults    \* bound on the operations that a crash interrupts

ASSUME DerivedAssumption ==
    /\ None \notin Periods
    /\ \A p \in Periods : p.from \in Times /\ p.to \in Times /\ p.from < p.to
    /\ MaxDerived \in Nat /\ MaxFaults \in Nat

VARIABLES
    derived,     \* the derived memories: status, root events, transaction time
    runs,        \* the consolidation runs: what each created, its plan's time, status
    aggregates,  \* the claim aggregates: status, value, evidence
    open,        \* events and runs whose forget or rollback was cut short
    faults

derivedVars == <<derived, runs, aggregates, open, faults>>
vars == <<claimVars, derivedVars>>

Statuses == {"active", "stale", "withdrawn", "rolled_back"}

MemoryRecords ==
    \A d \in DOMAIN derived :
        /\ d.kind \in {"episode", "session_summary", "project_summary", "period_summary"}
        /\ d.scope \in Scopes
        /\ d.period \in Periods \cup {None}
        /\ derived[d] \in [status : Statuses, roots : SUBSET Events, at : Times]

RunRecords ==
    \A r \in DOMAIN runs :
        runs[r] \in [created : SUBSET {r}, at : Times, status : {"committed", "rolled_back"}]

AggregateRecords ==
    \A a \in DOMAIN aggregates :
        /\ a.members \subseteq DOMAIN claims
        /\ aggregates[a].evidence \subseteq Events
        /\ aggregates[a].status \in {"active", "blocked", "withdrawn"}

TypeOK ==
    /\ ClaimsTypeOK
    /\ MemoryRecords /\ RunRecords /\ AggregateRecords
    /\ Cardinality(DOMAIN derived) <= MaxDerived
    /\ open \subseteq Events \cup DOMAIN runs
    /\ faults \in 0 .. MaxFaults

Init ==
    /\ ClaimsInit
    /\ derived = [d \in {} |-> None]
    /\ runs = [r \in {} |-> None]
    /\ aggregates = [a \in {} |-> None]
    /\ open = {}
    /\ faults = 0

Derived(kind, scope, key, sources, period) ==
    [kind |-> kind, scope |-> scope, key |-> key, sources |-> sources, period |-> period]

\* DerivedMemory::build()
Built(roots, at) == [status |-> "active", roots |-> roots, at |-> at]

Create(d, roots, at) ==
    /\ Cardinality(DOMAIN derived) < MaxDerived
    /\ derived' = With(derived, d, Built(roots, at))

WithStatus(ids, status) ==
    [d \in DOMAIN derived |->
        IF d \in ids THEN [derived[d] EXCEPT !.status = status] ELSE derived[d]]

Active == {d \in DOMAIN derived : derived[d].status = "active"}

-----------------------------------------------------------------------------
\* Consolidation.

TurnEvents(scope, turn) ==
    {e \in ingested : /\ Source[e].turn = turn
                      /\ IngestionVisible(e, scope)
                      /\ ~Forgotten(e, scope)}

\* build_turn_episode(): the artifact that the scope's events of a turn call for.
TurnEpisode(scope, turn) == Derived("episode", scope, turn, TurnEvents(scope, turn), None)

\* An event's id is not the id of an episode.
ASSUME IdsAssumption ==
    \A e \in Events, s \in Scopes, t \in Turns, set \in SUBSET Events :
        e # Derived("episode", s, t, set, None)

\* consolidate_turn(); an episode that is known is answered, whatever its status.
ConsolidateTurn(scope, turn) ==
    /\ TurnEvents(scope, turn) # {}
    /\ TurnEpisode(scope, turn) \notin DOMAIN derived
    /\ Create(TurnEpisode(scope, turn), TurnEvents(scope, turn), now)
    /\ UNCHANGED <<claimVars, runs, aggregates, open, faults>>

\* apply_consolidation() of a plan made at a time: the artifact that the plan
\* expects is still the one to build; the run and what it creates are one
\* commit.  The plan of a known run is answered or conflicts.
ApplyConsolidation(scope, turn, at) ==
    LET id == TurnEpisode(scope, turn) IN
    /\ TurnEvents(scope, turn) # {}
    /\ id \notin DOMAIN runs
    /\ runs' = With(runs, id,
           [created |-> {id} \ DOMAIN derived, at |-> at, status |-> "committed"])
    /\ IF id \in DOMAIN derived THEN UNCHANGED derived
       ELSE Create(id, TurnEvents(scope, turn), at)
    /\ UNCHANGED <<claimVars, aggregates, open, faults>>

\* Mutant: a source's status is not looked at.
SummarySourcesOfAnyStatus(kind, scope, period) ==
    {d \in DOMAIN derived :
        IF kind = "session_summary" THEN d.kind = "episode" /\ d.scope = scope
        ELSE d.kind = "session_summary" /\ d.scope.project = scope.project}

\* derived_memories_for_summary() and the filters that follow it.
SummarySources(kind, scope, period) ==
    {d \in Active :
        /\ IF kind = "session_summary" THEN d.kind = "episode" /\ d.scope = scope
           ELSE d.kind = "session_summary" /\ d.scope.project = scope.project
        /\ period # None => derived[d].at >= period.from /\ derived[d].at < period.to}

\* summary_target_scope()
TargetScope(kind, scope) ==
    IF kind = "session_summary" THEN scope ELSE [project |-> scope.project, session |-> None]

\* consolidate_summary(): the window is for period summaries and only for them.
ConsolidateSummary(kind, scope, period) ==
    LET sources == SummarySources(kind, scope, period)
        id == Derived(kind, TargetScope(kind, scope), None, sources, period)
    IN  /\ (kind = "period_summary") <=> (period # None)
        /\ sources # {}
        /\ id \notin DOMAIN derived
        /\ Create(id, UNION {derived[d].roots : d \in sources}, now)
        /\ UNCHANGED <<claimVars, runs, aggregates, open, faults>>

-----------------------------------------------------------------------------
\* Rollback of a run.

\* stale_derived_descendants(): the active memories built from the roots or
\* from what becomes stale.  Episodes have no derived source, summaries of
\* projects and periods none but summaries of sessions: two rounds reach all.
Descendants(roots, scope) ==
    LET Built1(ids) == {d \in Active : /\ d.kind # "episode"
                                     /\ Within(d.scope, scope)
                                     /\ d.sources \cap ids # {}}
        first == Built1(roots)
    IN  first \cup Built1(roots \cup first)

\* rollback_consolidation(); what the run created may be gone by now.  The
\* run's snapshot, taken before its commit, does not hold what it created.
RollbackConsolidation(run) ==
    /\ run \in DOMAIN runs
    /\ runs[run].status = "committed"
    /\ LET created == runs[run].created
           stale == Descendants(created, run.scope)
       IN  derived' = [d \in DOMAIN derived |->
               CASE d \in created -> [derived[d] EXCEPT !.status = "rolled_back"]
                 [] d \in stale -> [derived[d] EXCEPT !.status = "stale"]
                 [] OTHER -> derived[d]]
    /\ runs' = [runs EXCEPT ![run].status = "rolled_back"]
    /\ UNCHANGED <<claimVars, aggregates, open, faults>>

\* A crash after some of the commits: the run is committed still.
RollbackInterrupted(run, stale) ==
    /\ faults < MaxFaults
    /\ run \in DOMAIN runs
    /\ runs[run].status = "committed"
    /\ LET created == runs[run].created
       IN  /\ \A d \in stale : d.sources \cap (created \cup stale) # {}
           /\ derived' = [d \in DOMAIN derived |->
                  CASE d \in created -> [derived[d] EXCEPT !.status = "rolled_back"]
                    [] d \in stale -> [derived[d] EXCEPT !.status = "stale"]
                    [] OTHER -> derived[d]]
    /\ open' = open \cup {run}
    /\ faults' = faults + 1
    /\ UNCHANGED <<claimVars, runs, aggregates>>

-----------------------------------------------------------------------------
\* Aggregates of claims, and forgetting.

\* consolidate_claims() and refresh_claim_aggregate(): what the members say
\* on this evidence; the value is that of the first of them.
Aggregate(visible, members, evidence) ==
    LET supported == {c \in members : c.evidence \cap evidence # {}}
        status == IF supported = {} THEN "withdrawn"
                  ELSE IF Contradictory(visible, supported) THEN "blocked"
                  ELSE "active"
    IN  [evidence |-> evidence,
         status |-> status,
         value |-> IF status = "active" THEN (CHOOSE c \in supported : TRUE).value ELSE None]

ConsolidateClaims(scope, property) ==
    LET members == {c \in VisibleClaims(scope) : c.property = property}
        id == [scope |-> scope, members |-> members]
    IN  /\ members # {}
        /\ id \notin DOMAIN aggregates
        /\ aggregates' = With(aggregates, id,
               Aggregate(members, members, UNION {ActiveEvidence(c) : c \in members}))
        /\ UNCHANGED <<claimVars, derived, runs, open, faults>>

\* forgotten_source_reaches_derived()
ReachesDerived(marker, scope) ==
    marker.project = scope.project /\ scope.session \in {marker.session, None}

\* Mutant: session summaries and what is built from them are left alone.
ReachedEpisodes(e) == {d \in DOMAIN derived : e \in derived[d].roots /\ d.kind = "episode"}

ReachedMemories(e) ==
    {d \in DOMAIN derived : e \in derived[d].roots /\ ReachesDerived(MarkerScope(e), d.scope)}

\* Mutant: aggregates keep an event that is only retracted.
ErasedAggregates(e, mode) ==
    {a \in DOMAIN aggregates : mode = "erasure" /\ \E c \in a.members : e \in c.evidence}

ReachedAggregates(e, mode) ==
    {a \in DOMAIN aggregates :
        /\ Within(MarkerScope(e), a.scope)
        /\ \/ e \in aggregates[a].evidence
           \/ mode = "erasure" /\ \E c \in a.members : e \in c.evidence}

\* An erasure stays one.
Mode(e, mode) == IF forgotten[e] = "erasure" THEN "erasure" ELSE mode

\* forget_derived_source() as far as it has come in the memories and aggregates.
Propagate(e, mode, memories, sums) ==
    LET erased == Mode(e, mode) = "erasure" IN
    /\ UNCHANGED <<ingested, claims, links, now, runs>>
    /\ forgotten' = [forgotten EXCEPT ![e] = Mode(e, mode)]
    /\ derived' =
           [d \in DOMAIN derived \ (IF erased THEN memories ELSE {}) |->
               IF d \notin memories THEN derived[d]
               ELSE [derived[d] EXCEPT !.status =
                   IF \A root \in derived[d].roots : Forgotten(root, d.scope)'
                   THEN "withdrawn" ELSE "stale"]]
    /\ aggregates' =
           [a \in DOMAIN aggregates \ (IF erased THEN sums ELSE {}) |->
               IF a \notin sums THEN aggregates[a]
               ELSE Aggregate(VisibleClaims(a.scope)', a.members, aggregates[a].evidence \ {e})]

ForgetDerivedSource(e, scope, mode) ==
    /\ e \in ingested /\ IngestionVisible(e, scope)
    /\ Propagate(e, mode, ReachedMemories(e), ReachedAggregates(e, Mode(e, mode)))
    /\ open' = open \ {e}
    /\ UNCHANGED faults

\* A crash after the marker and some of the records; aggregates come last.
ForgetInterrupted(e, scope, mode, memories, sums) ==
    /\ faults < MaxFaults
    /\ e \in ingested /\ IngestionVisible(e, scope)
    /\ sums # {} => memories = ReachedMemories(e)
    /\ Propagate(e, mode, memories, sums)
    /\ open' = open \cup {e}
    /\ faults' = faults + 1

-----------------------------------------------------------------------------
\* Verification.

\* ingestion_visible_to_derived_hierarchy()
InHierarchy(e, scope) ==
    Source[e].kind = "global" \/ Source[e].scope.project = scope.project

\* An episode's sources are events and a summary's derived memories.
SourceFound(d, source, scope) ==
    IF d.kind = "episode" THEN source \in ingested /\ InHierarchy(source, scope)
    ELSE source \in DOMAIN derived /\ source.scope.project = scope.project

\* verify_derived_lineage(): the kinds of issues that a memory has.  Digests
\* and cycles are left out: an id is the hash of what its sources are.
LineageIssues(d, scope) ==
    LET found == {s \in d.sources : SourceFound(d, s, scope)}
        expected == IF d.kind = "episode" THEN found ELSE UNION {derived[s].roots : s \in found}
    IN  {kind \in {"missing_immediate_source", "inactive_immediate_source",
                   "root_closure_mismatch", "missing_root_event"} :
            CASE kind = "missing_immediate_source" -> found # d.sources
              [] kind = "inactive_immediate_source" ->
                     d.kind # "episode" /\ d \in Active /\ ~(found \subseteq Active)
              [] kind = "root_closure_mismatch" -> expected # derived[d].roots
              [] OTHER -> \E e \in derived[d].roots : e \notin ingested \/ ~InHierarchy(e, scope)}

Next ==
    \/ ClaimsNext /\ UNCHANGED derivedVars
    \/ \E s \in Scopes, t \in Turns :
           \/ ConsolidateTurn(s, t)
           \/ \E at \in 0 .. now : ApplyConsolidation(s, t, at)
    \/ \E k \in {"session_summary", "project_summary", "period_summary"},
          s \in Scopes, p \in Periods \cup {None} : ConsolidateSummary(k, s, p)
    \/ \E r \in DOMAIN runs :
           \/ RollbackConsolidation(r)
           \/ \E stale \in SUBSET Descendants(runs[r].created, r.scope) :
                  RollbackInterrupted(r, stale)
    \/ \E c \in Candidates : ConsolidateClaims(c.scope, c.property)
    \/ \E e \in Events, s \in Scopes, mode \in {"retraction", "erasure"} :
           \/ ForgetDerivedSource(e, s, mode)
           \/ \E memories \in SUBSET ReachedMemories(e),
                 sums \in SUBSET ReachedAggregates(e, Mode(e, mode)) :
                  ForgetInterrupted(e, s, mode, memories, sums)

Spec == Init /\ [][Next]_vars

-----------------------------------------------------------------------------
\* Properties.

ForgetIsAnswered(e) == forgotten[e] # None /\ e \notin open

\* Once forget_derived_source() has answered for an event, no active memory is
\* rooted in it, however it came about and whatever is consolidated later, and
\* after an erasure no memory at all: "Durable forget markers prevent
\* reconsolidation, mark every descendant stale or withdrawn"
\* (rust/README.md:279).
ForgottenIsInactive ==
    \A e \in Events : ForgetIsAnswered(e) =>
        \A d \in DOMAIN derived : e \in derived[d].roots =>
            derived[d].status # "active" /\ forgotten[e] # "erasure"

\* The same of the events whose visibility is one session: their marker
\* reaches the episodes and the summaries of that session and of its project.
SessionEventIsForgotten ==
    \A e \in Events : ForgetIsAnswered(e) /\ Source[e].kind = "session" =>
        \A d \in DOMAIN derived : e \in derived[d].roots =>
            derived[d].status # "active" /\ forgotten[e] # "erasure"

\* Between operations that a crash did not cut short, verify_derived_lineage()
\* has nothing to report on the memories of a project: consolidation, rollback
\* and forgetting in whatever order leave no active memory on a source that is
\* gone or no longer active, and keep the roots of each the union of its sources'.
LineageVerifies ==
    open = {} => \A scope \in Scopes : \A d \in DOMAIN derived :
        d.scope.project = scope.project => LineageIssues(d, scope) = {}

\* An active aggregate rests on evidence none of which is forgotten, and says
\* what one of its members with such evidence says, unless a forget that a
\* crash cut short is still to be repeated.
AggregatesAreSupported ==
    open = {} => \A a \in DOMAIN aggregates : aggregates[a].status = "active" =>
        /\ \A e \in aggregates[a].evidence : ~Forgotten(e, a.scope)
        /\ \E c \in a.members : /\ c.value = aggregates[a].value
                                /\ c.evidence \cap aggregates[a].evidence # {}
=============================================================================
