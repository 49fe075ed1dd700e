------------------------------- MODULE Claims -------------------------------
(***************************************************************************)
(* Atomic claims about a tenant's source events, and the links by which a  *)
(* later claim changes how an earlier one is read                          *)
(* (rust/crates/celiums-memory-engine/src/claim.rs; engine.rs:             *)
(* create_claim(), supersede_claim() and the queries beside them).         *)
(*                                                                         *)
(* A claim's id is a hash of everything it says and rests on, so a claim   *)
(* stands here for its own id; its confidence is left out.  One tenant and *)
(* one user; a scope is a project and a session.  Transaction times are    *)
(* those of a clock that does not run backwards.                           *)
(***************************************************************************)
EXTENDS Integers, FiniteSets

CONSTANTS
    None,
    Scopes,      \* the scopes of requests: [project, session], either None
    Events,      \* source events
    Source,      \* of each event: its visibility kind, its scope and its turn
    Turns,
    Candidates,  \* the claims that clients may make
    MaxTime,     \* bound of the clock
    MaxLinks     \* bound on the links

Kinds == {"global", "project", "session"}
Times == 0 .. MaxTime

\* CreateClaimRequest::validate(): some evidence, and a validity that is not
\* empty; all that ClaimId::derive() hashes.  Evidence that does not support the
\* claim refutes or qualifies it, and is told from the rest by recall alone.
WellFormed(c) ==
    /\ DOMAIN c = {"scope", "property", "value", "from", "to", "evidence", "supports"}
    /\ c.scope \in Scopes
    /\ c.evidence \in SUBSET Events /\ c.evidence # {}
    /\ c.supports \subseteq c.evidence
    /\ {c.from, c.to} \subseteq Int \cup {None}
    /\ c.from # None /\ c.to # None => c.from < c.to

\* What ClaimSupersession::from_request() hashes into a link's id.
Links == [original : Candidates, successor : Candidates \cup {None},
          relation : {"supersedes", "recants", "qualifies", "reaffirms"}, effective : Times]

ASSUME ClaimsAssumption ==
    /\ MaxTime \in Nat /\ MaxLinks \in Nat
    /\ Source \in [Events -> [kind : Kinds, scope : Scopes, turn : Turns]]
    /\ None \notin Candidates /\ None \notin {"retraction", "erasure"}
    /\ \A c \in Candidates : WellFormed(c)

VARIABLES
    ingested,    \* the events in the ingestion ledger
    forgotten,   \* per event, how it was forgotten, or None
    claims,      \* the claims, each with its transaction time
    links,       \* the supersession links, each with its transaction time
    now          \* the clock

claimVars == <<ingested, forgotten, claims, links, now>>

With(f, x, y) == [z \in DOMAIN f \cup {x} |-> IF z = x THEN y ELSE f[z]]

\* What is stored of a claim beside what its id hashes: the transaction time.
ClaimRecords == DOMAIN claims \subseteq Candidates /\ \A c \in DOMAIN claims : claims[c] \in 0 .. now

LinkRecords == DOMAIN links \subseteq Links /\ \A l \in DOMAIN links : links[l] \in 0 .. now

\* A marker is of an event, not of its payload.
MarkerRecords == forgotten \in [Events -> {"retraction", "erasure", None}]

ClaimsTypeOK ==
    /\ ingested \subseteq Events
    /\ now \in Times
    /\ MarkerRecords /\ ClaimRecords /\ LinkRecords

ClaimsInit ==
    /\ ingested \in SUBSET Events
    /\ forgotten = [e \in Events |-> None]
    /\ claims = [c \in {} |-> 0]
    /\ links = [l \in {} |-> 0]
    /\ now = 0

-----------------------------------------------------------------------------
\* What a scope sees.

\* ingestion_visible_to()
IngestionVisible(e, scope) ==
    CASE Source[e].kind = "global" -> TRUE
      [] Source[e].kind = "project" -> Source[e].scope.project = scope.project
      [] OTHER -> Source[e].scope = scope

\* forgotten_source_scope(): the scope that the event's forget marker is kept under.
MarkerScope(e) ==
    [project |-> IF Source[e].kind = "global" THEN None ELSE Source[e].scope.project,
     session |-> IF Source[e].kind = "session" THEN Source[e].scope.session ELSE None]

\* ingestion_scope_visible_to() and derived_visible_to()
Within(owner, scope) ==
    /\ owner.project \in {None, scope.project}
    /\ owner.session \in {None, scope.session}

\* is_derived_source_forgotten()
Forgotten(e, scope) == forgotten[e] # None /\ Within(MarkerScope(e), scope)

ActiveEvidence(c) == {e \in c.evidence : ~Forgotten(e, c.scope)}

\* A claim is visible in exactly the scope it was made in, while it has evidence.
VisibleClaims(scope) == {c \in DOMAIN claims : c.scope = scope /\ ActiveEvidence(c) # {}}

ValidAt(c, time) ==
    /\ c.from = None \/ c.from <= time
    /\ c.to = None \/ time < c.to

\* validity_overlap() of two half-open intervals.
Overlap(c, d) ==
    /\ c.from = None \/ d.to = None \/ c.from < d.to
    /\ d.from = None \/ c.to = None \/ d.from < c.to

Contradict(c, d) == c.property = d.property /\ c.value # d.value /\ Overlap(c, d)

\* claim_contradictions(), given the claims that the scope sees.
Contradictory(visible, members) ==
    \E c, d \in members \cap visible : Contradict(c, d)

\* A query is [scope, property, valid, known].
ClaimsAt(query) ==
    {c \in VisibleClaims(query.scope) :
        c.property = query.property /\ claims[c] <= query.known /\ ValidAt(c, query.valid)}

\* Mutant: a link counts before it was recorded.
RetiresAtOnce(link, query) ==
    link.relation \in {"supersedes", "recants"} /\ link.effective <= query.valid

Retires(link, query) ==
    /\ link.relation \in {"supersedes", "recants"}
    /\ link.effective <= query.valid
    /\ links[link] <= query.known

\* latest_claims(): the heads, conflicts included.
LatestClaims(query) ==
    {c \in ClaimsAt(query) :
        ~\E l \in DOMAIN links : l.original = c /\ Retires(l, query)}

-----------------------------------------------------------------------------
\* Links.

\* The pairs that claim_reaches() follows: links whose original the scope sees.
Edges(scope) ==
    {<<l.original, l.successor>> :
        l \in {k \in DOMAIN links : k.original.scope = scope /\ k.successor # None}}

\* Mutant: the links are followed against their direction.
ReachedBy(start, target, scope) ==
    \A set \in SUBSET Candidates :
        /\ start \in set
        /\ \A edge \in Edges(scope) : edge[2] \in set => edge[1] \in set
        => target \in set

\* claim_reaches(): no set that holds start and what its members lead to
\* leaves out the target.
Reaches(start, target, scope) ==
    \A set \in SUBSET Candidates :
        /\ start \in set
        /\ \A edge \in Edges(scope) : edge[1] \in set => edge[2] \in set
        => target \in set

-----------------------------------------------------------------------------
\* Operations.

IngestEvent(e) ==
    /\ e \notin ingested
    /\ ingested' = ingested \cup {e}
    /\ UNCHANGED <<forgotten, claims, links, now>>

\* create_claim(); a claim that is known is answered as it is, or conflicts.
CreateClaim(c) ==
    /\ c \notin DOMAIN claims
    /\ \A e \in c.evidence :
           e \in ingested /\ IngestionVisible(e, c.scope) /\ ~Forgotten(e, c.scope)
    /\ claims' = With(claims, c, now)
    /\ UNCHANGED <<ingested, forgotten, links, now>>

\* supersede_claim().  A successor that the scope does not see is let through
\* by a recantation, unchecked.
SupersedeClaim(link) ==
    LET scope == link.original.scope
        seen == link.successor \in DOMAIN claims /\ link.successor.scope = scope
    IN  /\ link \notin DOMAIN links
        /\ Cardinality(DOMAIN links) < MaxLinks
        /\ link.original \in DOMAIN claims
        /\ link.relation = "recants" \/ seen
        /\ seen => /\ link.original.property = link.successor.property
                   /\ ~Reaches(link.successor, link.original, scope)
        /\ links' = With(links, link, now)
        /\ UNCHANGED <<ingested, forgotten, claims, now>>

Tick ==
    /\ now < MaxTime
    /\ now' = now + 1
    /\ UNCHANGED <<ingested, forgotten, claims, links>>

ClaimsNext ==
    \/ \E e \in Events : IngestEvent(e)
    \/ \E c \in Candidates : CreateClaim(c)
    \/ \E l \in Links : SupersedeClaim(l)
    \/ Tick

-----------------------------------------------------------------------------
\* Properties.

Queries == [scope : Scopes, property : {c.property : c \in Candidates},
            valid : Times, known : Times]

\* Within a scope, the links that supersede_claim() accepts never lead from a
\* claim back to itself: every group of claims has one that leads out of it,
\* so that a property always has a head to read.
SupersessionsAcyclic ==
    \A scope \in Scopes : \A set \in SUBSET Candidates :
        set # {} => \E c \in set : \A d \in set : <<c, d>> \notin Edges(scope)

\* What was known at a time that has passed changes only by forgetting: an
\* answer of latest_claims() loses the claims whose evidence is all forgotten,
\* and neither a new claim nor a new link rewrites it.
PastOnlyLosesForgotten ==
    [][\A query \in Queries :
           query.known < now =>
               LatestClaims(query)' = {c \in LatestClaims(query) : ActiveEvidence(c)' # {}}]_claimVars
=============================================================================
