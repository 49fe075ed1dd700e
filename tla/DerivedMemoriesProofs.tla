------------------------ MODULE DerivedMemoriesProofs ------------------------
(***************************************************************************)
(* Proofs about claims and what is derived from them, for every set of     *)
(* events, candidates and scopes and any number of interruptions.          *)
(*                                                                         *)
(* Claims come first: their transaction times lie in the past and a link   *)
(* is of a claim that is recorded, from which follow what a past answer    *)
(* may lose and that no claim supersedes itself.  Then derived memories:   *)
(* the marker of a session's event reaches all that is rooted in it; an    *)
(* aggregate rests on evidence that is not forgotten; and a lineage holds  *)
(* together, where a forget or a rollback is not still to be repeated.     *)
(***************************************************************************)
EXTENDS DerivedMemories, TLAPS

-----------------------------------------------------------------------------
\* What a step does to the claims.

\* The marker that forget_derived_source() writes first.
MarkForgotten(e, mode) ==
    /\ UNCHANGED <<ingested, claims, links, now>>
    /\ forgotten' = [forgotten EXCEPT ![e] = Mode(e, mode)]

Modes == {"retraction", "erasure"}

\* Only the claims' own operations and markers change anything of the claims.
LEMMA StepsOnClaims ==
    ASSUME [Next]_vars
    PROVE  \/ ClaimsNext
           \/ UNCHANGED claimVars
           \/ \E e \in Events, mode \in Modes : MarkForgotten(e, mode)
<1>1. CASE ClaimsNext
    BY <1>1
<1>2. CASE UNCHANGED vars
    BY <1>2 DEF vars
<1>3. ASSUME NEW s \in Scopes, NEW t \in Turns, ConsolidateTurn(s, t)
      PROVE  UNCHANGED claimVars
    BY <1>3 DEF ConsolidateTurn
<1>4. ASSUME NEW s \in Scopes, NEW t \in Turns, NEW at \in 0 .. now, ApplyConsolidation(s, t, at)
      PROVE  UNCHANGED claimVars
    BY <1>4 DEF ApplyConsolidation
<1>5. ASSUME NEW k, NEW s \in Scopes, NEW p \in Periods \cup {None}, ConsolidateSummary(k, s, p)
      PROVE  UNCHANGED claimVars
    BY <1>5 DEF ConsolidateSummary
<1>6. ASSUME NEW r \in DOMAIN runs, RollbackConsolidation(r)
      PROVE  UNCHANGED claimVars
    BY <1>6 DEF RollbackConsolidation
<1>7. ASSUME NEW r \in DOMAIN runs, NEW stale, RollbackInterrupted(r, stale)
      PROVE  UNCHANGED claimVars
    BY <1>7 DEF RollbackInterrupted
<1>8. ASSUME NEW c \in Candidates, ConsolidateClaims(c.scope, c.property)
      PROVE  UNCHANGED claimVars
    BY <1>8 DEF ConsolidateClaims
<1>9. ASSUME NEW e \in Events, NEW s \in Scopes, NEW mode \in Modes,
             ForgetDerivedSource(e, s, mode)
      PROVE  MarkForgotten(e, mode)
    BY <1>9 DEF ForgetDerivedSource, Propagate, MarkForgotten
<1>10. ASSUME NEW e \in Events, NEW s \in Scopes, NEW mode \in Modes, NEW memories, NEW sums,
              ForgetInterrupted(e, s, mode, memories, sums)
       PROVE  MarkForgotten(e, mode)
    BY <1>10 DEF ForgetInterrupted, Propagate, MarkForgotten
<1> QED
    BY <1>1, <1>2, <1>3, <1>4, <1>5, <1>6, <1>7, <1>8, <1>9, <1>10 DEF Next, Modes

-----------------------------------------------------------------------------
\* Claims and links are recorded at times that have passed, links of claims
\* that are recorded.

LinksHaveOriginals == \A l \in DOMAIN links : l.original \in DOMAIN claims

ClaimsInv == ClaimsTypeOK /\ LinksHaveOriginals

\* A tenant begins without claims.
LEMMA InitEstablishesClaimsInv == ClaimsInit => ClaimsInv
    BY ClaimsAssumption
       DEF ClaimsInit, ClaimsInv, ClaimsTypeOK, LinksHaveOriginals, MarkerRecords, ClaimRecords,
           LinkRecords, Times

\* create_claim() records a claim at the present time.
LEMMA CreateClaimKeepsClaims ==
    ASSUME ClaimsInv, NEW c \in Candidates, CreateClaim(c)
    PROVE  ClaimsInv'
<1> USE DEF CreateClaim
<1>1. /\ DOMAIN claims' = DOMAIN claims \cup {c}
      /\ claims'[c] = now
      /\ \A d \in DOMAIN claims : claims'[d] = claims[d]
    BY DEF With
<1>2. now \in Nat
    BY ClaimsAssumption DEF ClaimsInv, ClaimsTypeOK, Times
<1>3. ClaimRecords'
    BY <1>1, <1>2 DEF ClaimsInv, ClaimsTypeOK, ClaimRecords
<1>4. LinksHaveOriginals'
    BY <1>1 DEF ClaimsInv, LinksHaveOriginals
<1> QED
    BY <1>3, <1>4 DEF ClaimsInv, ClaimsTypeOK, MarkerRecords, LinkRecords

\* supersede_claim() records a link of a claim that it has looked up.
LEMMA SupersedeClaimKeepsClaims ==
    ASSUME ClaimsInv, NEW l \in Links, SupersedeClaim(l)
    PROVE  ClaimsInv'
<1> USE DEF SupersedeClaim
<1>1. /\ DOMAIN links' = DOMAIN links \cup {l}
      /\ links'[l] = now
      /\ \A k \in DOMAIN links : links'[k] = links[k]
    BY DEF With
<1>2. now \in Nat
    BY ClaimsAssumption DEF ClaimsInv, ClaimsTypeOK, Times
<1>3. LinkRecords'
    BY <1>1, <1>2 DEF ClaimsInv, ClaimsTypeOK, LinkRecords
<1>4. LinksHaveOriginals'
    BY <1>1 DEF ClaimsInv, LinksHaveOriginals
<1> QED
    BY <1>3, <1>4 DEF ClaimsInv, ClaimsTypeOK, MarkerRecords, ClaimRecords

\* Every other step leaves claims and links as they are, and the clock or later.
LEMMA NextPreservesClaimsInv == ClaimsInv /\ [Next]_vars => ClaimsInv'
<1> SUFFICES ASSUME ClaimsInv, [Next]_vars PROVE ClaimsInv'
    OBVIOUS
<1> USE DEF ClaimsInv, ClaimsTypeOK, LinksHaveOriginals, MarkerRecords, ClaimRecords, LinkRecords
<1>1. ASSUME NEW e \in Events, IngestEvent(e) PROVE ClaimsInv'
    BY <1>1 DEF IngestEvent
<1>2. CASE Tick
  <2>1. now \in Nat /\ now' = now + 1 /\ now' \in Times
      BY <1>2, ClaimsAssumption DEF Tick, Times
  <2> QED
      BY <1>2, <2>1 DEF Tick
<1>3. CASE UNCHANGED claimVars
    BY <1>3 DEF claimVars
<1>4. ASSUME NEW e \in Events, NEW mode \in Modes, MarkForgotten(e, mode) PROVE ClaimsInv'
  <2>1. Mode(e, mode) \in Modes
      BY DEF Mode, Modes
  <2> QED
      BY <1>4, <2>1 DEF MarkForgotten, Modes
<1>5. CASE ClaimsNext
    BY <1>1, <1>2, <1>5, CreateClaimKeepsClaims, SupersedeClaimKeepsClaims DEF ClaimsNext
<1> QED
    BY <1>3, <1>4, <1>5, StepsOnClaims

\* The claims' part of the type invariant, and that links are of recorded claims
\* (create_claim, supersede_claim, forget_derived_source).
THEOREM ClaimsInvariant == Spec => []ClaimsInv
<1>1. Init => ClaimsInv
    BY InitEstablishesClaimsInv DEF Init
<1>2. ClaimsInv /\ [Next]_vars => ClaimsInv'
    BY NextPreservesClaimsInv
<1> QED
    BY <1>1, <1>2, PTL DEF Spec

-----------------------------------------------------------------------------
\* Supersession does not go in circles.

\* In a finite graph without cycles this holds of every set of its vertices.
HasLast(E) ==
    \A set \in SUBSET Candidates :
        set # {} => \E c \in set : \A d \in set : <<c, d>> \notin E

\* An edge from o to s closes no cycle when some set holds s, is closed under
\* the edges and leaves o out.
LEMMA EdgeKeepsLast ==
    ASSUME NEW E, NEW F, NEW o, NEW s, HasLast(E),
           \A c, d : <<c, d>> \in F => <<c, d>> \in E \/ (c = o /\ d = s),
           NEW R \in SUBSET Candidates, s \in R, o \notin R,
           \A c, d : c \in R /\ <<c, d>> \in E /\ d \in Candidates => d \in R
    PROVE  HasLast(F)
<1> SUFFICES ASSUME NEW S \in SUBSET Candidates, S # {},
                    \A c \in S : \E d \in S : <<c, d>> \in F
             PROVE  FALSE
    BY DEF HasLast
<1>1. CASE S \cap R = {}
  <2>1. PICK c \in S : \A d \in S : <<c, d>> \notin E
      BY DEF HasLast
  <2>2. PICK d \in S : <<c, d>> \in F
      OBVIOUS
  <2> QED
      BY <1>1, <2>1, <2>2
<1>2. CASE S \cap R # {}
  <2>1. S \cap R \in SUBSET Candidates
      OBVIOUS
  <2>2. PICK c \in S \cap R : \A d \in S \cap R : <<c, d>> \notin E
      BY <1>2, <2>1 DEF HasLast
  <2>3. PICK d \in S : <<c, d>> \in F
      BY <2>2
  <2> QED
      BY <2>2, <2>3
<1> QED
    BY <1>1, <1>2

\* What a set of links contributes to the edges of a scope.
LEMMA EdgesAre ==
    ASSUME NEW scope, NEW c, NEW d
    PROVE  <<c, d>> \in Edges(scope) <=>
               \E l \in DOMAIN links : /\ l.original = c /\ l.successor = d
                                       /\ c.scope = scope /\ d # None
    BY DEF Edges

\* supersede_claim() looks for a path back before it records a link; a successor
\* that it does not look up leads nowhere.
LEMMA SupersedeClaimKeepsAcyclic ==
    ASSUME ClaimsInv, SupersessionsAcyclic, NEW l \in Links, SupersedeClaim(l)
    PROVE  SupersessionsAcyclic'
<1> DEFINE o == l.original
           s == l.successor
           seen == s \in DOMAIN claims /\ s.scope = o.scope
<1>1. /\ DOMAIN links' = DOMAIN links \cup {l}
      /\ o \in DOMAIN claims /\ o \in Candidates
      /\ seen => ~Reaches(s, o, o.scope)
      /\ DOMAIN claims \subseteq Candidates
    BY DEF SupersedeClaim, With, ClaimsInv, ClaimsTypeOK, ClaimRecords, Links
<1>2. s \in Candidates \cup {None}
    BY DEF Links
<1> SUFFICES ASSUME NEW scope \in Scopes PROVE HasLast(Edges(scope)')
    BY DEF SupersessionsAcyclic, HasLast
<1>3. HasLast(Edges(scope))
    BY DEF SupersessionsAcyclic, HasLast
<1>4. ASSUME NEW c, NEW d, <<c, d>> \in Edges(scope)'
      PROVE  <<c, d>> \in Edges(scope) \/ (c = o /\ d = s /\ o.scope = scope /\ s # None)
    BY <1>1, <1>4 DEF Edges
<1>5. CASE o.scope # scope \/ s = None
  <2>1. \A c, d : <<c, d>> \notin Edges(scope) => <<c, d>> \notin Edges(scope)'
      BY <1>4, <1>5
  <2> SUFFICES ASSUME NEW set \in SUBSET Candidates, set # {}
               PROVE  \E c \in set : \A d \in set : <<c, d>> \notin Edges(scope)'
      BY DEF HasLast
  <2>2. PICK c \in set : \A d \in set : <<c, d>> \notin Edges(scope)
      BY <1>3 DEF HasLast
  <2> QED
      BY <2>1, <2>2
<1>6. CASE o.scope = scope /\ s # None /\ seen
  <2>1. PICK R \in SUBSET Candidates :
            /\ s \in R
            /\ \A edge \in Edges(scope) : edge[1] \in R => edge[2] \in R
            /\ o \notin R
      BY <1>1, <1>6 DEF Reaches
  <2>2. \A c, d : c \in R /\ <<c, d>> \in Edges(scope) /\ d \in Candidates => d \in R
      BY <2>1
  <2>3. \A c, d : <<c, d>> \in Edges(scope)' => <<c, d>> \in Edges(scope) \/ (c = o /\ d = s)
      BY <1>4
  <2> QED
      BY <1>3, <2>1, <2>2, <2>3, EdgeKeepsLast
<1>7. CASE o.scope = scope /\ s # None /\ ~seen
  <2>1. \A d : <<s, d>> \notin Edges(scope)
      BY <1>7, EdgesAre DEF ClaimsInv, LinksHaveOriginals
  <2>2. o # s /\ {s} \in SUBSET Candidates
      BY <1>1, <1>2, <1>7
  <2>3. PICK R \in SUBSET Candidates : R = {s}
      BY <2>2
  <2>4. \A c, d : c \in R /\ <<c, d>> \in Edges(scope) /\ d \in Candidates => d \in R
      BY <2>1, <2>3
  <2>5. s \in R /\ o \notin R
      BY <2>2, <2>3
  <2>6. \A c, d : <<c, d>> \in Edges(scope)' => <<c, d>> \in Edges(scope) \/ (c = o /\ d = s)
      BY <1>4
  <2> QED
      BY <1>3, <2>4, <2>5, <2>6, EdgeKeepsLast
<1> QED
    BY <1>5, <1>6, <1>7

\* Within a scope, the links that supersede_claim() accepts never lead from a
\* claim back to itself, so that a property always has a head to read.
THEOREM LinksAreAcyclic == Spec => []SupersessionsAcyclic
<1>1. Init => SupersessionsAcyclic
    BY DEF Init, ClaimsInit, SupersessionsAcyclic, Edges
<1>2. ClaimsInv /\ SupersessionsAcyclic /\ [Next]_vars => SupersessionsAcyclic'
  <2> SUFFICES ASSUME ClaimsInv, SupersessionsAcyclic, [Next]_vars PROVE SupersessionsAcyclic'
      OBVIOUS
  <2>1. ASSUME UNCHANGED links PROVE SupersessionsAcyclic'
      BY <2>1 DEF SupersessionsAcyclic, Edges
  <2>2. ASSUME ClaimsNext PROVE SupersessionsAcyclic'
      BY <2>1, <2>2, SupersedeClaimKeepsAcyclic DEF ClaimsNext, IngestEvent, CreateClaim, Tick
  <2> QED
      BY <2>1, <2>2, StepsOnClaims DEF claimVars, MarkForgotten
<1> QED
    BY <1>1, <1>2, ClaimsInvariant, PTL DEF Spec

-----------------------------------------------------------------------------
\* What was known stays known.

\* A step that adds claims and links of the present only, and takes no marker back.
AddsToThePresent ==
    /\ DOMAIN claims \subseteq DOMAIN claims' /\ DOMAIN links \subseteq DOMAIN links'
    /\ \A c \in DOMAIN claims : claims'[c] = claims[c]
    /\ \A l \in DOMAIN links : links'[l] = links[l]
    /\ \A c \in DOMAIN claims' \ DOMAIN claims : claims'[c] = now
    /\ \A l \in DOMAIN links' \ DOMAIN links : links'[l] = now
    /\ \A e : forgotten[e] # None => forgotten'[e] # None

LEMMA StepsAddToThePresent == ClaimsInv /\ [Next]_vars => AddsToThePresent
<1> SUFFICES ASSUME ClaimsInv, [Next]_vars PROVE AddsToThePresent
    OBVIOUS
<1>1. CASE ClaimsNext
    BY <1>1 DEF ClaimsNext, IngestEvent, CreateClaim, SupersedeClaim, Tick, With, AddsToThePresent
<1>2. CASE UNCHANGED claimVars
    BY <1>2 DEF claimVars, AddsToThePresent
<1>3. ASSUME NEW e \in Events, NEW mode \in Modes, MarkForgotten(e, mode) PROVE AddsToThePresent
  <2>1. Mode(e, mode) # None
      BY ClaimsAssumption DEF Mode, Modes
  <2> QED
      BY <1>3, <2>1 DEF MarkForgotten, AddsToThePresent, ClaimsInv, ClaimsTypeOK, MarkerRecords
<1> QED
    BY <1>1, <1>2, <1>3, StepsOnClaims

\* Such a step changes the answers about the past by what it forgets, and only by that.
LEMMA PastAnswers ==
    ASSUME ClaimsInv, AddsToThePresent, NEW query \in Queries, query.known < now
    PROVE  LatestClaims(query)' = {c \in LatestClaims(query) : ActiveEvidence(c)' # {}}
<1> USE DEF AddsToThePresent
<1>1. now \in Nat /\ query.known \in Nat
    BY ClaimsAssumption DEF ClaimsInv, ClaimsTypeOK, Times, Queries
<1>2. \A l, valid : Retires(l, query)' /\ l \in DOMAIN links' => l \in DOMAIN links /\ Retires(l, query)
    BY <1>1 DEF Retires
<1>3. \A l \in DOMAIN links : Retires(l, query) => l \in DOMAIN links' /\ Retires(l, query)'
    BY DEF Retires
<1>4. \A c : ActiveEvidence(c)' \subseteq ActiveEvidence(c)
    BY DEF ActiveEvidence, Forgotten
<1>5. ASSUME NEW c, c \in ClaimsAt(query)'
      PROVE  c \in ClaimsAt(query) /\ ActiveEvidence(c)' # {}
    BY <1>1, <1>4, <1>5 DEF ClaimsAt, VisibleClaims
<1>6. ASSUME NEW c, c \in ClaimsAt(query), ActiveEvidence(c)' # {}
      PROVE  c \in ClaimsAt(query)'
    BY <1>6 DEF ClaimsAt, VisibleClaims
<1> QED
    BY <1>2, <1>3, <1>5, <1>6 DEF LatestClaims

\* What was known at a time that has passed changes only by forgetting
\* (latest_claims() after create_claim(), supersede_claim(), forget_derived_source()).
THEOREM PastIsKept == Spec => PastOnlyLosesForgotten
<1>1. ClaimsInv /\ [Next]_vars =>
          [\A query \in Queries : query.known < now =>
               LatestClaims(query)' = {c \in LatestClaims(query) : ActiveEvidence(c)' # {}}]_claimVars
    BY StepsAddToThePresent, PastAnswers
<1> QED
    BY <1>1, ClaimsInvariant, PTL DEF Spec, PastOnlyLosesForgotten

-----------------------------------------------------------------------------
\* Forgetting reaches what a session's events have become.

MemoriesTyped ==
    \A d \in DOMAIN derived : derived[d] \in [status : Statuses, roots : SUBSET Events, at : Times]

\* A memory rooted in an event of one session is of that session or of its project.
RootsAreNear ==
    \A d \in DOMAIN derived : \A e \in derived[d].roots :
        Source[e].kind = "session" => ReachesDerived(MarkerScope(e), d.scope)

ForgettingInv == MemoriesTyped /\ RootsAreNear /\ SessionEventIsForgotten

\* The step creates at most one memory; it makes none active again, and forgets nothing.
OnlyCreates(d, roots) ==
    /\ derived' = derived \/ \E at \in Times : derived' = With(derived, d, Built(roots, at))
    /\ UNCHANGED <<forgotten, open>>

\* The step creates nothing and makes nothing active; it forgets nothing.
OnlyRetires ==
    /\ DOMAIN derived' = DOMAIN derived
    /\ \A d \in DOMAIN derived :
           \E status \in Statuses :
               /\ derived'[d] = [derived[d] EXCEPT !.status = status]
               /\ status = "active" => derived[d].status = "active"
    /\ UNCHANGED forgotten
    /\ open \subseteq open'

\* A memory built in a scope keeps the invariant when its roots are near the
\* scope and none of them has been forgotten.
LEMMA CreationKeepsForgetting ==
    ASSUME ClaimsInv, ForgettingInv, NEW d, NEW roots \in SUBSET Events, OnlyCreates(d, roots),
           \A e \in roots : Source[e].kind = "session" =>
               ReachesDerived(MarkerScope(e), d.scope) /\ ~ForgetIsAnswered(e)
    PROVE  ForgettingInv'
<1>1. CASE derived' = derived
    BY <1>1 DEF OnlyCreates, ForgettingInv, MemoriesTyped, RootsAreNear, SessionEventIsForgotten,
                ForgetIsAnswered
<1>2. ASSUME NEW at \in Times, derived' = With(derived, d, Built(roots, at))
      PROVE  ForgettingInv'
  <2>1. /\ DOMAIN derived' = DOMAIN derived \cup {d}
        /\ derived'[d] = Built(roots, at)
        /\ \A x \in DOMAIN derived \ {d} : derived'[x] = derived[x]
      BY <1>2 DEF With
  <2>2. Built(roots, at) \in [status : Statuses, roots : SUBSET Events, at : Times]
      BY DEF Built, Statuses
  <2>3. Built(roots, at).roots = roots
      BY DEF Built
  <2>4. MemoriesTyped'
      BY <2>1, <2>2 DEF ForgettingInv, MemoriesTyped
  <2>5. RootsAreNear'
      BY <2>1, <2>3 DEF ForgettingInv, RootsAreNear
  <2>6. SessionEventIsForgotten'
      BY <2>1, <2>3 DEF OnlyCreates, ForgettingInv, SessionEventIsForgotten, ForgetIsAnswered
  <2> QED
      BY <2>4, <2>5, <2>6 DEF ForgettingInv
<1> QED
    BY <1>1, <1>2 DEF OnlyCreates

LEMMA RetirementKeepsForgetting ==
    ASSUME ForgettingInv, OnlyRetires
    PROVE  ForgettingInv'
<1>1. \A d \in DOMAIN derived :
          /\ derived'[d] \in [status : Statuses, roots : SUBSET Events, at : Times]
          /\ derived'[d].roots = derived[d].roots
          /\ derived'[d].status = "active" => derived[d].status = "active"
    BY DEF ForgettingInv, MemoriesTyped, OnlyRetires
<1> QED
    BY <1>1 DEF ForgettingInv, MemoriesTyped, RootsAreNear, SessionEventIsForgotten,
                ForgetIsAnswered, OnlyRetires

\* An event of a session that a scope sees was captured in that scope, and its
\* marker is seen there.
LEMMA SeenInItsSession ==
    ASSUME ClaimsInv, NEW e \in Events, NEW scope, Source[e].kind = "session",
           IngestionVisible(e, scope)
    PROVE  /\ ReachesDerived(MarkerScope(e), scope)
           /\ ~Forgotten(e, scope) => forgotten[e] = None
<1>1. Source[e].scope = scope
    BY DEF IngestionVisible
<1>2. MarkerScope(e).project = scope.project /\ MarkerScope(e).session = scope.session
    BY <1>1 DEF MarkerScope
<1> QED
    BY <1>2 DEF ReachesDerived, Forgotten, Within

\* consolidate_turn() and apply_consolidation() build on what is not forgotten.
LEMMA EpisodeKeepsForgetting ==
    ASSUME ClaimsInv, ForgettingInv, NEW scope, NEW turn,
           OnlyCreates(TurnEpisode(scope, turn), TurnEvents(scope, turn))
    PROVE  ForgettingInv'
<1>1. TurnEvents(scope, turn) \in SUBSET Events
    BY DEF TurnEvents, ClaimsInv, ClaimsTypeOK
<1>2. TurnEpisode(scope, turn).scope = scope
    BY DEF TurnEpisode, Derived
<1>3. \A e \in TurnEvents(scope, turn) : Source[e].kind = "session" =>
          ReachesDerived(MarkerScope(e), scope) /\ ~ForgetIsAnswered(e)
    BY <1>1, SeenInItsSession DEF TurnEvents, ForgetIsAnswered
<1> QED
    BY <1>1, <1>2, <1>3, CreationKeepsForgetting

\* What consolidate_summary() and consolidate_turn() write.
LEMMA SummaryOnlyCreates ==
    ASSUME ClaimsInv, NEW kind, NEW scope, NEW period, ConsolidateSummary(kind, scope, period)
    PROVE  LET sources == SummarySources(kind, scope, period)
               id == Derived(kind, TargetScope(kind, scope), None, sources, period)
               roots == UNION {derived[d].roots : d \in sources}
           IN  OnlyCreates(id, roots) /\ id \notin DOMAIN derived /\ UNCHANGED <<ingested, runs>>
<1> DEFINE sources == SummarySources(kind, scope, period)
           id == Derived(kind, TargetScope(kind, scope), None, sources, period)
           roots == UNION {derived[d].roots : d \in sources}
<1>1. now \in Times
    BY DEF ClaimsInv, ClaimsTypeOK
<1>2. /\ derived' = With(derived, id, Built(roots, now))
      /\ id \notin DOMAIN derived
      /\ UNCHANGED <<claimVars, runs, open>>
    BY DEF ConsolidateSummary, Create
<1> HIDE DEF sources, id, roots
<1>3. OnlyCreates(id, roots) /\ id \notin DOMAIN derived /\ UNCHANGED <<ingested, runs>>
    BY <1>1, <1>2 DEF OnlyCreates, claimVars
<1> QED
    BY <1>3 DEF sources, id, roots

LEMMA TurnOnlyCreates ==
    ASSUME ClaimsInv, NEW scope, NEW turn, ConsolidateTurn(scope, turn)
    PROVE  /\ OnlyCreates(TurnEpisode(scope, turn), TurnEvents(scope, turn))
           /\ TurnEpisode(scope, turn) \notin DOMAIN derived
           /\ UNCHANGED <<ingested, runs>>
<1>1. now \in Times
    BY DEF ClaimsInv, ClaimsTypeOK
<1> QED
    BY <1>1 DEF ConsolidateTurn, Create, OnlyCreates, claimVars

\* consolidate_summary() builds on active memories of the same session or project.
LEMMA SummaryKeepsForgetting ==
    ASSUME ClaimsInv, ForgettingInv, NEW kind, NEW scope, NEW period,
           ConsolidateSummary(kind, scope, period)
    PROVE  ForgettingInv'
<1> DEFINE sources == SummarySources(kind, scope, period)
           id == Derived(kind, TargetScope(kind, scope), None, sources, period)
           roots == UNION {derived[d].roots : d \in sources}
<1>1. sources \subseteq Active /\ Active \subseteq DOMAIN derived
    BY DEF SummarySources, Active
<1>2. roots \in SUBSET Events
    BY <1>1 DEF ForgettingInv, MemoriesTyped
<1>3. OnlyCreates(id, roots)
    BY SummaryOnlyCreates
<1>4. id.scope = TargetScope(kind, scope)
    BY DEF Derived
<1>5. ASSUME NEW d \in sources, NEW e \in derived[d].roots, Source[e].kind = "session"
      PROVE  ReachesDerived(MarkerScope(e), id.scope) /\ ~ForgetIsAnswered(e)
  <2>1. d \in DOMAIN derived /\ derived[d].status = "active" /\ e \in Events
      BY <1>1 DEF Active, ForgettingInv, MemoriesTyped
  <2>2. ~ForgetIsAnswered(e)
      BY <1>5, <2>1 DEF ForgettingInv, SessionEventIsForgotten
  <2>3. ReachesDerived(MarkerScope(e), d.scope)
      BY <1>5, <2>1 DEF ForgettingInv, RootsAreNear
  <2>4. CASE kind = "session_summary"
      BY <1>4, <2>2, <2>3, <2>4 DEF SummarySources, TargetScope
  <2>5. CASE kind # "session_summary"
    <3>1. d.scope.project = scope.project
        BY <2>5 DEF SummarySources
    <3>2. id.scope = [project |-> scope.project, session |-> None]
        BY <1>4, <2>5 DEF TargetScope
    <3> HIDE DEF sources, id
    <3> QED
        BY <2>2, <2>3, <3>1, <3>2 DEF ReachesDerived
  <2> QED
      BY <2>4, <2>5
<1>6. \A e \in roots : Source[e].kind = "session" =>
          ReachesDerived(MarkerScope(e), id.scope) /\ ~ForgetIsAnswered(e)
    BY <1>5
<1> QED
    BY <1>2, <1>3, <1>6, CreationKeepsForgetting

\* rollback_consolidation(), whole or cut short, retires memories.
LEMMA RollbackRetires ==
    ASSUME MemoriesTyped, NEW run,
           \/ RollbackConsolidation(run)
           \/ \E stale : RollbackInterrupted(run, stale)
    PROVE  OnlyRetires
<1> DEFINE To(d, status) == [derived[d] EXCEPT !.status = status]
<1>1. \A d \in DOMAIN derived : derived[d] = To(d, derived[d].status) /\ derived[d].status \in Statuses
    BY DEF MemoriesTyped
<1>2. CASE RollbackConsolidation(run)
    BY <1>1, <1>2 DEF RollbackConsolidation, OnlyRetires, Statuses, claimVars
<1>3. CASE \E stale : RollbackInterrupted(run, stale)
    BY <1>1, <1>3 DEF RollbackInterrupted, OnlyRetires, Statuses, claimVars
<1> QED
    BY <1>2, <1>3

\* What a forget that has come to some of the memories leaves of each.
LEMMA PropagateLeaves ==
    ASSUME MemoriesTyped, NEW e \in Events, NEW mode, NEW memories, NEW sums,
           Propagate(e, mode, memories, sums), NEW d \in DOMAIN derived'
    PROVE  /\ d \in DOMAIN derived
           /\ derived'[d] \in [status : Statuses, roots : SUBSET Events, at : Times]
           /\ derived'[d].roots = derived[d].roots
           /\ derived'[d].status = "active" => derived[d].status = "active" /\ d \notin memories
           /\ d \in memories => Mode(e, mode) # "erasure"
<1>1. /\ d \in DOMAIN derived
      /\ d \in memories => Mode(e, mode) # "erasure"
      /\ derived'[d] = IF d \notin memories THEN derived[d]
                       ELSE [derived[d] EXCEPT !.status =
                                IF \A root \in derived[d].roots : Forgotten(root, d.scope)'
                                THEN "withdrawn" ELSE "stale"]
    BY DEF Propagate
<1>2. CASE d \notin memories
    BY <1>1, <1>2 DEF MemoriesTyped
<1>3. CASE d \in memories
  <2>1. PICK status \in {"withdrawn", "stale"} :
            derived'[d] = [derived[d] EXCEPT !.status = status]
      BY <1>1, <1>3
  <2> QED
      BY <1>1, <1>3, <2>1 DEF MemoriesTyped, Statuses
<1> QED
    BY <1>2, <1>3

\* forget_derived_source() reaches every memory rooted in the event, when it is
\* not cut short.
LEMMA ForgetKeepsForgetting ==
    ASSUME ClaimsInv, ForgettingInv, NEW e \in Events, NEW mode \in Modes,
           NEW memories, NEW sums, Propagate(e, mode, memories, sums),
           open \ {e} \subseteq open', e \in open' \/ memories = ReachedMemories(e)
    PROVE  ForgettingInv'
<1>1. MemoriesTyped'
    BY PropagateLeaves DEF ForgettingInv, MemoriesTyped
<1>2. RootsAreNear'
    BY PropagateLeaves DEF ForgettingInv, RootsAreNear
<1>3. ASSUME NEW f \in Events, ForgetIsAnswered(f)', Source[f].kind = "session",
             NEW d \in DOMAIN derived', f \in derived'[d].roots
      PROVE  derived'[d].status # "active" /\ forgotten'[f] # "erasure"
  <2>1. d \in DOMAIN derived /\ f \in derived[d].roots
      BY <1>3, PropagateLeaves DEF ForgettingInv
  <2>2. forgotten' = [forgotten EXCEPT ![e] = Mode(e, mode)] /\ forgotten \in [Events -> {"retraction", "erasure", None}]
      BY DEF Propagate, ClaimsInv, ClaimsTypeOK, MarkerRecords
  <2>3. CASE f = e
    <3>1. d \in memories
        BY <1>3, <2>1, <2>3 DEF ForgetIsAnswered, ReachedMemories, ForgettingInv, RootsAreNear
    <3> QED
        BY <2>2, <2>3, <3>1, PropagateLeaves DEF ForgettingInv
  <2>4. CASE f # e
    <3>1. ForgetIsAnswered(f) /\ forgotten'[f] = forgotten[f]
        BY <1>3, <2>2, <2>4 DEF ForgetIsAnswered
    <3> QED
        BY <1>3, <2>1, <3>1, PropagateLeaves DEF ForgettingInv, SessionEventIsForgotten
  <2> QED
      BY <2>3, <2>4
<1> QED
    BY <1>1, <1>2, <1>3 DEF ForgettingInv, SessionEventIsForgotten

LEMMA NextPreservesForgetting == ClaimsInv /\ ForgettingInv /\ [Next]_vars => ForgettingInv'
<1> SUFFICES ASSUME ClaimsInv, ForgettingInv, [Next]_vars PROVE ForgettingInv'
    OBVIOUS
<1>1. ASSUME UNCHANGED <<derived, forgotten, open>> PROVE ForgettingInv'
    BY <1>1 DEF ForgettingInv, MemoriesTyped, RootsAreNear, SessionEventIsForgotten, ForgetIsAnswered
<1>2. CASE ClaimsNext /\ UNCHANGED derivedVars
    BY <1>1, <1>2 DEF ClaimsNext, IngestEvent, CreateClaim, SupersedeClaim, Tick, derivedVars
<1>3. CASE UNCHANGED vars
    BY <1>1, <1>3 DEF vars, claimVars, derivedVars
<1>4. ASSUME NEW s \in Scopes, NEW t \in Turns, ConsolidateTurn(s, t) PROVE ForgettingInv'
  <2>1. OnlyCreates(TurnEpisode(s, t), TurnEvents(s, t))
      BY <1>4, TurnOnlyCreates
  <2> QED
      BY <2>1, EpisodeKeepsForgetting
<1>5. ASSUME NEW s \in Scopes, NEW t \in Turns, NEW at \in 0 .. now, ApplyConsolidation(s, t, at)
      PROVE  ForgettingInv'
  <2>1. at \in Times
      BY <1>5, ClaimsAssumption DEF ClaimsInv, ClaimsTypeOK, Times
  <2>2. OnlyCreates(TurnEpisode(s, t), TurnEvents(s, t))
      BY <1>5, <2>1 DEF ApplyConsolidation, Create, OnlyCreates, claimVars
  <2> QED
      BY <2>2, EpisodeKeepsForgetting
<1>6. ASSUME NEW k, NEW s \in Scopes, NEW p \in Periods \cup {None}, ConsolidateSummary(k, s, p)
      PROVE  ForgettingInv'
    BY <1>6, SummaryKeepsForgetting
<1>7. ASSUME NEW r \in DOMAIN runs, RollbackConsolidation(r) PROVE ForgettingInv'
    BY <1>7, RollbackRetires, RetirementKeepsForgetting DEF ForgettingInv
<1>8. ASSUME NEW r \in DOMAIN runs, NEW stale, RollbackInterrupted(r, stale) PROVE ForgettingInv'
    BY <1>8, RollbackRetires, RetirementKeepsForgetting DEF ForgettingInv
<1>9. ASSUME NEW c \in Candidates, ConsolidateClaims(c.scope, c.property) PROVE ForgettingInv'
    BY <1>1, <1>9 DEF ConsolidateClaims, claimVars
<1>10. ASSUME NEW e \in Events, NEW s \in Scopes, NEW mode \in Modes, ForgetDerivedSource(e, s, mode)
       PROVE  ForgettingInv'
    BY <1>10, ForgetKeepsForgetting DEF ForgetDerivedSource
<1>11. ASSUME NEW e \in Events, NEW s \in Scopes, NEW mode \in Modes, NEW memories, NEW sums,
              ForgetInterrupted(e, s, mode, memories, sums)
       PROVE  ForgettingInv'
    BY <1>11, ForgetKeepsForgetting DEF ForgetInterrupted
<1> QED
    BY <1>2, <1>3, <1>4, <1>5, <1>6, <1>7, <1>8, <1>9, <1>10, <1>11 DEF Next, Modes

\* Once forget_derived_source() has answered for an event of one session, no
\* active memory is rooted in it, and after an erasure no memory at all.
THEOREM SessionEventsAreForgotten == Spec => []SessionEventIsForgotten
<1>1. Init => ForgettingInv
    BY DEF Init, ForgettingInv, MemoriesTyped, RootsAreNear, SessionEventIsForgotten
<1>2. ForgettingInv => SessionEventIsForgotten
    BY DEF ForgettingInv
<1> QED
    BY <1>1, <1>2, NextPreservesForgetting, ClaimsInvariant, PTL DEF Spec

-----------------------------------------------------------------------------
\* What aggregates rest on.

\* Forgotten evidence is in an aggregate only while the forget is to be repeated.
EvidenceIsKept ==
    \A a \in DOMAIN aggregates :
        /\ aggregates[a].evidence \subseteq Events
        /\ \A e \in aggregates[a].evidence : Forgotten(e, a.scope) => e \in open

\* An active aggregate says what a member with some of the evidence says.
Says(a, sum) ==
    sum.status = "active" =>
        \E c \in a.members : c.value = sum.value /\ c.evidence \cap sum.evidence # {}

AggregatesInv ==
    /\ EvidenceIsKept
    /\ \A a \in DOMAIN aggregates : Says(a, aggregates[a])

\* consolidate_claims() and refresh_claim_aggregate() take the value of a member
\* with some of the evidence.
LEMMA AggregateSays ==
    ASSUME NEW visible, NEW evidence, NEW a
    PROVE  /\ Aggregate(visible, a.members, evidence).evidence = evidence
           /\ Says(a, Aggregate(visible, a.members, evidence))
<1> DEFINE supported == {c \in a.members : c.evidence \cap evidence # {}}
           sum == Aggregate(visible, a.members, evidence)
<1>1. sum.evidence = evidence
    BY DEF Aggregate
<1>2. ASSUME sum.status = "active"
      PROVE  \E c \in a.members : c.value = sum.value /\ c.evidence \cap sum.evidence # {}
  <2>1. supported # {} /\ sum.value = (CHOOSE c \in supported : TRUE).value
      BY <1>2 DEF Aggregate
  <2>2. (CHOOSE c \in supported : TRUE) \in supported
      BY <2>1
  <2> QED
      BY <1>1, <2>1, <2>2
<1> QED
    BY <1>1, <1>2 DEF Says

\* consolidate_claims() takes evidence that is not forgotten.
LEMMA ConsolidationKeepsAggregates ==
    ASSUME ClaimsInv, AggregatesInv, NEW scope, NEW property, ConsolidateClaims(scope, property)
    PROVE  AggregatesInv'
<1> DEFINE members == {c \in VisibleClaims(scope) : c.property = property}
           id == [scope |-> scope, members |-> members]
           evidence == UNION {ActiveEvidence(c) : c \in members}
<1>1. /\ DOMAIN aggregates' = DOMAIN aggregates \cup {id}
      /\ aggregates'[id] = Aggregate(members, id.members, evidence)
      /\ \A a \in DOMAIN aggregates \ {id} : aggregates'[a] = aggregates[a]
      /\ UNCHANGED <<forgotten, open>>
    BY DEF ConsolidateClaims, With, claimVars
<1>2. id.scope = scope
    OBVIOUS
<1>3. \A c \in members : c \in Candidates /\ c.scope = scope /\ c.evidence \subseteq Events
    BY ClaimsAssumption DEF VisibleClaims, ClaimsInv, ClaimsTypeOK, ClaimRecords, WellFormed
<1>4. \A e \in evidence : e \in Events /\ ~Forgotten(e, scope)
    BY <1>3 DEF ActiveEvidence
<1> HIDE DEF members, id, evidence
<1>5. aggregates'[id].evidence = evidence /\ Says(id, aggregates'[id])
    BY <1>1, AggregateSays
<1>6. \A e, s : Forgotten(e, s)' <=> Forgotten(e, s)
    BY <1>1 DEF Forgotten
<1>7. EvidenceIsKept'
    BY <1>1, <1>2, <1>4, <1>5, <1>6 DEF AggregatesInv, EvidenceIsKept
<1>8. \A a \in DOMAIN aggregates' : Says(a, aggregates'[a])
    BY <1>1, <1>5 DEF AggregatesInv
<1> QED
    BY <1>7, <1>8 DEF AggregatesInv

\* forget_derived_source() takes the event out of every aggregate it is evidence
\* of, when it is not cut short.
LEMMA ForgetKeepsAggregates ==
    ASSUME ClaimsInv, AggregatesInv, NEW e \in Events, NEW mode \in Modes,
           NEW memories, NEW sums, Propagate(e, mode, memories, sums),
           open \ {e} \subseteq open',
           e \in open' \/ sums = ReachedAggregates(e, Mode(e, mode))
    PROVE  AggregatesInv'
<1> DEFINE Refreshed(a) ==
               Aggregate(VisibleClaims(a.scope)', a.members, aggregates[a].evidence \ {e})
<1>1. \A a \in DOMAIN aggregates' :
          /\ a \in DOMAIN aggregates
          /\ aggregates'[a] = IF a \notin sums THEN aggregates[a] ELSE Refreshed(a)
    BY DEF Propagate
<1>2. \A a : /\ Refreshed(a).evidence = aggregates[a].evidence \ {e}
             /\ Says(a, Refreshed(a))
    BY AggregateSays
<1>3. \A a \in DOMAIN aggregates' : Says(a, aggregates'[a])
    BY <1>1, <1>2 DEF AggregatesInv
<1>4. ASSUME NEW a \in DOMAIN aggregates', NEW f \in aggregates'[a].evidence
      PROVE  f \in Events /\ (Forgotten(f, a.scope)' => f \in open')
  <2>1. a \in DOMAIN aggregates /\ f \in aggregates[a].evidence /\ f \in Events
      BY <1>1, <1>2 DEF AggregatesInv, EvidenceIsKept
  <2>2. CASE f # e
    <3>1. forgotten'[f] = forgotten[f]
        BY <2>1, <2>2 DEF Propagate, ClaimsInv, ClaimsTypeOK, MarkerRecords
    <3>2. Forgotten(f, a.scope)' => Forgotten(f, a.scope)
        BY <3>1 DEF Forgotten
    <3> QED
        BY <2>1, <2>2, <3>2 DEF AggregatesInv, EvidenceIsKept
  <2>3. CASE f = e
    <3>1. a \notin sums
        BY <1>1, <1>2, <2>3
    <3>2. Forgotten(f, a.scope)' => a \in ReachedAggregates(e, Mode(e, mode))
        BY <2>1, <2>3 DEF Forgotten, ReachedAggregates
    <3> QED
        BY <2>1, <2>3, <3>1, <3>2
  <2> QED
      BY <2>2, <2>3
<1> QED
    BY <1>3, <1>4 DEF AggregatesInv, EvidenceIsKept

LEMMA NextPreservesAggregates == ClaimsInv /\ AggregatesInv /\ [Next]_vars => AggregatesInv'
<1> SUFFICES ASSUME ClaimsInv, AggregatesInv, [Next]_vars PROVE AggregatesInv'
    OBVIOUS
<1>1. ASSUME UNCHANGED <<aggregates, forgotten>>, open \subseteq open' PROVE AggregatesInv'
    BY <1>1 DEF AggregatesInv, EvidenceIsKept, Says, Forgotten
<1>2. CASE ClaimsNext /\ UNCHANGED derivedVars
    BY <1>1, <1>2 DEF ClaimsNext, IngestEvent, CreateClaim, SupersedeClaim, Tick, derivedVars
<1>3. CASE UNCHANGED vars
    BY <1>1, <1>3 DEF vars, claimVars, derivedVars
<1>4. ASSUME NEW s \in Scopes, NEW t \in Turns, ConsolidateTurn(s, t) PROVE AggregatesInv'
    BY <1>1, <1>4 DEF ConsolidateTurn, claimVars
<1>5. ASSUME NEW s \in Scopes, NEW t \in Turns, NEW at, ApplyConsolidation(s, t, at)
      PROVE  AggregatesInv'
    BY <1>1, <1>5 DEF ApplyConsolidation, claimVars
<1>6. ASSUME NEW k, NEW s, NEW p, ConsolidateSummary(k, s, p) PROVE AggregatesInv'
    BY <1>1, <1>6 DEF ConsolidateSummary, claimVars
<1>7. ASSUME NEW r, RollbackConsolidation(r) PROVE AggregatesInv'
    BY <1>1, <1>7 DEF RollbackConsolidation, claimVars
<1>8. ASSUME NEW r, NEW stale, RollbackInterrupted(r, stale) PROVE AggregatesInv'
    BY <1>1, <1>8 DEF RollbackInterrupted, claimVars
<1>9. ASSUME NEW c \in Candidates, ConsolidateClaims(c.scope, c.property) PROVE AggregatesInv'
    BY <1>9, ConsolidationKeepsAggregates
<1>10. ASSUME NEW e \in Events, NEW s, NEW mode \in Modes, ForgetDerivedSource(e, s, mode)
       PROVE  AggregatesInv'
    BY <1>10, ForgetKeepsAggregates DEF ForgetDerivedSource
<1>11. ASSUME NEW e \in Events, NEW s, NEW mode \in Modes, NEW memories, NEW sums,
              ForgetInterrupted(e, s, mode, memories, sums)
       PROVE  AggregatesInv'
    BY <1>11, ForgetKeepsAggregates DEF ForgetInterrupted
<1> QED
    BY <1>2, <1>3, <1>4, <1>5, <1>6, <1>7, <1>8, <1>9, <1>10, <1>11 DEF Next, Modes

\* An active aggregate rests on evidence none of which is forgotten, and says
\* what one of its members with such evidence says
\* (consolidate_claims(), refresh_claim_aggregate(), forget_derived_source()).
THEOREM AggregatesRestOnEvidence == Spec => []AggregatesAreSupported
<1>1. Init => AggregatesInv
    BY DEF Init, AggregatesInv, EvidenceIsKept
<1>2. AggregatesInv => AggregatesAreSupported
    BY DEF AggregatesInv, EvidenceIsKept, Says, AggregatesAreSupported
<1> QED
    BY <1>1, <1>2, NextPreservesAggregates, ClaimsInvariant, PTL DEF Spec

-----------------------------------------------------------------------------
\* Lineages: what a memory was built from, and that it is still there.

\* The events that an id goes back to.
RootsOf(d) ==
    CASE d.kind = "episode" -> d.sources
      [] d.kind = "session_summary" -> UNION {s.sources : s \in d.sources}
      [] OTHER -> UNION {UNION {x.sources : x \in s.sources} : s \in d.sources}

\* Summaries of sessions are built from episodes of the session, the others
\* from summaries of sessions of the project.
SourceOf(s, d) ==
    /\ s \in d.sources
    /\ IF d.kind = "session_summary"
         THEN s.kind = "episode" /\ s.scope = d.scope
         ELSE /\ d.kind \in {"project_summary", "period_summary"}
              /\ s.kind = "session_summary"
              /\ s.scope.project = d.scope.project
              /\ d.scope.session = None

\* What an id says of its memory.
Shaped(d) ==
    /\ d.kind # "episode" => \A s \in d.sources : SourceOf(s, d)
    /\ derived[d].roots = RootsOf(d)
    /\ \A e \in RootsOf(d) : e \in ingested /\ InHierarchy(e, d.scope)

\* A forget of an event that the source is rooted in is to be repeated.
ToRepeat(e, s, d) ==
    e \in Events \cap open /\ e \in RootsOf(s) /\ ReachesDerived(MarkerScope(e), d.scope)

SourceKept(s, d) ==
    \/ s \in DOMAIN derived
    \/ \E e : ToRepeat(e, s, d) /\ forgotten[e] = "erasure"

SourceActive(s, d) ==
    \/ s \in Active
    \/ \E e : ToRepeat(e, s, d)
    \/ \E r \in DOMAIN runs : r \in open

IsEpisodeId(r) ==
    \E s \in Scopes, t \in Turns, set \in SUBSET Events : r = Derived("episode", s, t, set, None)

LineageInv ==
    /\ MemoriesTyped
    /\ RunRecords
    /\ \A r \in DOMAIN runs : IsEpisodeId(r)
    /\ \A d \in DOMAIN derived : Shaped(d)
    /\ \A d \in DOMAIN derived : d.kind # "episode" =>
           \A s \in d.sources :
               /\ SourceKept(s, d)
               /\ d \in Active /\ s \in DOMAIN derived => SourceActive(s, d)

\* The roots of a source are among those of what is built from it, and a marker
\* that reaches the one reaches the other.
LEMMA SourceRoots ==
    ASSUME NEW s, NEW d, d.kind # "episode", SourceOf(s, d)
    PROVE  /\ RootsOf(s) \subseteq RootsOf(d)
           /\ \A marker : ReachesDerived(marker, s.scope) => ReachesDerived(marker, d.scope)
<1>1. CASE d.kind = "session_summary"
  <2>1. RootsOf(s) = s.sources /\ RootsOf(d) = UNION {x.sources : x \in d.sources}
      BY <1>1 DEF RootsOf, SourceOf
  <2> QED
      BY <1>1, <2>1 DEF SourceOf
<1>2. CASE d.kind # "session_summary"
  <2>1. /\ RootsOf(s) = UNION {x.sources : x \in s.sources}
        /\ RootsOf(d) = UNION {UNION {x.sources : x \in y.sources} : y \in d.sources}
      BY <1>2 DEF RootsOf, SourceOf
  <2>2. s \in d.sources
      BY DEF SourceOf
  <2>3. RootsOf(s) \subseteq RootsOf(d)
      BY <2>1, <2>2
  <2> QED
      BY <1>2, <2>3 DEF SourceOf, ReachesDerived
<1> QED
    BY <1>1, <1>2

\* The roots of what is built from sources are those of the sources together.
LEMMA UnionOfRoots ==
    ASSUME NEW d, d.kind # "episode", \A s \in d.sources : SourceOf(s, d)
    PROVE  RootsOf(d) = UNION {RootsOf(s) : s \in d.sources}
<1>1. CASE d.kind = "session_summary"
  <2>1. \A s \in d.sources : RootsOf(s) = s.sources
      BY <1>1 DEF RootsOf, SourceOf
  <2> QED
      BY <1>1, <2>1 DEF RootsOf
<1>2. CASE d.kind # "session_summary"
  <2>1. \A s \in d.sources : RootsOf(s) = UNION {x.sources : x \in s.sources}
      BY <1>2 DEF RootsOf, SourceOf
  <2> QED
      BY <1>2, <2>1 DEF RootsOf
<1> QED
    BY <1>1, <1>2

\* Without a forget or a rollback to repeat, such lineages verify.
LEMMA LineageInvVerifies == LineageInv => LineageVerifies
<1> SUFFICES ASSUME LineageInv, open = {}, NEW scope, NEW d \in DOMAIN derived,
                    d.scope.project = scope.project
             PROVE  LineageIssues(d, scope) = {}
    BY DEF LineageVerifies
<1>1. Shaped(d)
    BY DEF LineageInv
<1>2. \A e \in derived[d].roots : e \in ingested /\ InHierarchy(e, scope)
    BY <1>1 DEF Shaped, InHierarchy
<1>3. CASE d.kind = "episode"
  <2>1. derived[d].roots = d.sources
      BY <1>1, <1>3 DEF Shaped, RootsOf
  <2>2. {s \in d.sources : SourceFound(d, s, scope)} = d.sources
      BY <1>2, <1>3, <2>1 DEF SourceFound
  <2> QED
      BY <1>2, <1>3, <2>1, <2>2 DEF LineageIssues
<1>4. CASE d.kind # "episode"
  <2>1. \A s \in d.sources : /\ SourceOf(s, d)
                             /\ s \in DOMAIN derived
                             /\ derived[s].roots = RootsOf(s)
                             /\ d \in Active => s \in Active
      BY <1>1, <1>4 DEF LineageInv, Shaped, SourceKept, SourceActive, ToRepeat
  <2>2. \A s \in d.sources : SourceFound(d, s, scope)
      BY <1>4, <2>1 DEF SourceFound, SourceOf
  <2>3. {s \in d.sources : SourceFound(d, s, scope)} = d.sources
      BY <2>2
  <2>4. UNION {derived[s].roots : s \in d.sources} = derived[d].roots
      BY <1>1, <1>4, <2>1, UnionOfRoots DEF Shaped
  <2> QED
      BY <1>2, <1>4, <2>1, <2>3, <2>4 DEF LineageIssues
<1> QED
    BY <1>3, <1>4

\* Runs keep their ids and what they created.
RunsKept ==
    /\ DOMAIN runs \subseteq DOMAIN runs'
    /\ RunRecords'
    /\ \A r \in DOMAIN runs' : IsEpisodeId(r)

\* A new memory is of the shape its id says, and built on active sources.
LEMMA CreationKeepsLineage ==
    ASSUME LineageInv, NEW d, NEW roots \in SUBSET Events, OnlyCreates(d, roots),
           UNCHANGED ingested, RunsKept, d \notin DOMAIN derived \/ UNCHANGED derived,
           roots = RootsOf(d), \A e \in roots : e \in ingested /\ InHierarchy(e, d.scope),
           d.kind # "episode" => \A s \in d.sources : SourceOf(s, d) /\ s \in Active
    PROVE  LineageInv'
<1>1. CASE UNCHANGED derived
    BY <1>1 DEF LineageInv, OnlyCreates, RunsKept, MemoriesTyped, Shaped, SourceKept, SourceActive,
                ToRepeat, Active
<1>2. ASSUME NEW at \in Times, derived' = With(derived, d, Built(roots, at)), d \notin DOMAIN derived
      PROVE  LineageInv'
  <2>1. /\ DOMAIN derived' = DOMAIN derived \cup {d}
        /\ derived'[d] = Built(roots, at)
        /\ \A x \in DOMAIN derived : derived'[x] = derived[x]
      BY <1>2 DEF With
  <2>2. /\ Built(roots, at) \in [status : Statuses, roots : SUBSET Events, at : Times]
        /\ derived'[d].roots = roots /\ derived'[d].status = "active"
      BY <2>1 DEF Built, Statuses
  <2>3. MemoriesTyped'
      BY <2>1, <2>2 DEF LineageInv, MemoriesTyped
  <2>4. \A x \in DOMAIN derived' : Shaped(x)'
      BY <2>1, <2>2 DEF LineageInv, Shaped
  <2>5. Active' = Active \cup {d}
      BY <2>1, <2>2 DEF Active
  <2>6. UNCHANGED <<forgotten, open>>
      BY DEF OnlyCreates
  <2>7. ASSUME NEW x \in DOMAIN derived', x.kind # "episode", NEW s \in x.sources
        PROVE  /\ SourceKept(s, x)'
               /\ (x \in Active /\ s \in DOMAIN derived)' => SourceActive(s, x)'
    <3>1. CASE x = d
        BY <2>1, <2>5, <2>7, <3>1 DEF SourceKept, SourceActive, Active
    <3>2. CASE x # d
      <4>1. x \in DOMAIN derived /\ (x \in Active' => x \in Active)
          BY <2>1, <2>5, <3>2
      <4>2. SourceKept(s, x) /\ (x \in Active /\ s \in DOMAIN derived => SourceActive(s, x))
          BY <2>7, <4>1 DEF LineageInv
      <4> QED
          BY <2>1, <2>5, <2>6, <4>1, <4>2 DEF SourceKept, SourceActive, ToRepeat, RunsKept
    <3> QED
        BY <3>1, <3>2
  <2> QED
      BY <2>3, <2>4, <2>7 DEF LineageInv, RunsKept
<1> QED
    BY <1>1, <1>2 DEF OnlyCreates

\* An episode's sources are its roots, events that its scope sees.
LEMMA EpisodeKeepsLineage ==
    ASSUME ClaimsInv, LineageInv, NEW scope, NEW turn,
           OnlyCreates(TurnEpisode(scope, turn), TurnEvents(scope, turn)),
           UNCHANGED ingested, RunsKept,
           TurnEpisode(scope, turn) \notin DOMAIN derived \/ UNCHANGED derived
    PROVE  LineageInv'
<1>1. TurnEvents(scope, turn) \in SUBSET Events
    BY DEF TurnEvents, ClaimsInv, ClaimsTypeOK
<1>2. /\ TurnEpisode(scope, turn).kind = "episode"
      /\ TurnEpisode(scope, turn).scope = scope
      /\ RootsOf(TurnEpisode(scope, turn)) = TurnEvents(scope, turn)
    BY DEF TurnEpisode, Derived, RootsOf
<1>3. \A e \in TurnEvents(scope, turn) : e \in ingested /\ InHierarchy(e, scope)
    BY DEF TurnEvents, IngestionVisible, InHierarchy
<1> QED
    BY <1>1, <1>2, <1>3, CreationKeepsLineage

\* A summary's sources are active and of the kind it asks for.
LEMMA SummaryKeepsLineage ==
    ASSUME ClaimsInv, LineageInv, NEW kind \in {"session_summary", "project_summary", "period_summary"},
           NEW scope, NEW period, ConsolidateSummary(kind, scope, period)
    PROVE  LineageInv'
<1> DEFINE sources == SummarySources(kind, scope, period)
           id == Derived(kind, TargetScope(kind, scope), None, sources, period)
           roots == UNION {derived[d].roots : d \in sources}
<1>1. sources \subseteq Active /\ Active \subseteq DOMAIN derived
    BY DEF SummarySources, Active
<1>2. roots \in SUBSET Events
    BY <1>1 DEF LineageInv, MemoriesTyped
<1>3. OnlyCreates(id, roots) /\ id \notin DOMAIN derived /\ UNCHANGED <<ingested, runs>>
    BY SummaryOnlyCreates
<1>4. id.scope = TargetScope(kind, scope) /\ id.kind = kind /\ id.sources = sources
    BY DEF Derived
<1>5. ASSUME NEW s \in sources PROVE SourceOf(s, id)
  <2>1. CASE kind = "session_summary"
    <3>1. s.kind = "episode" /\ s.scope = scope
        BY <2>1 DEF SummarySources
    <3>2. id.scope = scope
        BY <1>4, <2>1 DEF TargetScope
    <3> HIDE DEF sources, id
    <3> QED
        BY <1>4, <2>1, <3>1, <3>2 DEF SourceOf
  <2>2. CASE kind # "session_summary"
    <3>1. s.kind = "session_summary" /\ s.scope.project = scope.project
        BY <2>2 DEF SummarySources
    <3>2. id.scope = [project |-> scope.project, session |-> None]
        BY <1>4, <2>2 DEF TargetScope
    <3> HIDE DEF sources, id
    <3> QED
        BY <1>4, <2>2, <3>1, <3>2 DEF SourceOf
  <2> QED
      BY <2>1, <2>2
<1>6. \A s \in sources : /\ derived[s].roots = RootsOf(s)
                         /\ \A e \in RootsOf(s) : e \in ingested /\ InHierarchy(e, s.scope)
    BY <1>1 DEF LineageInv, Shaped
<1>7. roots = RootsOf(id)
    BY <1>4, <1>5, <1>6, UnionOfRoots
<1>8. \A s \in sources : s.scope.project = id.scope.project
    BY <1>4, <1>5 DEF SourceOf
<1>9. \A e \in roots : e \in ingested /\ InHierarchy(e, id.scope)
    BY <1>6, <1>8 DEF InHierarchy
<1>10. RunsKept
    BY <1>3 DEF LineageInv, RunsKept, RunRecords
<1>11. id.kind # "episode" => \A s \in id.sources : SourceOf(s, id) /\ s \in Active
    BY <1>1, <1>4, <1>5
<1> HIDE DEF sources, id, roots
<1> QED
    BY <1>2, <1>3, <1>7, <1>9, <1>10, <1>11, CreationKeepsLineage

\* A rollback that is not cut short leaves nothing active that was built from
\* what it retires: two rounds reach all of it.
LEMMA DescendantsAreAll ==
    ASSUME LineageInv, NEW run \in DOMAIN runs, NEW d \in Active, d.kind # "episode",
           NEW s \in d.sources,
           s \in runs[run].created \/ s \in Descendants(runs[run].created, run.scope)
    PROVE  d \in Descendants(runs[run].created, run.scope)
<1> DEFINE created == runs[run].created
           Built1(ids) == {x \in Active : /\ x.kind # "episode"
                                          /\ Within(x.scope, run.scope)
                                          /\ x.sources \cap ids # {}}
           first == Built1(created)
<1>1. Descendants(created, run.scope) = first \cup Built1(created \cup first)
    BY DEF Descendants
<1>2. run.kind = "episode" /\ created \subseteq {run}
    BY DEF LineageInv, RunRecords, IsEpisodeId, Derived
<1>3. \A x \in Active : x.kind # "episode" => \A y \in x.sources : SourceOf(y, x)
    BY DEF LineageInv, Shaped, Active
<1>4. SourceOf(s, d)
    BY <1>3
<1>5. CASE s \in created
  <2>1. d.kind = "session_summary" /\ s.scope = d.scope /\ s = run
      BY <1>2, <1>4, <1>5 DEF SourceOf
  <2>2. d \in first
      BY <1>5, <2>1 DEF Within
  <2> QED
      BY <1>1, <2>2
<1>6. CASE s \in first
  <2>1. s.kind = "session_summary" /\ s.scope = run.scope
      BY <1>2, <1>3, <1>6 DEF SourceOf
  <2>2. d.scope.project = run.scope.project /\ d.scope.session = None
      BY <1>4, <1>6, <2>1 DEF SourceOf
  <2>3. d \in Built1(created \cup first)
      BY <1>6, <2>2 DEF Within
  <2> QED
      BY <1>1, <2>3
<1>7. CASE s \in Built1(created \cup first) /\ s \notin first
  <2>1. PICK y \in first : y \in s.sources
      BY <1>7
  <2>2. y.kind = "session_summary"
      BY <1>2, <1>3, <2>1 DEF SourceOf
  <2>3. s.kind # "session_summary" /\ s.kind # "episode"
      BY <1>3, <1>7, <2>1, <2>2 DEF SourceOf
  <2> QED
      BY <1>4, <2>3 DEF SourceOf
<1> QED
    BY <1>1, <1>5, <1>6, <1>7

LEMMA RollbackKeepsLineage ==
    ASSUME LineageInv, NEW run \in DOMAIN runs,
           \/ RollbackConsolidation(run)
           \/ \E stale : RollbackInterrupted(run, stale)
    PROVE  LineageInv'
<1>1. OnlyRetires
    BY RollbackRetires DEF LineageInv
<1>2. \A d \in DOMAIN derived :
          /\ derived'[d] \in [status : Statuses, roots : SUBSET Events, at : Times]
          /\ derived'[d].roots = derived[d].roots
          /\ derived'[d].status = "active" => derived[d].status = "active"
    BY <1>1 DEF LineageInv, MemoriesTyped, OnlyRetires
<1>3. /\ DOMAIN derived' = DOMAIN derived
      /\ Active' \subseteq Active
      /\ UNCHANGED <<ingested, forgotten>>
      /\ open \subseteq open'
    BY <1>1, <1>2 DEF OnlyRetires, Active, RollbackConsolidation, RollbackInterrupted, claimVars
<1>4. DOMAIN runs' = DOMAIN runs /\ RunRecords'
    BY DEF RollbackConsolidation, RollbackInterrupted, LineageInv, RunRecords
<1>5. ASSUME NEW d \in DOMAIN derived, d.kind # "episode", NEW s \in d.sources
      PROVE  /\ SourceKept(s, d)'
             /\ (d \in Active /\ s \in DOMAIN derived)' => SourceActive(s, d)'
  <2>1. SourceKept(s, d) /\ (d \in Active /\ s \in DOMAIN derived => SourceActive(s, d))
      BY <1>5 DEF LineageInv
  <2>2. SourceKept(s, d)'
      BY <1>3, <2>1 DEF SourceKept, ToRepeat
  <2>3. ASSUME d \in Active', s \in DOMAIN derived' PROVE SourceActive(s, d)'
    <3>1. SourceActive(s, d)
        BY <1>3, <2>1, <2>3
    <3>2. CASE s \notin Active
        BY <1>3, <1>4, <3>1, <3>2 DEF SourceActive, ToRepeat
    <3>3. CASE s \in Active /\ RollbackConsolidation(run)
      <4>1. d \notin Descendants(runs[run].created, run.scope)
          BY <1>2, <2>3, <3>3 DEF RollbackConsolidation, Active, LineageInv, MemoriesTyped
      <4>2. s \notin runs[run].created /\ s \notin Descendants(runs[run].created, run.scope)
          BY <1>3, <1>5, <2>3, <4>1, DescendantsAreAll
      <4>3. s \in Active'
          BY <3>3, <4>2 DEF RollbackConsolidation, Active
      <4> QED
          BY <4>3 DEF SourceActive
    <3>4. CASE \E stale : RollbackInterrupted(run, stale)
        BY <1>4, <3>4 DEF RollbackInterrupted, SourceActive
    <3> QED
        BY <3>2, <3>3, <3>4
  <2> QED
      BY <2>2, <2>3
<1> QED
    BY <1>2, <1>3, <1>4, <1>5 DEF LineageInv, MemoriesTyped, Shaped

\* A forget that reaches a source reaches what is built from it, when it is not
\* cut short; one that is cut short is to be repeated.
LEMMA ForgetKeepsLineage ==
    ASSUME ClaimsInv, LineageInv, NEW e \in Events, NEW mode \in Modes,
           NEW memories \in SUBSET ReachedMemories(e), NEW sums,
           Propagate(e, mode, memories, sums),
           \/ open' = open \ {e} /\ memories = ReachedMemories(e)
           \/ open' = open \cup {e}
    PROVE  LineageInv'
<1>1. \A d \in DOMAIN derived' :
          /\ d \in DOMAIN derived
          /\ derived'[d] \in [status : Statuses, roots : SUBSET Events, at : Times]
          /\ derived'[d].roots = derived[d].roots
          /\ derived'[d].status = "active" => derived[d].status = "active" /\ d \notin memories
          /\ d \in memories => Mode(e, mode) # "erasure"
    BY PropagateLeaves DEF LineageInv
<1>2. UNCHANGED <<ingested, runs>>
    BY DEF Propagate
<1>3. /\ forgotten'[e] = Mode(e, mode) /\ Mode(e, mode) # None
      /\ \A f \in Events \ {e} : forgotten'[f] = forgotten[f]
    BY ClaimsAssumption DEF Propagate, Mode, Modes, ClaimsInv, ClaimsTypeOK, MarkerRecords
<1>4. \A d \in DOMAIN derived \ DOMAIN derived' : d \in memories /\ Mode(e, mode) = "erasure"
    BY DEF Propagate
<1>5. \A d \in DOMAIN derived \ memories : d \in DOMAIN derived' /\ derived'[d] = derived[d]
    BY DEF Propagate
<1>6. \A r \in DOMAIN runs : r # e
    BY IdsAssumption DEF LineageInv, IsEpisodeId
<1>7. \A d \in memories : e \in RootsOf(d) /\ ReachesDerived(MarkerScope(e), d.scope)
    BY DEF ReachedMemories, LineageInv, Shaped
<1>8. ASSUME NEW d \in DOMAIN derived', d.kind # "episode", NEW s \in d.sources
      PROVE  /\ SourceKept(s, d)'
             /\ (d \in Active /\ s \in DOMAIN derived)' => SourceActive(s, d)'
  <2>1. /\ SourceKept(s, d)
        /\ d \in Active /\ s \in DOMAIN derived => SourceActive(s, d)
        /\ Shaped(d) /\ SourceOf(s, d)
      BY <1>1, <1>8 DEF LineageInv, Shaped
  <2>2. /\ RootsOf(s) \subseteq RootsOf(d)
        /\ \A marker : ReachesDerived(marker, s.scope) => ReachesDerived(marker, d.scope)
      BY <1>8, <2>1, SourceRoots
  \* A forget that is not cut short reaches the memory if it reaches a source.
  <2>3. ASSUME e \in RootsOf(s), ReachesDerived(MarkerScope(e), d.scope)
        PROVE  d \in memories \/ ToRepeat(e, s, d)'
    <3>1. d \in ReachedMemories(e)
        BY <1>1, <1>8, <2>1, <2>2, <2>3 DEF ReachedMemories, Shaped
    <3> QED
        BY <2>3, <3>1 DEF ToRepeat
  <2>4. ASSUME NEW f, ToRepeat(f, s, d), f # e PROVE ToRepeat(f, s, d)'
      BY <2>4 DEF ToRepeat
  <2>5. SourceKept(s, d)'
    <3>1. CASE s \in DOMAIN derived'
        BY <3>1 DEF SourceKept
    <3>2. CASE s \in DOMAIN derived \ DOMAIN derived'
      <4>1. Mode(e, mode) = "erasure" /\ ToRepeat(e, s, d)'
          BY <1>1, <1>4, <1>7, <1>8, <2>2, <2>3, <3>2
      <4> QED
          BY <1>3, <4>1 DEF SourceKept
    <3>3. CASE s \notin DOMAIN derived
      <4>1. PICK f : ToRepeat(f, s, d) /\ forgotten[f] = "erasure"
          BY <2>1, <3>3 DEF SourceKept
      <4>2. CASE f # e
          BY <1>3, <2>4, <4>1, <4>2 DEF SourceKept, ToRepeat
      <4>3. CASE f = e
        <5>1. Mode(e, mode) = "erasure"
            BY <4>1, <4>3 DEF Mode
        <5>2. ToRepeat(e, s, d)'
            BY <1>1, <1>8, <2>3, <4>1, <4>3, <5>1 DEF ToRepeat
        <5> QED
            BY <1>3, <5>1, <5>2 DEF SourceKept
      <4> QED
          BY <4>2, <4>3
    <3> QED
        BY <3>1, <3>2, <3>3
  <2>6. ASSUME d \in Active', s \in DOMAIN derived' PROVE SourceActive(s, d)'
    <3>1. d \in Active /\ d \notin memories /\ s \in DOMAIN derived /\ SourceActive(s, d)
        BY <1>1, <2>1, <2>6 DEF Active
    <3>2. CASE s \in Active /\ s \notin memories
        BY <1>5, <3>2 DEF SourceActive, Active
    <3>3. CASE s \in memories
        BY <1>7, <2>2, <2>3, <3>1, <3>3 DEF SourceActive
    <3>4. ASSUME NEW f, ToRepeat(f, s, d) PROVE SourceActive(s, d)'
        BY <2>3, <2>4, <3>1, <3>4 DEF SourceActive, ToRepeat
    <3>5. ASSUME NEW r \in DOMAIN runs, r \in open PROVE SourceActive(s, d)'
        BY <1>2, <1>6, <3>5 DEF SourceActive
    <3> QED
        BY <3>1, <3>2, <3>3, <3>4, <3>5 DEF SourceActive
  <2> QED
      BY <2>5, <2>6
<1>9. MemoriesTyped' /\ \A d \in DOMAIN derived' : Shaped(d)'
    BY <1>1, <1>2 DEF LineageInv, MemoriesTyped, Shaped
<1> QED
    BY <1>2, <1>8, <1>9 DEF LineageInv, RunRecords

LEMMA NextPreservesLineage == ClaimsInv /\ LineageInv /\ [Next]_vars => LineageInv'
<1> SUFFICES ASSUME ClaimsInv, LineageInv, [Next]_vars PROVE LineageInv'
    OBVIOUS
<1>1. ASSUME UNCHANGED <<derived, runs, forgotten, open>>, ingested \subseteq ingested'
      PROVE  LineageInv'
    BY <1>1 DEF LineageInv, MemoriesTyped, RunRecords, Shaped, SourceKept, SourceActive, ToRepeat, Active
<1>2. CASE ClaimsNext /\ UNCHANGED derivedVars
    BY <1>1, <1>2 DEF ClaimsNext, IngestEvent, CreateClaim, SupersedeClaim, Tick, derivedVars
<1>3. CASE UNCHANGED vars
    BY <1>1, <1>3 DEF vars, claimVars, derivedVars
<1>4. ASSUME NEW s \in Scopes, NEW t \in Turns, ConsolidateTurn(s, t) PROVE LineageInv'
  <2>1. /\ OnlyCreates(TurnEpisode(s, t), TurnEvents(s, t))
        /\ TurnEpisode(s, t) \notin DOMAIN derived
        /\ UNCHANGED <<ingested, runs>>
      BY <1>4, TurnOnlyCreates
  <2>2. RunsKept
      BY <2>1 DEF LineageInv, RunsKept, RunRecords
  <2> QED
      BY <2>1, <2>2, EpisodeKeepsLineage
<1>5. ASSUME NEW s \in Scopes, NEW t \in Turns, NEW at \in 0 .. now, ApplyConsolidation(s, t, at)
      PROVE  LineageInv'
  <2> DEFINE id == TurnEpisode(s, t)
  <2>1. at \in Times
      BY <1>5, ClaimsAssumption DEF ClaimsInv, ClaimsTypeOK, Times
  <2>2. OnlyCreates(id, TurnEvents(s, t))
      BY <1>5, <2>1 DEF ApplyConsolidation, Create, OnlyCreates, claimVars
  <2>3. UNCHANGED ingested /\ (id \notin DOMAIN derived \/ UNCHANGED derived)
      BY <1>5 DEF ApplyConsolidation, claimVars
  <2>4. IsEpisodeId(id)
    <3>1. TurnEvents(s, t) \in SUBSET Events
        BY DEF TurnEvents, ClaimsInv, ClaimsTypeOK
    <3> QED
        BY <3>1 DEF IsEpisodeId, TurnEpisode
  <2>5. runs' = With(runs, id,
            [created |-> {id} \ DOMAIN derived, at |-> at, status |-> "committed"])
      BY <1>5 DEF ApplyConsolidation
  <2>6. /\ DOMAIN runs' = DOMAIN runs \cup {id}
        /\ runs'[id] = [created |-> {id} \ DOMAIN derived, at |-> at, status |-> "committed"]
        /\ \A r \in DOMAIN runs \ {id} : runs'[r] = runs[r]
      BY <2>5 DEF With
  <2>7. RunsKept
      BY <2>1, <2>4, <2>6 DEF LineageInv, RunsKept, RunRecords
  <2> QED
      BY <2>2, <2>3, <2>7, EpisodeKeepsLineage
<1>6. ASSUME NEW k \in {"session_summary", "project_summary", "period_summary"},
             NEW s \in Scopes, NEW p \in Periods \cup {None}, ConsolidateSummary(k, s, p)
      PROVE  LineageInv'
    BY <1>6, SummaryKeepsLineage
<1>7. ASSUME NEW r \in DOMAIN runs, RollbackConsolidation(r) PROVE LineageInv'
    BY <1>7, RollbackKeepsLineage
<1>8. ASSUME NEW r \in DOMAIN runs, NEW stale, RollbackInterrupted(r, stale) PROVE LineageInv'
    BY <1>8, RollbackKeepsLineage
<1>9. ASSUME NEW c \in Candidates, ConsolidateClaims(c.scope, c.property) PROVE LineageInv'
    BY <1>1, <1>9 DEF ConsolidateClaims, claimVars
<1>10. ASSUME NEW e \in Events, NEW s \in Scopes, NEW mode \in Modes, ForgetDerivedSource(e, s, mode)
       PROVE  LineageInv'
    BY <1>10, ForgetKeepsLineage DEF ForgetDerivedSource
<1>11. ASSUME NEW e \in Events, NEW s \in Scopes, NEW mode \in Modes,
              NEW memories \in SUBSET ReachedMemories(e), NEW sums,
              ForgetInterrupted(e, s, mode, memories, sums)
       PROVE  LineageInv'
    BY <1>11, ForgetKeepsLineage DEF ForgetInterrupted
<1> QED
    BY <1>2, <1>3, <1>4, <1>5, <1>6, <1>7, <1>8, <1>9, <1>10, <1>11 DEF Next, Modes

\* Without an operation that a crash cut short, verify_derived_lineage() has
\* nothing to report: consolidation, rollback_consolidation() and
\* forget_derived_source() in whatever order keep sources and roots in step.
THEOREM LineagesVerify == Spec => []LineageVerifies
<1>1. Init => LineageInv
    BY DEF Init, LineageInv, MemoriesTyped, RunRecords
<1> QED
    BY <1>1, LineageInvVerifies, NextPreservesLineage, ClaimsInvariant, PTL DEF Spec
=============================================================================
