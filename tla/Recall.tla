------------------------------- MODULE Recall -------------------------------
(***************************************************************************)
(* The read-only recall pipeline: the corpus a caller is authorized for,   *)
(* the semantic, lexical, graph and temporal branches, the union of their  *)
(* candidates, its ranking, and the context composed of the results        *)
(* (engine.rs: recall(), compose_context(); recall_pipeline.rs).           *)
(*                                                                         *)
(* A request says what the two text branches score each memory, what its   *)
(* query mentions, and its budgets.  The graph and the temporal branch     *)
(* count one point for a hit; their own budgets of memories, and the       *)
(* candidate limit of the text branches, are not reached.  Similarity of   *)
(* vectors is left out: any choice of diverse results is allowed.  What a  *)
(* caller may see of a memory of each treatment is in `disclosure'.        *)
(***************************************************************************)
EXTENDS MemoryCorpus, KeyOrder

CONSTANTS
    RecallRequests,     \* recall requests
    Disclosure,   \* of a treatment: "include", "redact", "summarize" or "abstain"
    Cost,         \* of a text: the tokens of each of its words, in order
    Threshold,    \* score_threshold
    MaxResults    \* max_results

\* RecallRequest: what it mentions, where, and how much of it.
ASSUME RecallAssumption ==
    /\ \A q \in RecallRequests :
           /\ DOMAIN q = {"scope", "about", "labels", "semantic", "lexical", "filter", "union",
                          "limit", "depth", "edges", "entities", "tokens"}
           /\ q.scope \in Scopes /\ q.filter \subseteq Memories
           /\ {q.semantic, q.lexical} \subseteq [Memories -> Nat]
           /\ {q.union, q.limit, q.depth, q.tokens} \subseteq Nat \ {0}
    /\ MaxResults \in Nat \ {0}
    /\ \A t \in DOMAIN Disclosure :
           /\ Disclosure[t] \in {"include", "redact", "summarize", "abstain"}
           /\ Disclosure[t] = "abstain" => t = "quarantined"
    /\ {"normal", "sensitive", "restricted", "quarantined"} \subseteq DOMAIN Disclosure
    /\ None \notin {"no_visible_candidates", "policy_restricted", "below_threshold"}

\* What a word costs is its length in fours, and at least one.
ASSUME CostAssumption ==
    /\ {"restricted summary", "redacted"} \cup {Content[m].text : m \in Memories} \subseteq DOMAIN Cost
    /\ \A text \in DOMAIN Cost : Cost[text] \in Seq(Nat \ {0})

-----------------------------------------------------------------------------
\* The corpus.

\* authorized_recall_records()
Authorized(q) ==
    {m \in Gettable(q.scope) \cap q.filter :
        memories[m].state # "archived" /\ Content[m].treatment # "quarantined"}

Mentioned(q) == {c \in VisibleClaims(q.scope) : c.property \in q.about}

Reading(c) == [scope |-> c.scope, property |-> c.property, valid |-> now, known |-> now]

CurrentlyHeld(q) == {c \in Mentioned(q) : c \in LatestClaims(Reading(c))}

EvidenceOf(set) == UNION {ActiveEvidence(c) : c \in set}
SupportOf(set) == UNION {ActiveEvidence(c) \cap c.supports : c \in set}

\* inactive_claim_events_for_query()
RetiredEvents(q) ==
    EvidenceOf(Mentioned(q) \ CurrentlyHeld(q)) \ EvidenceOf(CurrentlyHeld(q))

Corpus(q) ==
    LET retired == RetiredEvents(q) IN {m \in Authorized(q) : Content[m].event \notin retired}

-----------------------------------------------------------------------------
\* The branches.

\* filtered_semantic_candidates()
SemanticHits(q, corpus) == {m \in corpus : q.semantic[m] > 0}

\* filtered_lexical_candidates()
LexicalHits(q, corpus) == {m \in corpus : q.lexical[m] > 0}

TextHits(q, corpus) == SemanticHits(q, corpus) \cup LexicalHits(q, corpus)

\* graph_query_seeds() and bound_entity_ids()
Seeds(q, hits) ==
    {a.entity : a \in {b \in DOMAIN aliases :
        b.scope = q.scope /\ b.label \in q.labels
            /\ aliases[b].at <= now /\ ValidAt(aliases[b], now)}}
    \cup {b.entity : b \in {c \in bindings : c.scope = q.scope /\ c.memory \in hits}}

Walk(q, seeds) ==
    LET request == [scope |-> q.scope, seeds |-> seeds, names |-> {}, depth |-> q.depth,
                    edges |-> q.edges, entities |-> q.entities, valid |-> now, known |-> now]
    IN  Traverse(request, SetToSeq(Walkable(request)))

\* Mutant: the memories that entities are bound to are not looked up in the corpus.
GraphHitsAnywhere(q, corpus, seeds) ==
    LET reached == Walk(q, seeds).entities
    IN  {b.memory : b \in {c \in bindings : c.scope = q.scope /\ c.entity \in reached}}
            \cap DOMAIN memories

\* add_graph_candidates()
GraphHits(q, corpus, seeds) ==
    LET reached == Walk(q, seeds).entities
    IN  {m \in corpus : \E b \in bindings :
            b.scope = q.scope /\ b.memory = m /\ b.entity \in reached}

\* add_temporal_candidates(): what supports a claim that is held, not what refutes or
\* qualifies it.
TemporalHits(q, corpus) ==
    LET held == SupportOf(CurrentlyHeld(q)) IN {m \in corpus : Content[m].event \in held}

\* What each branch of recall() finds.
Found(q) ==
    LET corpus == Corpus(q)
        text == TextHits(q, corpus)
    IN  [text |-> text,
         graph |-> GraphHits(q, corpus, Seeds(q, text)),
         temporal |-> TemporalHits(q, corpus)]

-----------------------------------------------------------------------------
\* The union, the scores and the results, given what was found.

Point(m, hits) == IF m \in hits THEN 1 ELSE 0

Best(q, found, m) ==
    Max({q.semantic[m], q.lexical[m], Point(m, found.graph \cup found.temporal)})

Hits(found) == found.text \cup found.graph \cup found.temporal

\* truncate_candidate_union(): those with the best branch, the first ids among equals.
Retained(q, found) ==
    {m \in Hits(found) :
        Cardinality({k \in Hits(found) :
            \/ Best(q, found, k) > Best(q, found, m)
            \/ Best(q, found, k) = Best(q, found, m) /\ k < m}) < q.union}

\* recall::score(), and the weights of the graph and the temporal branch.
FinalScore(q, found, m) ==
    q.semantic[m] + q.lexical[m] + memories[m].importance
        + Point(m, found.graph) + Point(m, found.temporal)

\* disclose_memory(): all that is summarized reads the same.
Disclosed(m) ==
    CASE Disclosure[Content[m].treatment] = "summarize" -> "restricted summary"
      [] Disclosure[Content[m].treatment] = "redact" -> "redacted"
      [] OTHER -> Content[m].text

Policy(m) == Disclosure[Content[m].treatment]

Scored(q, found) ==
    {m \in Retained(q, found) :
        Policy(m) # "abstain" /\ FinalScore(q, found, m) >= Threshold}

Better(q, found, m, k) ==
    \/ FinalScore(q, found, m) > FinalScore(q, found, k)
    \/ FinalScore(q, found, m) = FinalScore(q, found, k) /\ m < k

\* candidate_citation(), recall_reasons(): what a result says of the memories it
\* stands for, the branches that the sections of a context are made of.
Result(m, cited, found) ==
    [memory |-> m, cites |-> cited,
     temporal |-> cited \cap found.temporal # {}, graph |-> cited \cap found.graph # {}]

\* Mutant: a result cites its best memory alone.
MergedUncited(q, found) ==
    LET scored == Scored(q, found)
        first == {m \in scored :
                     \A k \in scored \ {m} : Disclosed(k) = Disclosed(m) => Better(q, found, m, k)}
    IN  {Result(m, {m}, found) : m \in first}

\* merge_disclosed_duplicates(): one result for each text, that of its best
\* memory, which cites them all.
Merged(q, found) ==
    LET scored == Scored(q, found)
    IN  {Result(CHOOSE m \in group : \A k \in group \ {m} : Better(q, found, m, k), group, found) :
            group \in {{k \in scored : Disclosed(k) = Disclosed(m)} : m \in scored}}

Target(q) == Min({MaxResults, q.limit})

\* diversify(): as many as the limit allows, in any order.
Responses(q, found) ==
    LET merged == Merged(q, found)
        n == Min({Target(q), Cardinality(merged)})
    IN  UNION {SetToSeqs(set) : set \in {s \in SUBSET merged : Cardinality(s) = n}}

\* RecallAbstention
Abstention(q, found) ==
    IF Scored(q, found) # {} THEN None
    ELSE IF Retained(q, found) = {} THEN "no_visible_candidates"
    ELSE IF \A m \in Retained(q, found) : Policy(m) = "abstain" THEN "policy_restricted"
    ELSE "below_threshold"

-----------------------------------------------------------------------------
\* compose_context().

\* estimate_tokens(), of the words of a text.
Tokens(words) ==
    LET sum[n \in 0 .. Len(words)] == IF n = 0 THEN 0 ELSE sum[n - 1] + words[n]
    IN  sum[Len(words)]

\* truncate_to_token_budget(): the words up to the first that does not fit.
Fitting(words, budget) ==
    LET fits(n) == Tokens(SubSeq(words, 1, n)) <= budget
    IN  SubSeq(words, 1, Max({n \in 0 .. Len(words) : \A k \in 0 .. n : fits(k)}))

\* Current truth, related evidence, evidence.
Rank(result) == IF result.temporal THEN 0 ELSE IF result.graph THEN 1 ELSE 2

\* The results as sort_by_key() leaves them: by rank, and those of one rank as
\* they were.
Sections(response) ==
    LET key(i) == Rank(response[i]) * Len(response) + i
        order == InOrder({key(i) : i \in DOMAIN response})
    IN  [k \in DOMAIN response |-> response[CHOOSE i \in DOMAIN response : key(i) = order[k]]]

\* Mutant: a section that was cut to what is left does not end the composition.
AddAndGoOn(context, result) ==
    LET words == Cost[Disclosed(result.memory)]
        kept == Fitting(words, context.left)
    IN  IF Tokens(kept) = 0 THEN context
        ELSE [context EXCEPT !.left = @ - Tokens(kept), !.sections = Append(@, kept)]

\* A result whose first word does not fit is passed over, and those after it
\* are tried; a section that was cut is the last.
Add(context, result) ==
    LET words == Cost[Disclosed(result.memory)]
        kept == Fitting(words, context.left)
    IN  IF context.cut \/ context.left = 0 \/ Tokens(kept) = 0 THEN context
        ELSE [left |-> context.left - Tokens(kept),
              sections |-> Append(context.sections, kept),
              cut |-> kept # words]

Compose(response, budget) ==
    LET results == Sections(response)
        context[n \in 0 .. Len(results)] ==
            IF n = 0 THEN [left |-> budget, sections |-> <<>>, cut |-> FALSE]
            ELSE Add(context[n - 1], results[n])
    IN  context[Len(results)]

Truncated(response, context) == context.cut \/ Len(context.sections) < Len(response)

-----------------------------------------------------------------------------
\* Properties.

Cited(response) == UNION {response[i].cites : i \in DOMAIN response}

\* Whatever branch finds a memory, and whichever result cites it: the caller
\* sees it, it is neither archived nor quarantined, and it does not rest on
\* evidence only of claims that no longer hold.
RecallIsAuthorized ==
    \A q \in RecallRequests : \A response \in Responses(q, Found(q)) : \A m \in Cited(response) :
        /\ MemoryVisible(m, q.scope) /\ m \in q.filter
        /\ memories[m].state # "archived" /\ Content[m].treatment # "quarantined"
        /\ \A c \in Mentioned(q) :
               Content[m].event \in ActiveEvidence(c) =>
                   \E d \in CurrentlyHeld(q) : Content[m].event \in ActiveEvidence(d)

\* Where nothing was truncated and there was room for more results, every
\* memory that a branch finds and the threshold lets through is cited; an
\* empty answer gives the reason that holds.
RecallIsComplete ==
    \A q \in RecallRequests :
        LET found == Found(q)
            due == {m \in Hits(found) : FinalScore(q, found, m) >= Threshold}
        IN  /\ Cardinality(Hits(found)) <= q.union =>
                   \A response \in Responses(q, found) :
                       Len(response) < Target(q) => due \subseteq Cited(response)
            /\ Abstention(q, found) = "no_visible_candidates" <=> Hits(found) = {}
            /\ Abstention(q, found) # "policy_restricted"

\* What the sections of a context cost together.
Spent(sections) == Tokens([i \in DOMAIN sections |-> Tokens(sections[i])])

\* A composed context costs what it reports, which is no more than its budget,
\* and one that is not reported as truncated holds every result in full.
ContextIsHonest ==
    \A q \in RecallRequests : \A response \in Responses(q, Found(q)) :
        LET context == Compose(response, q.tokens)
            results == Sections(response)
        IN  /\ context.left \in 0 .. q.tokens
            /\ Spent(context.sections) = q.tokens - context.left
            /\ ~Truncated(response, context) =>
                   context.sections =
                       [i \in DOMAIN results |-> Cost[Disclosed(results[i].memory)]]

\* "Superseded or recanted claims leave current results" (rust/README.md): a
\* memory whose event some retired claim about the query rests on, and no
\* current one, is not recalled, whether or not the event was forgotten.
RetiredIsNotRecalled ==
    \A q \in RecallRequests : \A response \in Responses(q, Found(q)) : \A m \in Cited(response) :
        (\E c \in DOMAIN claims :
            /\ c.scope = q.scope /\ c.property \in q.about /\ Content[m].event \in c.evidence
            /\ \E l \in DOMAIN links : l.original = c /\ Retires(l, Reading(c)))
        => \E d \in CurrentlyHeld(q) : Content[m].event \in d.evidence
=============================================================================
