------------------------------ MODULE MCRecall ------------------------------
(***************************************************************************)
(* Instances of the memories, of recall and of an MCP session.  A          *)
(* behaviour is about the corpus, whose memories come, change and go; about *)
(* recall, where all memories are stored and the claims, the markers of    *)
(* forgotten events and the bindings around them change; about what a      *)
(* session confirms, subscribes to or lists while it changes memories; or  *)
(* about the filters that recall is asked with.                            *)
(***************************************************************************)
EXTENDS StdioSession, DerivedMemories, RecallFilters

CONSTANTS p1, s1, s2, e1, e2, t1, red, blue

VARIABLE about
mcvars == <<vars, graphVars, corpusVars, sessionVars, filterVars, about>>

S1 == [project |-> p1, session |-> s1]
S2 == [project |-> p1, session |-> s2]
Local == [project |-> None, session |-> None]
MCScopes == {S1, S2, Local}

MCSource == [e \in {e1, e2} |-> [kind |-> "session", scope |-> S1, turn |-> t1]]

Claim(value, evidence, supports) ==
    [scope |-> S1, property |-> "colour", value |-> value, from |-> None, to |-> None,
     evidence |-> evidence, supports |-> supports]

\* What e1 says is superseded by what e2 says; a third claim rests on both, and is
\* supported by one of them.
MCCandidates == {Claim(red, {e1}, {e1}), Claim(blue, {e2}, {e2}), Claim(blue, {e1, e2}, {e2})}

Ann == [scope |-> S1, type |-> "person", label |-> "Ann"]
Bea == [scope |-> S1, type |-> "person", label |-> "Bea"]
AnnElsewhere == [scope |-> S2, type |-> "person", label |-> "Ann"]
MCEntities == {Ann, Bea, AnnElsewhere}

Memory(scope, kind, event, treatment, mentions, text, importance) ==
    [scope |-> scope, kind |-> kind, event |-> event, treatment |-> treatment,
     mentions |-> mentions, text |-> text, importance |-> importance]

\* Two memories that say the same, one of them seen in the whole project; one
\* that is quarantined; one of the tenant's local identity.
MCContent ==
    <<Memory(S1, "session", e1, "normal", {"Ann"}, "red", 1),
      Memory(S1, "project", e2, "sensitive", {"Ann", "Bea"}, "red", 2),
      Memory(Local, "project", None, "normal", {"Bea"}, "blue", 1),
      Memory(S1, "project", None, "quarantined", {"Ann"}, "blue", 1)>>

MCPatches == {[importance |-> None, state |-> "archived", kind |-> None],
              [importance |-> 1, state |-> None, kind |-> "session"]}

\* An owner's purposes.
MCDisclosure == [normal |-> "include", sensitive |-> "include", restricted |-> "summarize",
                 quarantined |-> "abstain"]

MCCost == ("red" :> <<1, 2>>) @@ ("blue" :> <<3>>)
              @@ ("redacted" :> <<2>>) @@ ("restricted summary" :> <<3, 2>>)

Scores(one, two, four) == <<one, two, 0, four>>

Request(scope, semantic, lexical, union, limit, tokens) ==
    [scope |-> scope, about |-> {"colour"}, labels |-> {"Ann"}, semantic |-> semantic,
     lexical |-> lexical, filter |-> Memories, union |-> union, limit |-> limit,
     depth |-> 1, edges |-> 2, entities |-> 2, tokens |-> tokens]

\* Queries whose text finds nothing, one memory or all, at the limits of the
\* budgets of candidates, results and tokens.
MCRecallRequests ==
    {Request(S1, Scores(0, 0, 0), Scores(0, 0, 0), 4, 2, 4),
     Request(S1, Scores(2, 1, 2), Scores(1, 0, 2), 4, 2, 2),
     Request(S1, Scores(1, 0, 1), Scores(0, 0, 0), 1, 2, 3),
     Request(S2, Scores(1, 1, 1), Scores(0, 1, 0), 4, 1, 5)}

Field(field, operator, value) ==
    [is |-> "predicate", field |-> field, operator |-> operator, value |-> value]
Operand(shape, items) == [shape |-> shape, items |-> items]

\* Every operator on a field of every kind, with operands that fit and do not.
MCPredicates ==
    [is : {"predicate"},
     field : {"project_id", "scope", "importance", "event_at_ms", "tags"},
     operator : {"eq", "ne", "in", "not_in", "prefix", "contains", "between"}
                    \cup Ordering \cup Nullity,
     value : {None} \cup [shape : {"string"}, items : {<<<<red>>>>}]
                 \cup [shape : {"integer"}, items : {<<1>>}]
                 \cup [shape : {"float"}, items : {<<2>>, <<NotStorable>>}]
                 \cup [shape : {"strings"}, items : {<<>>, <<<<red>>>>, <<<<red>>, <<red, blue>>>>}]
                 \cup [shape : {"integers", "floats"},
                       items : {<<1>>, <<0, 1>>, <<2, 1>>, <<0, 1, 2>>, <<1, NotStorable>>}]]

\* Trees of up to one level more than is allowed.
MCLeaves ==
    {[is |-> "match_all"], Field("project_id", "eq", Operand("string", <<<<red>>>>)),
     Field("importance", "between", Operand("floats", <<0, 1>>)),
     Field("event_at_ms", "is_null", None), Field("tags", "eq", Operand("string", <<<<red>>>>))}
MCTrees(low, high) ==
    {NotOf(f) : f \in high} \cup {AllOf(<<>>), AnyOf(<<>>)}
        \cup {[is |-> is, of |-> <<f, g>>] : is \in {"all", "any"}, f \in low, g \in high}
MCTwo == MCTrees(MCLeaves, MCLeaves)
MCExpressions ==
    MCPredicates \cup MCLeaves \cup MCTwo \cup MCTrees(MCLeaves, MCTwo)
        \cup {NotOf(NotOf(f)) : f \in MCTwo}

MCDocuments ==
    [project_id : {None, <<red>>, <<red, blue>>}, scope : {<<red>>}, importance : {0, 1, 2},
     event_at_ms : {None, 1}, tags : {<<>>, <<<<blue>>, <<red>>>>}]

MCInit ==
    /\ Init /\ GraphInit /\ CorpusInit /\ SessionInit /\ FilterInit
    /\ about \in {"corpus", "recall", "confirming", "subscribing", "listing", "filters"}
    /\ ingested = Events

\* What the clients have stored before: two people who know each
\* other, and one of another session.
People ==
    /\ entities' = Entities
    /\ aliases' = [a \in {Alias(e, e.label) : e \in Entities} |->
                      [from |-> None, to |-> None, at |-> now]]
    /\ relations' = [r \in {[scope |-> S1, source |-> Ann, name |-> "knows", target |-> Bea,
                             version |-> 1, from |-> None, to |-> None]} |->
                        [traversable |-> TRUE, directed |-> FALSE, at |-> now]]
    /\ UNCHANGED <<types, relationTypes, lineages>>

\* All memories are stored before recall is looked at, and two before pages are.
Start ==
    /\ entities = {}
    /\ about # "filters"
    /\ People
    /\ memories' = [m \in CASE about = "recall" -> Memories
                               [] about = "listing" -> {1, 2}
                               [] OTHER -> {} |->
                       [kind |-> Content[m].kind, state |-> "active", revision |-> 1,
                        importance |-> Content[m].importance, last |-> now]]
    /\ UNCHANGED <<vars, index, bindings, deleted, sessionVars, filterVars, about>>

MCNext ==
    \/ Start
    \/ /\ about = "filters"
       /\ asked.is = "match_all"
       /\ FilterNext
       /\ UNCHANGED <<vars, graphVars, corpusVars, sessionVars, about>>
    \/ /\ entities # {}
       /\ UNCHANGED <<graphVars, filterVars, about>>
       /\ \/ /\ about = "corpus"
             /\ UNCHANGED sessionVars
             /\ \/ CorpusNext /\ UNCHANGED vars
                \/ Tick /\ UNCHANGED <<corpusVars, derivedVars>>
             /\ DOMAIN memories' \subseteq {2, 3}
             /\ Cardinality({m \in DOMAIN memories' : memories'[m].revision > 1}) <= 1
          \/ /\ about = "recall"
             /\ UNCHANGED sessionVars
             /\ \/ /\ \/ \E c \in Candidates : CreateClaim(c)
                      \/ \E l \in Links : l.effective = 0 /\ SupersedeClaim(l)
                   /\ UNCHANGED <<derivedVars, corpusVars>>
                \/ /\ \E e \in Events, s \in Scopes : ForgetDerivedSource(e, s, "retraction")
                   /\ UNCHANGED corpusVars
                \/ /\ \E m \in {1, 2, 4}, s \in {S1, S2} :
                          \/ \E e \in entities : BindMemoryEntity(m, e, s)
                          \/ \E p \in MCPatches : UpdateMemory(m, s, 1, p)
                   /\ Cardinality(bindings') + Cardinality({m \in Memories : memories'[m].revision > 1}) <= 2
                   /\ Cardinality(bindings') <= 1
                   /\ UNCHANGED vars
          \/ /\ about \in {"confirming", "subscribing", "listing"}
             /\ \/ SessionNext /\ UNCHANGED vars
                \/ Tick /\ UNCHANGED <<corpusVars, sessionVars, derivedVars>>
             /\ about = "confirming" =>
                    DOMAIN memories' \subseteq {3} /\ subscriptions' = {} /\ walk' = None
             /\ about = "subscribing" =>
                    DOMAIN memories' \subseteq {2} /\ Len(tickets') <= 1 /\ walk' = None
             /\ about = "listing" =>
                    /\ DOMAIN memories' \subseteq {1, 2} /\ subscriptions' = {}
                    /\ Len(tickets') <= 1 /\ \A t \in DOMAIN tickets' : tickets'[t].resource < 2
                    /\ walk = None => tickets' = <<>> /\ index' = {}
                    /\ walk' # None => walk'.scope = S1
                    /\ walk # None => phase' = "ready" /\ walk'.offset >= walk.offset

MCSpec == MCInit /\ [][MCNext]_mcvars
=============================================================================
