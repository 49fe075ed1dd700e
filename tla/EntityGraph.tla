----------------------------- MODULE EntityGraph -----------------------------
(***************************************************************************)
(* The temporal graph of canonical entities: its ontology, the entities    *)
(* and their aliases, the typed relations, merges and splits, and the two  *)
(* walks over them, traversal and resolution                               *)
(* (rust/crates/celiums-memory-engine/src/graph.rs; engine.rs:             *)
(* define_entity_type() to resolve_entity_id()).                           *)
(*                                                                         *)
(* Ids are hashes of what the records here hold.  Everything in the graph  *)
(* is seen in exactly the scope it was made in.  Excerpts and confidences  *)
(* are left out, and of the evidence all but that there is some; so are    *)
(* the edges that differ from another in their evidence alone.  Records    *)
(* are scanned in the order of their hashes: any order.                    *)
(***************************************************************************)
EXTENDS Claims, Sequences, SequencesExt

CONSTANTS
    Entities,       \* the entities that may be made: [scope, type, label]
    Labels,         \* of aliases
    Definitions,    \* the relation types that may be defined
    Validities,     \* of aliases and relations: [from, to], either None
    Requests,       \* traversals: seeds, names, depth, edges, entities, valid, known
    MaxGraph        \* bound on the aliases, on the relations and on the lineages

BuiltIn == {"person", "technology", "project"}

\* CreateEntityRequest, DefineRelationTypeRequest: what the operations refuse.
ASSUME GraphAssumption ==
    /\ \A e \in Entities : DOMAIN e = {"scope", "type", "label"} /\ e.scope \in Scopes
    /\ \A d \in Definitions :
           /\ d.scope \in Scopes /\ d.sources # {} /\ d.targets # {}
           /\ {d.traversable, d.directed} \subseteq BOOLEAN
    /\ \A v \in Validities : v.from = None \/ v.to = None \/ v.from < v.to
    /\ \A r \in Requests : {r.depth, r.edges, r.entities} \subseteq Nat \ {0}
    /\ None \notin {"depth", "edges", "entities"}
    /\ MaxGraph \in Nat

VARIABLES
    types,          \* entity types defined beside those built in: [scope, type]
    relationTypes,  \* of [scope, name, version]: its last definition and when
    entities,
    aliases,        \* of [scope, type, label, entity]: its last validity and when
    relations,      \* of [scope, source, name, target, version, from, to]: how walked, when
    lineages        \* of [source, targets, effective]: when it was last recorded

graphVars == <<types, relationTypes, entities, aliases, relations, lineages>>

EntityRecords ==
    /\ entities \subseteq Entities
    /\ \A e \in entities : e.type \in BuiltIn \/ [scope |-> e.scope, type |-> e.type] \in types

RelationTypeRecords ==
    \A t \in DOMAIN relationTypes :
        /\ relationTypes[t].definition \in Definitions
        /\ relationTypes[t].at \in Times

AliasRecords ==
    \A a \in DOMAIN aliases :
        /\ a.entity \in entities
        /\ a.scope = a.entity.scope /\ a.type = a.entity.type
        /\ aliases[a].at \in Times

RelationRecords ==
    \A r \in DOMAIN relations :
        /\ {r.source, r.target} \subseteq entities
        /\ relations[r] \in [traversable : BOOLEAN, directed : BOOLEAN, at : Times]

LineageRecords ==
    \A l \in DOMAIN lineages :
        /\ {l.source} \cup l.targets \subseteq entities
        /\ lineages[l] \in Times

GraphTypeOK ==
    /\ EntityRecords /\ AliasRecords /\ LineageRecords
    /\ RelationTypeRecords /\ RelationRecords

GraphInit ==
    /\ types = {}
    /\ relationTypes = [t \in {} |-> None]
    /\ entities = {}
    /\ aliases = [a \in {} |-> None]
    /\ relations = [r \in {} |-> None]
    /\ lineages = [l \in {} |-> 0]

-----------------------------------------------------------------------------
\* The ontology.

DefineEntityType(scope, type) ==
    /\ types' = types \cup {[scope |-> scope, type |-> type]}
    /\ UNCHANGED <<relationTypes, entities, aliases, relations, lineages>>

\* require_entity_type()
TypeKnown(scope, type) == type \in BuiltIn \/ [scope |-> scope, type |-> type] \in types

\* define_relation_type(): the same version again replaces what it said.
DefineRelationType(definition) ==
    /\ \A t \in definition.sources \cup definition.targets : TypeKnown(definition.scope, t)
    /\ relationTypes' = With(relationTypes,
           [scope |-> definition.scope, name |-> definition.name, version |-> definition.version],
           [definition |-> definition, at |-> now])
    /\ UNCHANGED <<types, entities, aliases, relations, lineages>>

\* The definitions that create_entity_relation() may take: the last recorded,
\* the highest version among them.
Current(scope, name) ==
    LET named == {t \in DOMAIN relationTypes : t.scope = scope /\ t.name = name}
    IN  {t \in named : \A u \in named :
            \/ relationTypes[u].at < relationTypes[t].at
            \/ relationTypes[u].at = relationTypes[t].at /\ u.version <= t.version}

-----------------------------------------------------------------------------
\* Entities and aliases.

\* validate_graph_evidence(): a forgotten event is evidence still.
HasEvidence(scope) == \E e \in ingested : IngestionVisible(e, scope)

Alias(entity, label) ==
    [scope |-> entity.scope, type |-> entity.type, label |-> label, entity |-> entity]

\* create_entity(): the entity and the alias that its label is, in one commit.
CreateEntity(entity) ==
    /\ entity \notin entities
    /\ TypeKnown(entity.scope, entity.type)
    /\ HasEvidence(entity.scope)
    /\ entities' = entities \cup {entity}
    /\ aliases' = With(aliases, Alias(entity, entity.label),
                       [from |-> None, to |-> None, at |-> now])
    /\ UNCHANGED <<types, relationTypes, relations, lineages>>

\* add_entity_alias(): the same alias again replaces its validity and time.
AddEntityAlias(entity, label, validity) ==
    /\ entity \in entities
    /\ Cardinality(DOMAIN aliases) < MaxGraph
    /\ aliases' = With(aliases, Alias(entity, label),
                       [from |-> validity.from, to |-> validity.to, at |-> now])
    /\ UNCHANGED <<types, relationTypes, entities, relations, lineages>>

\* resolve_entity_alias(): none, one, or an ambiguity.
ResolveAlias(scope, type, label, valid, known) ==
    {a.entity : a \in {b \in DOMAIN aliases :
        /\ b.scope = scope /\ b.type = type /\ b.label = label
        /\ aliases[b].at <= known /\ ValidAt(aliases[b], valid)}}

-----------------------------------------------------------------------------
\* Relations, and the traversal of them.

\* create_entity_relation(); an edge that is known is answered as it is.
CreateEntityRelation(source, name, target, validity) ==
    \E t \in Current(source.scope, name) :
        LET definition == relationTypes[t].definition
            id == [scope |-> source.scope, source |-> source, name |-> name, target |-> target,
                   version |-> t.version, from |-> validity.from, to |-> validity.to]
        IN  /\ {source, target} \subseteq entities /\ target.scope = source.scope
            /\ source.type \in definition.sources /\ target.type \in definition.targets
            /\ HasEvidence(source.scope)
            /\ id \notin DOMAIN relations
            /\ Cardinality(DOMAIN relations) < MaxGraph
            /\ relations' = With(relations, id,
                   [traversable |-> definition.traversable,
                    directed |-> definition.directed, at |-> now])
            /\ UNCHANGED <<types, relationTypes, entities, aliases, lineages>>

\* entity_relations_at(), and the filters of traverse_graph().
Walkable(request) ==
    {r \in DOMAIN relations :
        /\ r.scope = request.scope
        /\ relations[r].at <= request.known /\ ValidAt(r, request.valid)
        /\ relations[r].traversable
        /\ request.names = {} \/ r.name \in request.names}

Touches(relation, entity) ==
    relation.source = entity \/ (~relations[relation].directed /\ relation.target = entity)

Neighbour(relation, entity) ==
    IF relation.source = entity THEN relation.target ELSE relation.source

\* The reason that is given is the first.
Because(walk, reason) == IF walk.reason = None THEN [walk EXCEPT !.reason = reason] ELSE walk

\* Mutant: an entity over the budget is dropped without a word.
InspectQuietly(walk, entity, depth, relation, request) ==
    LET other == Neighbour(relation, entity) IN
    IF walk.cut \/ depth >= request.depth \/ ~Touches(relation, entity) THEN walk
    ELSE IF Cardinality(walk.edges) >= request.edges
         THEN [Because(walk, "edges") EXCEPT !.cut = TRUE]
    ELSE IF other \in walk.entities \/ Cardinality(walk.entities) >= request.entities THEN walk
    ELSE [walk EXCEPT !.edges = @ \cup {relation}, !.entities = @ \cup {other},
                      !.queue = Append(@, <<other, depth + 1>>)]

\* The body of the inner loop of traverse_graph().
Inspect(walk, entity, depth, relation, request) ==
    LET other == Neighbour(relation, entity)
        new == other \notin walk.entities
        crossed == [walk EXCEPT !.edges = @ \cup {relation}]
    IN  IF walk.cut \/ ~Touches(relation, entity) THEN walk
        ELSE IF depth >= request.depth
             THEN IF new THEN Because(walk, "depth") ELSE walk
        ELSE IF Cardinality(walk.edges) >= request.edges
             THEN [Because(walk, "edges") EXCEPT !.cut = TRUE]
        ELSE IF ~new THEN crossed
        ELSE IF Cardinality(walk.entities) >= request.entities
             THEN Because(crossed, "entities")
        ELSE [crossed EXCEPT !.entities = @ \cup {other},
                             !.queue = Append(@, <<other, depth + 1>>)]

\* What an entity of the queue leads to: the walk after each of the relations.
Inspected(walk, entity, depth, request, order) ==
    LET after[i \in 0 .. Len(order)] ==
            IF i = 0 THEN walk ELSE Inspect(after[i - 1], entity, depth, order[i], request)
    IN  after[Len(order)]

\* A round of the outer loop.
Advance(walk, request, order) ==
    IF walk.queue = <<>> \/ walk.reason = "edges" THEN walk
    ELSE Inspected([walk EXCEPT !.queue = Tail(@), !.cut = FALSE],
                   walk.queue[1][1], walk.queue[1][2], request, order)

\* traverse_graph() over the relations in an order: breadth first; only the
\* budget of edges ends it at once.  No entity is queued twice.  Of more seeds
\* than the budget of entities it reports the first, ids being hashes, and walks
\* nowhere.
Traverse(request, order) ==
    LET start == [entities |-> request.seeds, edges |-> {}, reason |-> None, cut |-> FALSE,
                  queue |-> SetToSeq({<<s, 0>> : s \in request.seeds})]
        after[i \in 0 .. Cardinality(entities)] ==
            IF i = 0 THEN start ELSE Advance(after[i - 1], request, order)
    IN  IF Cardinality(request.seeds) > request.entities
        THEN [start EXCEPT !.reason = "entities",
                           !.entities = CHOOSE first \in SUBSET @ :
                                            Cardinality(first) = request.entities]
        ELSE after[Cardinality(entities)]

-----------------------------------------------------------------------------
\* Merges and splits, and the resolution of an entity through them.

Successions(scope) ==
    UNION {{l.source} \X l.targets : l \in {k \in DOMAIN lineages : k.source.scope = scope}}

\* entity_reaches(): whatever the times.
EntityReaches(start, target, scope) ==
    \A set \in SUBSET Entities :
        /\ start \in set
        /\ \A step \in Successions(scope) : step[1] \in set => step[2] \in set
        => target \in set

\* record_entity_lineage(): a merge names one target and a split two, which
\* may be the same.  Recorded again, it takes the later time.
RecordEntityLineage(source, targets, effective) ==
    LET id == [source |-> source, targets |-> targets, effective |-> effective] IN
    /\ {source} \cup targets \subseteq entities
    /\ targets # {}
    /\ \A t \in targets : /\ t.scope = source.scope /\ t.type = source.type
                          /\ ~EntityReaches(t, source, source.scope)
    /\ HasEvidence(source.scope)
    /\ Cardinality(DOMAIN lineages \cup {id}) <= MaxGraph
    /\ lineages' = With(lineages, id, now)
    /\ UNCHANGED <<types, relationTypes, entities, aliases, relations>>

\* resolve_entity_id() with the lineages in an order: in every round each
\* current entity is left as it is or replaced by the targets of the first
\* lineage that applies; an entity met in two rounds is taken for a cycle.
Resolve(entity, order, valid, known) ==
    LET Applicable(id) ==
            SelectSeq(order, LAMBDA l :
                l.source = id /\ l.effective <= valid /\ lineages[l] <= known)
        Round(at, round) ==
            LET moved == {id \in at.current : Applicable(id) # <<>>} IN
            IF at.answer # None THEN at
            ELSE IF at.current \cap at.visited # {} THEN [at EXCEPT !.answer = "cycle"]
            ELSE [current |-> (at.current \ moved)
                                  \cup UNION {Applicable(id)[1].targets : id \in moved},
                  visited |-> at.visited \cup at.current,
                  answer |-> IF moved = {} THEN "resolved" ELSE None]
    IN  FoldLeft(Round, [current |-> {entity}, visited |-> {}, answer |-> None],
                 [i \in 1 .. Cardinality(Entities) + 1 |-> i])

-----------------------------------------------------------------------------
GraphNext ==
    \/ \E s \in Scopes, t \in {e.type : e \in Entities} \ BuiltIn : DefineEntityType(s, t)
    \/ \E d \in Definitions : DefineRelationType(d)
    \/ \E e \in Entities :
           \/ CreateEntity(e)
           \/ \E l \in Labels, v \in Validities : AddEntityAlias(e, l, v)
           \/ \E t \in Entities, d \in Definitions, v \in Validities :
                  CreateEntityRelation(e, d.name, t, v)
           \/ \E targets \in SUBSET Entities, time \in Times :
                  RecordEntityLineage(e, targets, time)

-----------------------------------------------------------------------------
\* Properties.

\* Whatever merges and splits record_entity_lineage() accepts, of whatever
\* times, following them never leads back to where it began.
LineagesAcyclic ==
    \A scope \in Scopes : \A set \in SUBSET entities :
        set # {} => \E e \in set : \A f \in set : <<e, f>> \notin Successions(scope)

\* No claim supersedes itself and no entity continues itself, over any number of
\* steps and whatever the validity of the links (supersede_claim,
\* record_entity_lineage: both walk the links before they add one).
NothingSucceedsItself == SupersessionsAcyclic /\ LineagesAcyclic

\* What a traversal can reach at all: the least set around the seeds.
Within1(set, walkable) ==
    \A r \in walkable : \A e \in set : Touches(r, e) => Neighbour(r, e) \in set

\* traverse_graph() keeps its budgets and reports only what the seeds reach;
\* and if it reports no truncation then it has reached every entity there is
\* to reach.
TraversalIsHonest ==
    \A request \in {q \in Requests : q.seeds \subseteq entities} :
        LET walkable == Walkable(request)
            closed == {set \in SUBSET entities :
                          request.seeds \subseteq set /\ Within1(set, walkable)}
        IN  \A order \in SetToSeqs(walkable) :
                LET found == Traverse(request, order)
                IN  /\ Cardinality(found.edges) <= request.edges
                    /\ Cardinality(found.entities) <= request.entities
                    /\ \A set \in closed : found.entities \subseteq set
                    /\ found.reason = None => found.entities \in closed

\* Merges and splits have no cycle, so resolve_entity_id() never answers that
\* they have: "Entity lineage would form a redirect cycle" (engine.rs:313).
ResolutionFindsNoCycle ==
    \A e \in entities, order \in SetToSeqs(DOMAIN lineages), valid, known \in Times :
        Resolve(e, order, valid, known).answer # "cycle"
=============================================================================
