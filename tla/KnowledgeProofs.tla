--------------------------- MODULE KnowledgeProofs ---------------------------
(***************************************************************************)
(* Proofs about what an engine knows besides its claims: the entity graph, *)
(* the stored memories, the hash chains, and the session that changes      *)
(* them.  For every set of entities, memories, scopes and requests.        *)
(***************************************************************************)
EXTENDS StdioSession, AgentRecords, DerivedMemoriesProofs, FiniteSetTheorems,
        WellFoundedInduction, TLAPS

-----------------------------------------------------------------------------
\* What a scan of keys in their order finds.

\* What is below a key.
LEMMA BelowIsOfTheSet ==
    ASSUME NEW S \in SUBSET Int, NEW k
    PROVE  /\ Below(S, k) \subseteq S
           /\ \A x \in S : x \in Int /\ (x \in Below(S, k) <=> x < k)
    BY DEF Below

\* Fewer keys are below a lower key.
LEMMA LowerKeysHaveFewer ==
    ASSUME NEW S \in SUBSET Int, IsFiniteSet(S), NEW k \in S, NEW l \in S, k < l
    PROVE  Cardinality(Below(S, k)) < Cardinality(Below(S, l))
<1>1. Below(S, k) \cup {k} \subseteq Below(S, l) /\ k \notin Below(S, k)
  <2>1. k \in Int /\ l \in Int /\ k \in Below(S, l) /\ k \notin Below(S, k)
      BY BelowIsOfTheSet
  <2>2. ASSUME NEW x \in Below(S, k) PROVE x \in Below(S, l)
    <3>1. x \in S /\ x \in Int /\ x < k
        BY BelowIsOfTheSet
    <3>2. x < l
        BY <2>1, <3>1
    <3> QED
        BY <3>1, <3>2, BelowIsOfTheSet
  <2> QED
      BY <2>1, <2>2
<1>2. IsFiniteSet(Below(S, k)) /\ IsFiniteSet(Below(S, l))
    BY FS_Subset DEF Below
<1>3. Cardinality(Below(S, k) \cup {k}) = Cardinality(Below(S, k)) + 1
    BY <1>1, <1>2, FS_AddElement
<1>4. Cardinality(Below(S, k) \cup {k}) <= Cardinality(Below(S, l))
    BY <1>1, <1>2, FS_Subset
<1>5. Cardinality(Below(S, k)) \in Nat /\ Cardinality(Below(S, l)) \in Nat
    BY <1>2, FS_CardinalityType
<1> QED
    BY <1>3, <1>4, <1>5

\* The number of keys below a key of the set, which is one of its places.
LEMMA PlacesAreOfTheSet ==
    ASSUME NEW S \in SUBSET Int, IsFiniteSet(S), NEW k \in S
    PROVE  /\ Cardinality(Below(S, k)) \in Nat /\ Cardinality(S) \in Nat
           /\ Cardinality(Below(S, k)) < Cardinality(S)
<1>1. IsFiniteSet(S \ {k}) /\ Cardinality(S \ {k}) = Cardinality(S) - 1 /\ Cardinality(S) \in Nat
    BY FS_RemoveElement, FS_CardinalityType
<1>2. Below(S, k) \subseteq S \ {k}
    BY DEF Below
<1>3. IsFiniteSet(Below(S, k)) /\ Cardinality(Below(S, k)) <= Cardinality(S) - 1
    BY <1>1, <1>2, FS_Subset
<1> QED
    BY <1>1, <1>3, FS_CardinalityType

\* No two keys have the same place.
LEMMA PlacesDiffer ==
    ASSUME NEW S \in SUBSET Int, IsFiniteSet(S), NEW k \in S, NEW l \in S,
           Cardinality(Below(S, k)) = Cardinality(Below(S, l))
    PROVE  k = l
<1>1. k < l \/ l < k \/ k = l
    OBVIOUS
<1> QED
    BY <1>1, LowerKeysHaveFewer, PlacesAreOfTheSet

\* There is a key at each of them.
LEMMA PlacesAreTaken ==
    ASSUME NEW S \in SUBSET Int, IsFiniteSet(S), NEW i \in 1 .. Cardinality(S)
    PROVE  \E k \in S : Cardinality(Below(S, k)) = i - 1
<1> SUFFICES ASSUME \A k \in S : Cardinality(Below(S, k)) # i - 1 PROVE FALSE
    OBVIOUS
<1> DEFINE n == Cardinality(S)
           free == (0 .. n - 1) \ {i - 1}
           place == [k \in S |-> Cardinality(Below(S, k))]
<1>1. n \in Nat
    BY FS_CardinalityType
<1> HIDE DEF n
<1>2. IsFiniteSet(0 .. n - 1) /\ Cardinality(0 .. n - 1) = n
  <2>1. 0 \in Int /\ n - 1 \in Int
      BY <1>1
  <2>2. /\ IsFiniteSet(0 .. n - 1)
        /\ Cardinality(0 .. n - 1) = IF 0 > n - 1 THEN 0 ELSE n - 1 - 0 + 1
      BY <2>1, FS_Interval
  <2> QED
      BY <1>1, <2>2
<1>3. IsFiniteSet(free) /\ Cardinality(free) = n - 1
  <2>1. i - 1 \in 0 .. n - 1
      BY <1>1 DEF n
  <2> QED
    <3> DEFINE all == 0 .. n - 1
               gap == i - 1
    <3>1. IsFiniteSet(all) /\ Cardinality(all) = n /\ gap \in all
        BY <1>2, <2>1
    <3> HIDE DEF all, gap
    <3>2. IsFiniteSet(all \ {gap}) /\ Cardinality(all \ {gap}) = n - 1
        BY <3>1, FS_RemoveElement
    <3> QED
        BY <3>2 DEF all, gap
<1>4. place \in [S -> free]
    BY <1>1, PlacesAreOfTheSet DEF n
<1> HIDE DEF free, place
<1>5. \E k, l \in S : k # l /\ place[k] = place[l]
  <2>1. Cardinality(free) < Cardinality(S)
      BY <1>1, <1>3 DEF n
  <2> QED
      BY <1>3, <1>4, <2>1, FS_PigeonHole
<1> QED
    BY <1>5, PlacesDiffer DEF place

\* At each place of the scan, the key that it belongs to.
LEMMA KeyAtPlace ==
    ASSUME NEW S \in SUBSET Int, IsFiniteSet(S), NEW i \in 1 .. Cardinality(S)
    PROVE  InOrder(S)[i] \in S /\ Cardinality(Below(S, InOrder(S)[i])) = i - 1
<1>1. InOrder(S)[i] = CHOOSE k \in S : Cardinality(Below(S, k)) = i - 1
    BY DEF InOrder
<1> QED
    BY <1>1, PlacesAreTaken, Zenon

\* A scan is known by the places of its keys.
LEMMA OrderIsUnique ==
    ASSUME NEW S \in SUBSET Int, IsFiniteSet(S), NEW s,
           s = [i \in 1 .. Cardinality(S) |-> s[i]],
           \A i \in 1 .. Cardinality(S) : s[i] \in S /\ Cardinality(Below(S, s[i])) = i - 1
    PROVE  s = InOrder(S)
<1>1. ASSUME NEW i \in 1 .. Cardinality(S) PROVE s[i] = InOrder(S)[i]
  <2>1. InOrder(S)[i] \in S /\ Cardinality(Below(S, InOrder(S)[i])) = i - 1
      BY KeyAtPlace
  <2>2. s[i] \in S /\ Cardinality(Below(S, s[i])) = i - 1
      OBVIOUS
  <2> HIDE DEF InOrder
  <2> QED
      BY <2>1, <2>2, PlacesDiffer
<1>2. InOrder(S) = [i \in 1 .. Cardinality(S) |-> InOrder(S)[i]]
    BY DEF InOrder
<1>3. [i \in 1 .. Cardinality(S) |-> s[i]] = [i \in 1 .. Cardinality(S) |-> InOrder(S)[i]]
    BY <1>1
<1> QED
    BY <1>2, <1>3, Zenon

\* A scan that goes on above where another one ended completes it.
LEMMA ScansConcatenate ==
    ASSUME NEW A \in SUBSET Int, NEW B \in SUBSET Int, IsFiniteSet(A), IsFiniteSet(B),
           \A a \in A, b \in B : a < b
    PROVE  InOrder(A) \o InOrder(B) = InOrder(A \cup B)
<1> DEFINE m == Cardinality(A)
           n == Cardinality(B)
           s == InOrder(A) \o InOrder(B)
<1>1. m \in Nat /\ n \in Nat
    BY FS_CardinalityType
<1>0. (\A a \in A : a \in Int) /\ (\A b \in B : b \in Int)
    OBVIOUS
<1>2. IsFiniteSet(A \cup B) /\ Cardinality(A \cup B) = m + n
  <2>1. A \cap B = {}
      BY <1>0
  <2>2. /\ IsFiniteSet(A \cup B)
        /\ Cardinality(A \cup B) = Cardinality(A) + Cardinality(B) - Cardinality(A \cap B)
      BY FS_Union
  <2>3. Cardinality(A \cap B) = 0
      BY <2>1, FS_EmptySet
  <2> QED
      BY <1>1, <2>2, <2>3
<1>3. InOrder(A) \in Seq(A) /\ Len(InOrder(A)) = m
  <2>1. InOrder(A) = [i \in 1 .. m |-> InOrder(A)[i]]
      BY DEF InOrder
  <2>2. \A i \in 1 .. m : InOrder(A)[i] \in A
      BY KeyAtPlace
  <2> QED
      BY <1>1, <2>1, <2>2
<1>4. InOrder(B) \in Seq(B) /\ Len(InOrder(B)) = n
  <2>1. InOrder(B) = [i \in 1 .. n |-> InOrder(B)[i]]
      BY DEF InOrder
  <2>2. \A i \in 1 .. n : InOrder(B)[i] \in B
      BY KeyAtPlace
  <2> QED
      BY <1>1, <2>1, <2>2
<1>5. s = [i \in 1 .. Cardinality(A \cup B) |-> s[i]]
  <2>1. s \in Seq(A \cup B) /\ Len(s) = m + n
      BY <1>1, <1>3, <1>4
  <2> HIDE DEF s
  <2>2. s = [i \in 1 .. Len(s) |-> s[i]]
      BY <2>1
  <2> QED
      BY <1>2, <2>1, <2>2
<1>6. ASSUME NEW i \in 1 .. m
      PROVE  s[i] \in A \cup B /\ Cardinality(Below(A \cup B, s[i])) = i - 1
  <2>1. s[i] = InOrder(A)[i]
      BY <1>1, <1>3, <1>4
  <2>2. s[i] \in A /\ Cardinality(Below(A, s[i])) = i - 1
      BY <2>1, KeyAtPlace
  <2> HIDE DEF s
  <2>3. Below(A \cup B, s[i]) = Below(A, s[i])
    <3>1. s[i] \in Int /\ A \in SUBSET Int /\ A \cup B \in SUBSET Int
        BY <1>0, <2>2
    <3>2. \A x \in B : ~(x < s[i])
        BY <1>0, <2>2, <3>1
    <3>3. \A x \in A \cup B : x \in Below(A \cup B, s[i]) <=> x < s[i]
        BY <3>1, BelowIsOfTheSet
    <3>4. \A x \in A : x \in Below(A, s[i]) <=> x < s[i]
        BY <3>1, BelowIsOfTheSet
    <3>5. Below(A, s[i]) \subseteq A /\ Below(A \cup B, s[i]) \subseteq A \cup B
        BY <3>1, BelowIsOfTheSet
    <3> QED
        BY <3>2, <3>3, <3>4, <3>5
  <2> QED
      BY <2>2, <2>3
<1>7. ASSUME NEW i \in m + 1 .. m + n
      PROVE  s[i] \in A \cup B /\ Cardinality(Below(A \cup B, s[i])) = i - 1
  <2>1. s[i] = InOrder(B)[i - m]
      BY <1>1, <1>3, <1>4
  <2>2. s[i] \in B /\ Cardinality(Below(B, s[i])) = i - m - 1
      BY <1>1, <2>1, KeyAtPlace
  <2> HIDE DEF s
  <2>3. Below(A \cup B, s[i]) = A \cup Below(B, s[i]) /\ A \cap Below(B, s[i]) = {}
    <3>1. s[i] \in Int /\ B \in SUBSET Int /\ A \cup B \in SUBSET Int
        BY <1>0, <2>2
    <3>2. (\A x \in A : x < s[i]) /\ (\A x \in B : x \notin A)
        BY <1>0, <2>2, <3>1
    <3> QED
        BY <3>1, <3>2, BelowIsOfTheSet
  <2>4. IsFiniteSet(Below(B, s[i]))
      BY FS_Subset DEF Below
  <2>5. Cardinality(A \cup Below(B, s[i]))
            = Cardinality(A) + Cardinality(Below(B, s[i])) - Cardinality(A \cap Below(B, s[i]))
      BY <2>4, FS_Union
  <2>6. Cardinality(A \cap Below(B, s[i])) = 0
      BY <2>3, FS_EmptySet
  <2>7. i \in Int
      BY <1>1
  <2>8. Cardinality(Below(A \cup B, s[i])) = m + (i - m - 1) - 0
      BY <2>2, <2>3, <2>5, <2>6
  <2> HIDE DEF m
  <2>9. m + (i - m - 1) - 0 = i - 1
      BY <1>1, <2>7
  <2> QED
      BY <2>2, <2>8, <2>9
<1>8. \A i \in 1 .. Cardinality(A \cup B) :
          s[i] \in A \cup B /\ Cardinality(Below(A \cup B, s[i])) = i - 1
  <2> HIDE DEF m, n, s
  <2>1. \A i \in 1 .. Cardinality(A \cup B) : i \in 1 .. m \/ i \in m + 1 .. m + n
      BY <1>1, <1>2
  <2> QED
      BY <1>6, <1>7, <2>1
<1> HIDE DEF s
<1>9. A \cup B \in SUBSET Int
    OBVIOUS
<1>10. s = InOrder(A \cup B)
    BY <1>2, <1>5, <1>8, <1>9, OrderIsUnique
<1> QED
    BY <1>10 DEF s

\* Each key is found at its place.
LEMMA EveryKeyIsScanned ==
    ASSUME NEW S \in SUBSET Int, IsFiniteSet(S), NEW k \in S
    PROVE  \E i \in 1 .. Cardinality(S) : InOrder(S)[i] = k
<1> DEFINE i == Cardinality(Below(S, k)) + 1
<1>1. i \in 1 .. Cardinality(S)
    BY PlacesAreOfTheSet
<1>2. InOrder(S)[i] \in S /\ Cardinality(Below(S, InOrder(S)[i])) = Cardinality(Below(S, k))
    BY <1>1, KeyAtPlace, PlacesAreOfTheSet
<1> HIDE DEF i
<1> DEFINE key == InOrder(S)[i]
<1>3. key \in S /\ Cardinality(Below(S, key)) = Cardinality(Below(S, k))
    BY <1>2
<1> HIDE DEF key
<1>4. key = k
    BY <1>3, PlacesDiffer
<1> QED
    BY <1>1, <1>4 DEF key

-----------------------------------------------------------------------------
\* The entity graph, beside claims and what is derived from them.

KnowledgeInit == Init /\ GraphInit
KnowledgeNext ==
    \/ Next /\ UNCHANGED graphVars
    \/ GraphNext /\ UNCHANGED vars
KnowledgeSpec == KnowledgeInit /\ [][KnowledgeNext]_<<vars, graphVars>>

\* An entity's new lineage leads out of every set that it enters: the walk before
\* it has found a set closed under succession that leaves the entity out.
LEMMA RecordLineageKeepsAcyclic ==
    ASSUME LineagesAcyclic, NEW source \in Entities, NEW targets \in SUBSET Entities,
           NEW effective, RecordEntityLineage(source, targets, effective),
           entities \subseteq Entities
    PROVE  LineagesAcyclic'
<1> SUFFICES ASSUME NEW scope \in Scopes, NEW S \in SUBSET entities, S # {},
                    \A e \in S : \E f \in S : <<e, f>> \in Successions(scope)'
             PROVE  FALSE
    BY DEF LineagesAcyclic, RecordEntityLineage
<1>1. ASSUME NEW e, NEW f, <<e, f>> \in Successions(scope)'
      PROVE  \/ <<e, f>> \in Successions(scope)
             \/ e = source /\ f \in targets /\ scope = source.scope
  <2> DEFINE id == [source |-> source, targets |-> targets, effective |-> effective]
  <2>1. DOMAIN lineages' = DOMAIN lineages \cup {id}
      BY DEF RecordEntityLineage, With
  <2>2. PICK l \in DOMAIN lineages' : l.source.scope = scope /\ <<e, f>> \in {l.source} \X l.targets
      BY <1>1 DEF Successions
  <2>3. CASE l \in DOMAIN lineages
      BY <2>2, <2>3 DEF Successions
  <2>4. CASE l = id
      BY <2>2, <2>4
  <2> QED
      BY <2>1, <2>2, <2>3, <2>4
<1>2. PICK c \in S : \A d \in S : <<c, d>> \notin Successions(scope)
    BY DEF LineagesAcyclic
<1>3. PICK t \in S : <<c, t>> \in Successions(scope)'
    BY <1>2
<1>4. c = source /\ t \in targets /\ scope = source.scope
    BY <1>1, <1>2, <1>3
<1>5. PICK R \in SUBSET Entities :
          /\ t \in R /\ source \notin R
          /\ \A step \in Successions(scope) : step[1] \in R => step[2] \in R
    BY <1>4 DEF RecordEntityLineage, EntityReaches
<1>6. PICK d \in S \cap R : \A f \in S \cap R : <<d, f>> \notin Successions(scope)
    BY <1>3, <1>5 DEF LineagesAcyclic
<1>7. PICK f \in S : <<d, f>> \in Successions(scope)'
    BY <1>6
<1>8. <<d, f>> \in Successions(scope)
    BY <1>1, <1>5, <1>6, <1>7
<1> QED
    BY <1>5, <1>6, <1>8

\* Records of the graph name what is there and are of times that have been.
LEMMA EmptyGraph == GraphInit => GraphTypeOK
    BY DEF GraphInit, GraphTypeOK, EntityRecords, AliasRecords, LineageRecords,
           RelationTypeRecords, RelationRecords

\* The ontology only grows, so what has been checked against it stays so.
LEMMA OntologyKeepsGraph ==
    ASSUME GraphTypeOK, now \in Times,
           \/ \E s \in Scopes : \E t : DefineEntityType(s, t)
           \/ \E d \in Definitions : DefineRelationType(d)
    PROVE  GraphTypeOK'
<1> USE DEF GraphTypeOK
<1>1. ASSUME NEW s \in Scopes, NEW t, DefineEntityType(s, t) PROVE GraphTypeOK'
  <2>1. EntityRecords'
      BY <1>1 DEF DefineEntityType, EntityRecords
  <2>2. /\ AliasRecords' /\ LineageRecords' /\ RelationTypeRecords' /\ RelationRecords'
      BY <1>1 DEF DefineEntityType, AliasRecords, LineageRecords, RelationTypeRecords,
                  RelationRecords, Times
  <2> QED
      BY <2>1, <2>2
<1>2. ASSUME NEW d \in Definitions, DefineRelationType(d) PROVE GraphTypeOK'
  <2>1. RelationTypeRecords'
      BY <1>2 DEF DefineRelationType, RelationTypeRecords, With, Times
  <2>2. EntityRecords' /\ AliasRecords' /\ LineageRecords' /\ RelationRecords'
      BY <1>2 DEF DefineRelationType, EntityRecords, AliasRecords, LineageRecords,
                  RelationRecords, Times
  <2> QED
      BY <2>1, <2>2
<1> QED
    BY <1>1, <1>2

\* A new entity is one of a scope and type that the ontology knows.
LEMMA CreateEntityKeepsGraph ==
    ASSUME GraphTypeOK, now \in Times, NEW e \in Entities, CreateEntity(e)
    PROVE  GraphTypeOK'
<1> USE DEF GraphTypeOK, CreateEntity
<1>1. EntityRecords'
    BY DEF EntityRecords, TypeKnown
<1>2. AliasRecords'
    BY DEF AliasRecords, With, Alias, Times
<1>3. LineageRecords' /\ RelationTypeRecords' /\ RelationRecords'
    BY DEF LineageRecords, RelationTypeRecords, RelationRecords, Times
<1> QED
    BY <1>1, <1>2, <1>3

\* An alias is of an entity, with the time it was added.
LEMMA AddAliasKeepsGraph ==
    ASSUME GraphTypeOK, now \in Times, NEW e, NEW label, NEW validity,
           AddEntityAlias(e, label, validity)
    PROVE  GraphTypeOK'
<1> USE DEF GraphTypeOK, AddEntityAlias
<1>1. AliasRecords'
    BY DEF AliasRecords, With, Alias, Times
<1>2. EntityRecords' /\ LineageRecords' /\ RelationTypeRecords' /\ RelationRecords'
    BY DEF EntityRecords, LineageRecords, RelationTypeRecords, RelationRecords, Times
<1> QED
    BY <1>1, <1>2

\* A relation takes its traversal and direction from the ontology's record.
LEMMA CreateRelationKeepsGraph ==
    ASSUME GraphTypeOK, now \in Times, NEW source, NEW name, NEW target, NEW validity,
           CreateEntityRelation(source, name, target, validity)
    PROVE  GraphTypeOK'
<1> USE DEF GraphTypeOK
<1>1. PICK t, id :
          /\ t \in DOMAIN relationTypes /\ id.source = source /\ id.target = target
          /\ {source, target} \subseteq entities
          /\ relations' = With(relations, id,
                 [traversable |-> relationTypes[t].definition.traversable,
                  directed |-> relationTypes[t].definition.directed, at |-> now])
          /\ UNCHANGED <<types, relationTypes, entities, aliases, lineages>>
  <2>1. PICK t \in Current(source.scope, name) :
            LET definition == relationTypes[t].definition
                id == [scope |-> source.scope, source |-> source, name |-> name,
                       target |-> target, version |-> t.version, from |-> validity.from,
                       to |-> validity.to]
            IN  /\ {source, target} \subseteq entities
                /\ relations' = With(relations, id,
                       [traversable |-> definition.traversable,
                        directed |-> definition.directed, at |-> now])
                /\ UNCHANGED <<types, relationTypes, entities, aliases, lineages>>
      BY DEF CreateEntityRelation
  <2>2. t \in DOMAIN relationTypes
      BY <2>1 DEF Current
  <2> QED
      BY <2>1, <2>2
<1>2. {relationTypes[t].definition.traversable, relationTypes[t].definition.directed}
          \subseteq BOOLEAN
    BY <1>1, GraphAssumption DEF RelationTypeRecords
<1>3. RelationRecords'
    BY <1>1, <1>2 DEF RelationRecords, With, Times
<1>4. EntityRecords' /\ AliasRecords' /\ LineageRecords' /\ RelationTypeRecords'
    BY <1>1 DEF EntityRecords, AliasRecords, LineageRecords, RelationTypeRecords, Times
<1> QED
    BY <1>3, <1>4

\* A lineage leads from an entity to entities.
LEMMA RecordLineageKeepsGraph ==
    ASSUME GraphTypeOK, now \in Times, NEW source, NEW targets, NEW effective,
           RecordEntityLineage(source, targets, effective)
    PROVE  GraphTypeOK'
<1> USE DEF GraphTypeOK, RecordEntityLineage
<1>1. LineageRecords'
    BY DEF LineageRecords, With, Times
<1>2. EntityRecords' /\ AliasRecords' /\ RelationTypeRecords' /\ RelationRecords'
    BY DEF EntityRecords, AliasRecords, RelationTypeRecords, RelationRecords, Times
<1> QED
    BY <1>1, <1>2

\* Every operation of the graph keeps its records to their types.
LEMMA GraphStepKeepsGraph ==
    ASSUME GraphTypeOK, now \in Times, GraphNext
    PROVE  GraphTypeOK'
    BY OntologyKeepsGraph, CreateEntityKeepsGraph, AddAliasKeepsGraph,
       CreateRelationKeepsGraph, RecordLineageKeepsGraph DEF GraphNext

\* What an entity that is new has led to: nothing.
LEMMA GraphStepKeepsAcyclic ==
    ASSUME GraphTypeOK, LineagesAcyclic, GraphNext
    PROVE  LineagesAcyclic'
<1>1. ASSUME UNCHANGED <<entities, lineages>> PROVE LineagesAcyclic'
    BY <1>1 DEF LineagesAcyclic, Successions
<1>2. ASSUME NEW e \in Entities, CreateEntity(e) PROVE LineagesAcyclic'
  <2> SUFFICES ASSUME NEW scope \in Scopes, NEW S \in SUBSET entities', S # {}
               PROVE  \E c \in S : \A d \in S : <<c, d>> \notin Successions(scope)'
      BY DEF LineagesAcyclic
  <2>1. Successions(scope)' = Successions(scope)
      BY <1>2 DEF CreateEntity, Successions
  <2>2. \A c, d : <<c, d>> \in Successions(scope) => c \in entities
      BY DEF GraphTypeOK, LineageRecords, Successions
  <2>3. CASE e \in S
      BY <1>2, <2>1, <2>2, <2>3 DEF CreateEntity
  <2>4. CASE e \notin S
    <3>1. S \in SUBSET entities
        BY <1>2, <2>4 DEF CreateEntity
    <3> QED
        BY <2>1, <3>1 DEF LineagesAcyclic
  <2> QED
      BY <2>3, <2>4
<1>3. ASSUME NEW source \in Entities, NEW targets \in SUBSET Entities, NEW effective,
             RecordEntityLineage(source, targets, effective)
      PROVE  LineagesAcyclic'
    BY <1>3, RecordLineageKeepsAcyclic DEF GraphTypeOK, EntityRecords
<1>4. ASSUME NEW s, NEW t, DefineEntityType(s, t) PROVE LineagesAcyclic'
    BY <1>1, <1>4 DEF DefineEntityType
<1>5. ASSUME NEW d, DefineRelationType(d) PROVE LineagesAcyclic'
    BY <1>1, <1>5 DEF DefineRelationType
<1>6. ASSUME NEW e, NEW l, NEW v, AddEntityAlias(e, l, v) PROVE LineagesAcyclic'
    BY <1>1, <1>6 DEF AddEntityAlias
<1>7. ASSUME NEW e, NEW n, NEW t, NEW v, CreateEntityRelation(e, n, t, v) PROVE LineagesAcyclic'
    BY <1>1, <1>7 DEF CreateEntityRelation
<1> QED
    BY <1>2, <1>3, <1>4, <1>5, <1>6, <1>7 DEF GraphNext

GraphInv == GraphTypeOK /\ LineagesAcyclic

\* All that claims and derived memories do leaves the graph alone, and the other
\* way round.
THEOREM GraphInvariant == KnowledgeSpec => []GraphInv
<1>1. KnowledgeInit => GraphInv
  <2>1. GraphInit => LineagesAcyclic
      BY DEF GraphInit, LineagesAcyclic
  <2> QED
      BY <2>1, EmptyGraph DEF KnowledgeInit, GraphInv
<1>2. KnowledgeSpec => Spec
  <2>1. [KnowledgeNext]_<<vars, graphVars>> => [Next]_vars
      BY DEF KnowledgeNext
  <2> QED
      BY <2>1, PTL DEF KnowledgeSpec, KnowledgeInit, Spec
<1>3. ClaimsInv /\ GraphInv /\ [KnowledgeNext]_<<vars, graphVars>> => GraphInv'
  <2> SUFFICES ASSUME ClaimsInv, GraphInv, [KnowledgeNext]_<<vars, graphVars>>
               PROVE  GraphInv'
      OBVIOUS
  <2>1. CASE UNCHANGED graphVars
      BY <2>1 DEF graphVars, GraphInv, GraphTypeOK, LineagesAcyclic, EntityRecords, AliasRecords,
                  LineageRecords, RelationTypeRecords, RelationRecords, Successions, Times
  <2>2. CASE GraphNext
      BY <2>2, GraphStepKeepsGraph, GraphStepKeepsAcyclic DEF GraphInv, ClaimsInv, ClaimsTypeOK
  <2> QED
      BY <2>1, <2>2 DEF KnowledgeNext
<1> QED
    BY <1>1, <1>2, <1>3, ClaimsInvariant, PTL DEF KnowledgeSpec

\* Entities, aliases, relations and lineages keep to their types.
THEOREM GraphTypeCorrect == KnowledgeSpec => []GraphTypeOK
<1>1. GraphInv => GraphTypeOK
    BY DEF GraphInv
<1> QED
    BY <1>1, GraphInvariant, PTL

\* No claim supersedes itself and no entity continues itself, whatever links are
\* asked for and of whatever times (supersede_claim, record_entity_lineage).
THEOREM SuccessionsHaveAnEnd == KnowledgeSpec => []NothingSucceedsItself
<1>1. GraphInv /\ SupersessionsAcyclic => NothingSucceedsItself
    BY DEF GraphInv, NothingSucceedsItself
<1>2. KnowledgeSpec => Spec
  <2>1. [KnowledgeNext]_<<vars, graphVars>> => [Next]_vars
      BY DEF KnowledgeNext
  <2> QED
      BY <2>1, PTL DEF KnowledgeSpec, KnowledgeInit, Spec
<1> QED
    BY <1>1, <1>2, GraphInvariant, LinksAreAcyclic, PTL

-----------------------------------------------------------------------------
\* The stored memories, beside all that is known of them.

CorpusStep ==
    \/ KnowledgeNext /\ UNCHANGED corpusVars
    \/ CorpusNext /\ UNCHANGED <<vars, graphVars>>
CorpusSpec ==
    KnowledgeInit /\ CorpusInit /\ [][CorpusStep]_<<vars, graphVars, corpusVars>>

IndexIsOfPairs == \A i \in index : i = [name |-> i.name, memory |-> i.memory]

\* Idle days are counted from a time that has been.
UsedBefore == \A m \in DOMAIN memories : memories[m].last <= now

BoundToEntities == \A b \in bindings : b.entity \in entities

\* What was deleted never comes back, neither itself nor its bindings.
DeletedForGood ==
    \A d \in deleted :
        /\ d.memory \notin DOMAIN memories
        /\ \A b \in bindings : ~(b.scope = d.scope /\ b.memory = d.memory)

CorpusInv ==
    /\ CorpusTypeOK /\ IndexIsOfPairs /\ UsedBefore
    /\ MentionsAreStored /\ BoundToEntities /\ DeletedForGood

\* remember() and consolidate(), whole or cut short after the document.
LEMMA FreshKeepsCorpus ==
    ASSUME CorpusInv, now \in Times, NEW m \in Memories, NEW state \in States,
           NEW names \in SUBSET Content[m].mentions,
           Fresh(m, state), index' = Indexed(m, names), UNCHANGED <<bindings, deleted, entities, now>>
    PROVE  CorpusInv'
<1> USE DEF CorpusInv, Fresh
<1>1. /\ DOMAIN memories' = DOMAIN memories \cup {m}
      /\ \A k \in DOMAIN memories : k # m => memories'[k] = memories[k]
      /\ memories'[m] = [kind |-> Content[m].kind, state |-> state, revision |-> 1,
                         importance |-> Content[m].importance, last |-> now]
    BY DEF With
<1>2. memories'[m] \in MemoryRecord
    BY <1>1, CorpusAssumption DEF MemoryRecord
<1>3. \A i \in index' : i \in index \/ (i.memory = m /\ i.name \in names
                                          /\ i = [name |-> i.name, memory |-> i.memory])
    BY DEF Indexed, Entries
<1>4. CorpusTypeOK'
    BY <1>1, <1>2, <1>3 DEF CorpusTypeOK, MemoryRecord, Bindings, Times
<1>5. IndexIsOfPairs' /\ MentionsAreStored'
    BY <1>1, <1>3 DEF IndexIsOfPairs, MentionsAreStored
<1>6. UsedBefore'
    BY <1>1 DEF UsedBefore, Times
<1>7. BoundToEntities' /\ DeletedForGood'
    BY <1>1 DEF BoundToEntities, DeletedForGood
<1> QED
    BY <1>4, <1>5, <1>6, <1>7

\* Operations that rewrite stored memories and nothing else.
OnlyRewrites ==
    /\ DOMAIN memories' = DOMAIN memories
    /\ \A m \in DOMAIN memories : memories'[m] \in MemoryRecord /\ memories'[m].last <= now
    /\ UNCHANGED <<index, bindings, deleted>>

LEMMA RewriteKeepsCorpus ==
    ASSUME CorpusInv, OnlyRewrites, UNCHANGED <<entities, now>>
    PROVE  CorpusInv'
    BY DEF CorpusInv, OnlyRewrites, CorpusTypeOK, MemoryRecord, Bindings, Times, IndexIsOfPairs,
           UsedBefore, MentionsAreStored, BoundToEntities, DeletedForGood

\* A memory loses importance for the days it was idle, and none can be negative.
LEMMA DecayIsTyped ==
    ASSUME NEW memory \in MemoryRecord, now \in Times, memory.last <= now
    PROVE  Decayed(memory) \in MemoryRecord /\ Decayed(memory).last = memory.last
<1> DEFINE idle == now - memory.last
           left == IF memory.importance > idle THEN memory.importance - idle ELSE 0
<1>1. left \in 0 .. TopImportance
    BY CorpusAssumption DEF MemoryRecord, Times
<1> HIDE DEF left
<1>2. \/ Decayed(memory) = memory
      \/ \E s \in States : Decayed(memory) = [memory EXCEPT !.importance = left, !.state = s]
  <2>1. \/ Decayed(memory) = memory
        \/ Decayed(memory) = [memory EXCEPT !.importance = left,
                                            !.state = IF left < Archive THEN "archived" ELSE @]
      BY DEF Decayed, left
  <2>2. memory.state \in States
      BY DEF MemoryRecord
  <2> QED
      BY <2>1, <2>2 DEF States
<1> QED
    BY <1>1, <1>2 DEF MemoryRecord

\* update_memory() writes what a patch may say and a revision that has room.
LEMMA UpdateRewrites ==
    ASSUME CorpusInv, NEW m, NEW scope, NEW revision \in 1 .. MaxRevision, NEW p \in Patches,
           UpdateMemory(m, scope, revision, p)
    PROVE  OnlyRewrites
<1>1. m \in DOMAIN memories /\ memories[m] \in MemoryRecord /\ memories[m].last <= now
    BY DEF UpdateMemory, Gettable, CorpusInv, CorpusTypeOK, UsedBefore
<1>2. Patched(memories[m], p) \in MemoryRecord /\ Patched(memories[m], p).last = memories[m].last
  <2> DEFINE memory == memories[m]
             i == IF p.importance = None THEN memory.importance ELSE p.importance
             s == IF p.state = None THEN memory.state ELSE p.state
             k == IF p.kind = None THEN memory.kind ELSE p.kind
  <2>1. memory.revision + 1 \in 1 .. MaxRevision
      BY CorpusAssumption DEF UpdateMemory
  <2>2. i \in 0 .. TopImportance /\ s \in States /\ k \in Kinds
      BY <1>1, CorpusAssumption DEF MemoryRecord
  <2>3. Patched(memory, p) = [memory EXCEPT !.importance = i, !.state = s, !.kind = k,
                                            !.revision = @ + 1]
      BY DEF Patched
  <2> HIDE DEF i, s, k
  <2> QED
      BY <1>1, <2>1, <2>2, <2>3 DEF MemoryRecord
<1>3. memories' = [memories EXCEPT ![m] = Patched(@, p)]
    BY DEF UpdateMemory
<1>4. \A k \in DOMAIN memories : memories[k] \in MemoryRecord /\ memories[k].last <= now
    BY DEF CorpusInv, CorpusTypeOK, UsedBefore
<1> QED
    BY <1>1, <1>2, <1>3, <1>4 DEF OnlyRewrites, UpdateMemory

\* record_recall_feedback() raises importance up to its top.
LEMMA RecallFeedbackRewrites ==
    ASSUME CorpusInv, now \in Times, NEW ids, NEW scope, RecordRecallFeedback(ids, scope)
    PROVE  OnlyRewrites
<1> SUFFICES ASSUME NEW m \in DOMAIN memories
             PROVE  memories'[m] \in MemoryRecord /\ memories'[m].last <= now
    BY DEF RecordRecallFeedback, OnlyRewrites
<1>1. memories[m] \in MemoryRecord /\ memories[m].last <= now
    BY DEF CorpusInv, CorpusTypeOK, UsedBefore
<1>2. Reactivated(memories[m]) \in MemoryRecord /\ Reactivated(memories[m]).last = now
  <2> DEFINE i == IF memories[m].importance < TopImportance THEN memories[m].importance + 1
                  ELSE memories[m].importance
  <2>1. i \in 0 .. TopImportance
      BY <1>1, CorpusAssumption DEF MemoryRecord
  <2>2. Reactivated(memories[m]) = [memories[m] EXCEPT !.importance = i, !.last = now]
      BY DEF Reactivated
  <2> HIDE DEF i
  <2> QED
      BY <1>1, <2>1, <2>2 DEF MemoryRecord
<1>3. memories'[m] \in {memories[m], Reactivated(memories[m])}
    BY DEF RecordRecallFeedback
<1> QED
    BY <1>1, <1>2, <1>3 DEF Times

\* run_lifecycle() takes away no more than there is, and may archive.
LEMMA LifecycleRewrites ==
    ASSUME CorpusInv, now \in Times, NEW upTo, RunLifecycle(upTo)
    PROVE  OnlyRewrites
<1> SUFFICES ASSUME NEW m \in DOMAIN memories
             PROVE  memories'[m] \in MemoryRecord /\ memories'[m].last <= now
    BY DEF RunLifecycle, OnlyRewrites
<1>1. memories[m] \in MemoryRecord /\ memories[m].last <= now
    BY DEF CorpusInv, CorpusTypeOK, UsedBefore
<1>2. memories'[m] \in {memories[m], Decayed(memories[m])}
    BY DEF RunLifecycle
<1> QED
    BY <1>1, <1>2, DecayIsTyped

\* consolidate() into a memory that says the same keeps the greater importance.
LEMMA MergeRewrites ==
    ASSUME CorpusInv, now \in Times, NEW m, NEW text, NEW importance \in 0 .. TopImportance,
           ConsolidateMerge(m, text, importance)
    PROVE  OnlyRewrites
<1>1. \A k \in DOMAIN memories : memories[k] \in MemoryRecord /\ memories[k].last <= now
    BY DEF CorpusInv, CorpusTypeOK, UsedBefore
<1>2. m \in DOMAIN memories
    BY DEF ConsolidateMerge, Duplicates
<1> DEFINE i == IF memories[m].importance > importance THEN memories[m].importance ELSE importance
<1>3. i \in 0 .. TopImportance
    BY <1>1, <1>2 DEF MemoryRecord
<1>4. memories' = [memories EXCEPT ![m] = [memories[m] EXCEPT !.state = "consolidated",
                                                !.importance = i, !.last = now]]
    BY <1>1, <1>2 DEF ConsolidateMerge, MemoryRecord
<1> HIDE DEF i
<1>5. memories'[m] \in MemoryRecord /\ memories'[m].last <= now
  <2>1. "consolidated" \in States /\ now <= now
      BY DEF States, Times
  <2>2. memories'[m] = [memories[m] EXCEPT !.state = "consolidated", !.importance = i, !.last = now]
      BY <1>2, <1>4
  <2> QED
      BY <1>1, <1>2, <1>3, <2>1, <2>2 DEF MemoryRecord
<1> QED
    BY <1>1, <1>2, <1>4, <1>5 DEF OnlyRewrites, ConsolidateMerge

\* What is bound is stored and visible, so it was not deleted.
LEMMA BindKeepsCorpus ==
    ASSUME CorpusInv, NEW m, NEW e \in entities, NEW scope \in Scopes, entities \subseteq Entities,
           BindMemoryEntity(m, e, scope), UNCHANGED <<entities, now>>
    PROVE  CorpusInv'
<1> USE DEF BindMemoryEntity, CorpusInv
<1>1. m \in DOMAIN memories /\ m \in Memories
    BY DEF Gettable, CorpusTypeOK
<1>2. CorpusTypeOK'
    BY <1>1 DEF CorpusTypeOK, Bindings, MemoryRecord, Times
<1>3. DeletedForGood'
    BY <1>1 DEF DeletedForGood
<1> QED
    BY <1>2, <1>3 DEF IndexIsOfPairs, UsedBefore, MentionsAreStored, BoundToEntities

\* delete_memory() takes the names and the bindings with the memory.
LEMMA DeleteKeepsCorpus ==
    ASSUME CorpusInv, NEW m, NEW scope \in Scopes, DeleteMemory(m, scope),
           UNCHANGED <<entities, now>>
    PROVE  CorpusInv'
<1> USE DEF DeleteMemory, CorpusInv
<1>1. m \in DOMAIN memories /\ m \in Memories
    BY DEF Gettable, CorpusTypeOK
<1>2. \A i \in index' : i \in index /\ i.memory # m
    BY DEF Unindexed, Entries, CorpusTypeOK, IndexIsOfPairs
<1>3. /\ DOMAIN memories' = DOMAIN memories \ {m}
      /\ \A k \in DOMAIN memories' : memories'[k] = memories[k]
    OBVIOUS
<1>4. CorpusTypeOK'
    BY <1>1, <1>2, <1>3 DEF CorpusTypeOK, Bindings, MemoryRecord, Times
<1>5. DeletedForGood'
    BY <1>3 DEF DeletedForGood, BoundIn
<1>6. BoundToEntities'
    BY DEF BoundToEntities
<1> QED
    BY <1>2, <1>3, <1>4, <1>5, <1>6 DEF IndexIsOfPairs, UsedBefore, MentionsAreStored

\* A deletion that was cut short answered nobody.
LEMMA DeleteInterruptedKeepsCorpus ==
    ASSUME CorpusInv, NEW m, NEW scope, NEW names, NEW bound,
           DeleteInterrupted(m, scope, names, bound), UNCHANGED <<entities, now>>
    PROVE  CorpusInv'
<1> USE DEF DeleteInterrupted, CorpusInv
<1>1. index' \subseteq index /\ bindings' \subseteq bindings
    BY DEF Unindexed
<1> QED
    BY <1>1 DEF CorpusTypeOK, Bindings, MemoryRecord, Times, IndexIsOfPairs, UsedBefore,
                MentionsAreStored, BoundToEntities, DeletedForGood

\* Every operation on memories, whole or cut short, keeps the corpus sound.
LEMMA CorpusNextKeepsCorpus ==
    ASSUME CorpusInv, CorpusNext, UNCHANGED <<entities, now>>, now \in Times,
           entities \subseteq Entities
    PROVE  CorpusInv'
<1>1. ASSUME NEW m \in Memories, Remember(m) PROVE CorpusInv'
    BY <1>1, FreshKeepsCorpus, Content[m].mentions \in SUBSET Content[m].mentions
       DEF Remember, States
<1>2. ASSUME NEW m \in Memories, NEW names \in SUBSET Content[m].mentions,
             RememberInterrupted(m, names)
      PROVE  CorpusInv'
    BY <1>2, FreshKeepsCorpus DEF RememberInterrupted, States
<1>3. ASSUME NEW m \in Memories, NEW s \in {"active", "consolidated"}, ConsolidateCreate(m, s)
      PROVE  CorpusInv'
    BY <1>3, FreshKeepsCorpus, Content[m].mentions \in SUBSET Content[m].mentions
       DEF ConsolidateCreate, States
<1>4. ASSUME NEW m \in Memories, ConsolidateMerge(m, Content[m].text, Content[m].importance)
      PROVE  CorpusInv'
    BY <1>4, MergeRewrites, RewriteKeepsCorpus, CorpusAssumption
<1>5. ASSUME NEW upTo \in Memories, RunLifecycle(upTo) PROVE CorpusInv'
    BY <1>5, LifecycleRewrites, RewriteKeepsCorpus
<1>6. ASSUME NEW m \in DOMAIN memories, NEW scope \in Scopes, NEW e \in entities,
             BindMemoryEntity(m, e, scope)
      PROVE  CorpusInv'
    BY <1>6, BindKeepsCorpus
<1>7. ASSUME NEW m \in DOMAIN memories, NEW scope \in Scopes, NEW r \in 1 .. MaxRevision,
             NEW p \in Patches, UpdateMemory(m, scope, r, p)
      PROVE  CorpusInv'
    BY <1>7, UpdateRewrites, RewriteKeepsCorpus
<1>8. ASSUME NEW m \in DOMAIN memories, NEW scope \in Scopes, DeleteMemory(m, scope)
      PROVE  CorpusInv'
    BY <1>8, DeleteKeepsCorpus
<1>9. ASSUME NEW m \in DOMAIN memories, NEW scope \in Scopes, NEW names, NEW bound,
             DeleteInterrupted(m, scope, names, bound)
      PROVE  CorpusInv'
    BY <1>9, DeleteInterruptedKeepsCorpus
<1>10. ASSUME NEW m \in DOMAIN memories, NEW scope \in Scopes, RecordRecallFeedback({m}, scope)
       PROVE  CorpusInv'
    BY <1>10, RecallFeedbackRewrites, RewriteKeepsCorpus
<1> QED
    BY <1>1, <1>2, <1>3, <1>4, <1>5, <1>6, <1>7, <1>8, <1>9, <1>10 DEF CorpusNext

\* Entities stay and time goes on, whatever else becomes known.
LEMMA KnowledgeGrows ==
    ASSUME ClaimsInv, GraphInv, [KnowledgeNext]_<<vars, graphVars>>
    PROVE  entities \subseteq entities' /\ now' \in Times /\ now <= now'
<1>1. entities \subseteq entities'
  <2>1. CASE UNCHANGED graphVars
      BY <2>1 DEF graphVars
  <2>2. ASSUME NEW source, NEW name, NEW target, NEW validity,
               CreateEntityRelation(source, name, target, validity)
        PROVE  UNCHANGED entities
      BY <2>2 DEF CreateEntityRelation
  <2>3. ASSUME NEW source, NEW targets, NEW effective,
               RecordEntityLineage(source, targets, effective)
        PROVE  UNCHANGED entities
      BY <2>3 DEF RecordEntityLineage
  <2>4. ASSUME GraphNext PROVE entities \subseteq entities'
      BY <2>2, <2>3, <2>4 DEF GraphNext, DefineEntityType, DefineRelationType, CreateEntity,
                              AddEntityAlias
  <2> QED
      BY <2>1, <2>4 DEF KnowledgeNext
<1>2. UNCHANGED now \/ Tick
  <2>1. CASE UNCHANGED vars
      BY <2>1 DEF vars, claimVars
  <2>2. CASE Next
      BY <2>2, StepsOnClaims
         DEF ClaimsNext, IngestEvent, CreateClaim, SupersedeClaim, claimVars, MarkForgotten
  <2> QED
      BY <2>1, <2>2 DEF KnowledgeNext
<1> QED
    BY <1>1, <1>2, ClaimsAssumption DEF Tick, ClaimsInv, ClaimsTypeOK, Times

LEMMA KnowledgeKeepsCorpus ==
    ASSUME CorpusInv, ClaimsInv, GraphInv, [KnowledgeNext]_<<vars, graphVars>>,
           UNCHANGED corpusVars
    PROVE  CorpusInv'
<1>1. entities \subseteq entities' /\ now \in Times /\ now' \in Times /\ now <= now'
    BY KnowledgeGrows DEF ClaimsInv, ClaimsTypeOK
<1>2. UsedBefore'
    BY <1>1 DEF corpusVars, CorpusInv, CorpusTypeOK, MemoryRecord, UsedBefore, Times
<1> QED
    BY <1>1, <1>2
       DEF corpusVars, CorpusInv, CorpusTypeOK, Bindings, MemoryRecord, Times, IndexIsOfPairs,
           MentionsAreStored, BoundToEntities, DeletedForGood

\* The corpus stays sound: index and bindings lead where they should, nothing that
\* was deleted comes back, however remember() and delete_memory() were cut short.
THEOREM CorpusInvariant == CorpusSpec => []CorpusInv
<1>1. CorpusInit => CorpusInv
    BY DEF CorpusInit, CorpusInv, CorpusTypeOK, IndexIsOfPairs, UsedBefore, MentionsAreStored,
           BoundToEntities, DeletedForGood
<1>2. CorpusSpec => KnowledgeSpec
  <2>1. [CorpusStep]_<<vars, graphVars, corpusVars>> => [KnowledgeNext]_<<vars, graphVars>>
      BY DEF CorpusStep
  <2> QED
      BY <2>1, PTL DEF CorpusSpec, KnowledgeSpec
<1>3. KnowledgeSpec => Spec
  <2>1. [KnowledgeNext]_<<vars, graphVars>> => [Next]_vars
      BY DEF KnowledgeNext
  <2> QED
      BY <2>1, PTL DEF KnowledgeSpec, KnowledgeInit, Spec
<1>4. CorpusInv /\ ClaimsInv /\ GraphInv /\ [CorpusStep]_<<vars, graphVars, corpusVars>>
          => CorpusInv'
  <2> SUFFICES ASSUME CorpusInv, ClaimsInv, GraphInv, [CorpusStep]_<<vars, graphVars, corpusVars>>
               PROVE  CorpusInv'
      OBVIOUS
  <2>1. ASSUME [KnowledgeNext]_<<vars, graphVars>>, UNCHANGED corpusVars PROVE CorpusInv'
      BY <2>1, KnowledgeKeepsCorpus
  <2>2. ASSUME CorpusNext, UNCHANGED <<vars, graphVars>> PROVE CorpusInv'
      BY <2>2, CorpusNextKeepsCorpus
         DEF vars, claimVars, graphVars, ClaimsInv, ClaimsTypeOK, GraphInv, GraphTypeOK, EntityRecords
  <2> QED
      BY <2>1, <2>2 DEF CorpusStep
<1> QED
    BY <1>1, <1>2, <1>3, <1>4, ClaimsInvariant, GraphInvariant, PTL DEF CorpusSpec

\* Memories, index and bindings keep to their types, however often importance
\* decays, is raised or patched.
THEOREM CorpusTypeCorrect == CorpusSpec => []CorpusTypeOK
<1>1. CorpusInv => CorpusTypeOK
    BY DEF CorpusInv
<1> QED
    BY <1>1, CorpusInvariant, PTL

\* However remember() and delete_memory() were cut short, the index leads only to
\* stored memories, and a deletion that answered leaves no binding in its scope.
THEOREM DeletionsLeaveNothing == CorpusSpec => []DeletedLeavesNothing
<1>1. ASSUME CorpusInv PROVE DeletedLeavesNothing
  <2>1. ASSUME NEW scope \in Scopes, NEW issue \in BindingIssues(scope)
        PROVE  /\ issue.kind = "missing_binding_memory"
               /\ [scope |-> scope, memory |-> issue.memory] \notin deleted
    <3>1. PICK b \in bindings :
              /\ b.scope = scope
              /\ issue = [kind |-> "missing_binding_memory", memory |-> b.memory]
        BY <1>1, <2>1 DEF BindingIssues, CorpusInv, BoundToEntities
    <3>2. \A d \in deleted : ~(b.scope = d.scope /\ b.memory = d.memory)
        BY <1>1 DEF CorpusInv, DeletedForGood
    <3> QED
        BY <3>1, <3>2
  <2> QED
      BY <1>1, <2>1 DEF DeletedLeavesNothing, DeletedIsUnbound, CorpusInv
<1> QED
    BY <1>1, CorpusInvariant, PTL

-----------------------------------------------------------------------------
\* A session over standard input and output, which owns the engine.

SessionStep ==
    \/ KnowledgeNext /\ UNCHANGED <<corpusVars, sessionVars>>
    \/ SessionNext /\ UNCHANGED <<vars, graphVars>>
sessionState == <<vars, graphVars, corpusVars, sessionVars>>
SessionSpec == KnowledgeInit /\ CorpusInit /\ SessionInit /\ [][SessionStep]_sessionState

\* What a tool does to the memories is an operation of the corpus, and nothing
\* else of the session touches them.
LEMMA ToolsKeepCorpus ==
    ASSUME CorpusInv, SessionNext, UNCHANGED <<entities, now>>, now \in Times
    PROVE  CorpusInv'
<1>0. ASSUME UNCHANGED corpusVars PROVE CorpusInv'
    BY <1>0 DEF corpusVars, CorpusInv, CorpusTypeOK, Bindings, MemoryRecord, Times, IndexIsOfPairs,
                UsedBefore, MentionsAreStored, BoundToEntities, DeletedForGood
<1>1. ASSUME NEW m \in Memories, ToolRemember(m) PROVE CorpusInv'
    BY <1>1, FreshKeepsCorpus, Content[m].mentions \in SUBSET Content[m].mentions
       DEF ToolRemember, Remember, States
<1>2. ASSUME NEW m \in Memories, NEW names \in SUBSET Content[m].mentions,
             ToolRememberFails(m, names)
      PROVE  CorpusInv'
    BY <1>2, FreshKeepsCorpus DEF ToolRememberFails, RememberInterrupted, States
<1>3. ASSUME NEW m \in Memories, ToolConsolidate(m) PROVE CorpusInv'
  <2>1. ASSUME NEW s \in {"active", "consolidated"}, ConsolidateCreate(m, s) PROVE CorpusInv'
      BY <2>1, FreshKeepsCorpus, Content[m].mentions \in SUBSET Content[m].mentions
         DEF ConsolidateCreate, States
  <2>2. ASSUME ConsolidateMerge(m, Content[m].text, Content[m].importance) PROVE CorpusInv'
      BY <2>2, MergeRewrites, RewriteKeepsCorpus, CorpusAssumption
  <2> QED
      BY <1>3, <2>1, <2>2 DEF ToolConsolidate
<1>4. ASSUME NEW upTo, RunLifecycle(upTo) PROVE CorpusInv'
    BY <1>4, LifecycleRewrites, RewriteKeepsCorpus
<1>5. ASSUME NEW m \in DOMAIN memories, NEW scope \in Scopes, NEW p \in Patches,
             ToolUpdate(m, scope, p)
      PROVE  CorpusInv'
  <2>1. memories[m].revision \in 1 .. MaxRevision
      BY DEF CorpusInv, CorpusTypeOK, MemoryRecord
  <2> QED
      BY <1>5, <2>1, UpdateRewrites, RewriteKeepsCorpus DEF ToolUpdate
<1>6. ASSUME NEW m \in DOMAIN memories, NEW scope \in Scopes, ToolDelete(m, scope)
      PROVE  CorpusInv'
    BY <1>6, DeleteKeepsCorpus DEF ToolDelete
<1>7. ASSUME NEW m \in DOMAIN memories, NEW scope \in Scopes, NEW names,
             ToolDeleteFails(m, scope, names)
      PROVE  CorpusInv'
    BY <1>7, DeleteInterruptedKeepsCorpus DEF ToolDeleteFails
<1> QED
    BY <1>0, <1>1, <1>2, <1>3, <1>4, <1>5, <1>6, <1>7
       DEF SessionNext, Initialize, Initialized, Restart, Confirm, Unconfirmed, ToolDeleteNothing,
           ToolRunLifecycle, ToolRunLifecycleFails, Subscribe, Unsubscribe, ListResources,
           ListMoreResources

\* So it does under the tools of a session.
THEOREM SessionKeepsCorpus == SessionSpec => []CorpusInv
<1>1. CorpusInit => CorpusInv
    BY DEF CorpusInit, CorpusInv, CorpusTypeOK, IndexIsOfPairs, UsedBefore, MentionsAreStored,
           BoundToEntities, DeletedForGood
<1>2. SessionSpec => KnowledgeSpec
  <2>1. [SessionStep]_sessionState => [KnowledgeNext]_<<vars, graphVars>>
      BY DEF SessionStep, sessionState
  <2> QED
      BY <2>1, PTL DEF SessionSpec, KnowledgeSpec
<1>3. KnowledgeSpec => Spec
  <2>1. [KnowledgeNext]_<<vars, graphVars>> => [Next]_vars
      BY DEF KnowledgeNext
  <2> QED
      BY <2>1, PTL DEF KnowledgeSpec, KnowledgeInit, Spec
<1>4. CorpusInv /\ ClaimsInv /\ GraphInv /\ [SessionStep]_sessionState => CorpusInv'
  <2>1. ASSUME CorpusInv, ClaimsInv, GraphInv, [KnowledgeNext]_<<vars, graphVars>>,
               UNCHANGED corpusVars
        PROVE  CorpusInv'
      BY <2>1, KnowledgeKeepsCorpus
  <2>2. ASSUME CorpusInv, ClaimsInv, SessionNext, UNCHANGED <<vars, graphVars>> PROVE CorpusInv'
      BY <2>2, ToolsKeepCorpus DEF vars, claimVars, graphVars, ClaimsInv, ClaimsTypeOK
  <2> QED
      BY <2>1, <2>2 DEF SessionStep, sessionState
<1> QED
    BY <1>1, <1>2, <1>3, <1>4, ClaimsInvariant, GraphInvariant, PTL DEF SessionSpec

\* A confirmation names what it was issued for; the calls that were carried out,
\* and the confirmations left, have each had one of their own.
Resources == Memories \cup {Tenant}
Calls == [operation : Destructive, resource : Resources]
Tickets == [operation : Destructive, resource : Resources, at : Times]

IssuedFor(o, r) == {t \in DOMAIN tickets : tickets[t].operation = o /\ tickets[t].resource = r}
LeftFor(o, r) == {t \in confirmations : tickets[t].operation = o /\ tickets[t].resource = r}
CarriedFor(o, r) == {i \in DOMAIN carried : carried[i].operation = o /\ carried[i].resource = r}

ConfirmationsTyped ==
    /\ tickets \in Seq(Tickets) /\ carried \in Seq(Calls)
    /\ Len(tickets) <= MaxTickets /\ confirmations \subseteq DOMAIN tickets

EachHadItsOwn ==
    \A o \in Destructive, r \in Resources :
        Cardinality(CarriedFor(o, r)) + Cardinality(LeftFor(o, r)) <= Cardinality(IssuedFor(o, r))

ConfirmationInv == ConfirmationsTyped /\ EachHadItsOwn

\* What is counted is finite.
LEMMA CountsAreNumbers ==
    ASSUME ConfirmationsTyped, NEW o, NEW r
    PROVE  /\ IsFiniteSet(IssuedFor(o, r)) /\ Cardinality(IssuedFor(o, r)) \in Nat
           /\ IsFiniteSet(LeftFor(o, r)) /\ Cardinality(LeftFor(o, r)) \in Nat
           /\ IsFiniteSet(CarriedFor(o, r)) /\ Cardinality(CarriedFor(o, r)) \in Nat
<1>1. IsFiniteSet(DOMAIN tickets) /\ IsFiniteSet(DOMAIN carried)
  <2>1. DOMAIN tickets = 1 .. Len(tickets) /\ Len(tickets) \in Nat
      BY DEF ConfirmationsTyped
  <2>2. DOMAIN carried = 1 .. Len(carried) /\ Len(carried) \in Nat
      BY DEF ConfirmationsTyped
  <2> QED
      BY <2>1, <2>2, FS_Interval
<1>2. IssuedFor(o, r) \subseteq DOMAIN tickets /\ LeftFor(o, r) \subseteq DOMAIN tickets
    BY DEF IssuedFor, LeftFor, ConfirmationsTyped
<1>3. CarriedFor(o, r) \subseteq DOMAIN carried
    BY DEF CarriedFor
<1> QED
    BY <1>1, <1>2, <1>3, FS_Subset, FS_CardinalityType

\* tool_confirm_destructive() adds one to what was issued, and to what is left at
\* most that one.
LEMMA ConfirmKeepsCounts ==
    ASSUME ConfirmationInv, now \in Times, NEW operation \in Destructive, NEW resource \in Resources,
           Confirm(operation, resource)
    PROVE  ConfirmationInv'
<1> USE DEF ConfirmationInv
<1> DEFINE n == Len(tickets) + 1
           ticket == [operation |-> operation, resource |-> resource, at |-> now]
<1>1. /\ tickets' = Append(tickets, ticket) /\ UNCHANGED carried
      /\ confirmations' \subseteq confirmations \cup {n}
      /\ Len(tickets) < MaxTickets
    BY DEF Confirm
<1>2. /\ tickets' \in Seq(Tickets) /\ Len(tickets') = n /\ n \in Nat
      /\ DOMAIN tickets' = DOMAIN tickets \cup {n} /\ n \notin DOMAIN tickets
      /\ \A t \in DOMAIN tickets : tickets'[t] = tickets[t]
      /\ tickets'[n] = ticket
    BY <1>1 DEF ConfirmationsTyped, Tickets
<1>3. ConfirmationsTyped'
    BY <1>1, <1>2, SessionAssumption DEF ConfirmationsTyped
<1>4. ASSUME NEW o \in Destructive, NEW r \in Resources
      PROVE  Cardinality(CarriedFor(o, r)') + Cardinality(LeftFor(o, r)')
                 <= Cardinality(IssuedFor(o, r)')
  <2>1. CarriedFor(o, r)' = CarriedFor(o, r)
      BY <1>1 DEF CarriedFor
  <2>2. Cardinality(CarriedFor(o, r)) + Cardinality(LeftFor(o, r)) <= Cardinality(IssuedFor(o, r))
      BY DEF EachHadItsOwn
  <2>3. CASE operation = o /\ resource = r
    <3>1. IssuedFor(o, r)' = IssuedFor(o, r) \cup {n} /\ n \notin IssuedFor(o, r)
        BY <1>2, <2>3 DEF IssuedFor
    <3>2. LeftFor(o, r)' \subseteq LeftFor(o, r) \cup {n} /\ n \notin LeftFor(o, r)
        BY <1>1, <1>2 DEF LeftFor, ConfirmationsTyped
    <3>3. Cardinality(IssuedFor(o, r)') = Cardinality(IssuedFor(o, r)) + 1
        BY <3>1, CountsAreNumbers, FS_AddElement
    <3>4. /\ IsFiniteSet(LeftFor(o, r) \cup {n})
          /\ Cardinality(LeftFor(o, r) \cup {n}) = Cardinality(LeftFor(o, r)) + 1
        BY <3>2, CountsAreNumbers, FS_AddElement
    <3>5. /\ Cardinality(LeftFor(o, r)') \in Nat
          /\ Cardinality(LeftFor(o, r)') <= Cardinality(LeftFor(o, r)) + 1
        BY <3>2, <3>4, FS_Subset, FS_CardinalityType
    <3> QED
        BY <2>1, <2>2, <3>3, <3>5, CountsAreNumbers
  <2>4. CASE ~(operation = o /\ resource = r)
    <3>1. IssuedFor(o, r)' = IssuedFor(o, r)
        BY <1>2, <2>4 DEF IssuedFor
    <3>2. LeftFor(o, r)' \subseteq LeftFor(o, r)
        BY <1>1, <1>2, <2>4 DEF LeftFor, ConfirmationsTyped
    <3>3. /\ Cardinality(LeftFor(o, r)') \in Nat
          /\ Cardinality(LeftFor(o, r)') <= Cardinality(LeftFor(o, r))
        BY <3>2, CountsAreNumbers, FS_Subset, FS_CardinalityType
    <3> QED
        BY <2>1, <2>2, <3>1, <3>3, CountsAreNumbers
  <2> QED
      BY <2>3, <2>4
<1> QED
    BY <1>3, <1>4 DEF EachHadItsOwn

\* consume_local_confirmation() takes away the one that the call is carried out for.
LEMMA ConfirmedKeepsCounts ==
    ASSUME ConfirmationInv, NEW operation \in Destructive, NEW resource \in Resources,
           Confirmed(operation, resource)
    PROVE  ConfirmationInv'
<1> USE DEF ConfirmationInv
<1> DEFINE n == Len(carried) + 1
           call == [operation |-> operation, resource |-> resource]
<1>1. PICK t \in confirmations :
          /\ tickets[t].operation = operation /\ tickets[t].resource = resource
          /\ confirmations' = confirmations \ {t}
          /\ carried' = Append(carried, call) /\ UNCHANGED tickets
    BY DEF Confirmed, Matches, Consumed
<1>2. /\ carried' \in Seq(Calls) /\ n \in Nat
      /\ DOMAIN carried' = DOMAIN carried \cup {n} /\ n \notin DOMAIN carried
      /\ \A i \in DOMAIN carried : carried'[i] = carried[i]
      /\ carried'[n] = call
    BY <1>1 DEF ConfirmationsTyped, Calls
<1>3. ConfirmationsTyped'
    BY <1>1, <1>2 DEF ConfirmationsTyped
<1>4. ASSUME NEW o \in Destructive, NEW r \in Resources
      PROVE  Cardinality(CarriedFor(o, r)') + Cardinality(LeftFor(o, r)')
                 <= Cardinality(IssuedFor(o, r)')
  <2>1. IssuedFor(o, r)' = IssuedFor(o, r)
      BY <1>1 DEF IssuedFor
  <2>2. Cardinality(CarriedFor(o, r)) + Cardinality(LeftFor(o, r)) <= Cardinality(IssuedFor(o, r))
      BY DEF EachHadItsOwn
  <2>3. CASE operation = o /\ resource = r
    <3>1. CarriedFor(o, r)' = CarriedFor(o, r) \cup {n} /\ n \notin CarriedFor(o, r)
        BY <1>2, <2>3 DEF CarriedFor
    <3>2. LeftFor(o, r)' = LeftFor(o, r) \ {t} /\ t \in LeftFor(o, r)
        BY <1>1, <2>3 DEF LeftFor
    <3>3. Cardinality(CarriedFor(o, r)') = Cardinality(CarriedFor(o, r)) + 1
        BY <3>1, CountsAreNumbers, FS_AddElement
    <3>4. Cardinality(LeftFor(o, r)') = Cardinality(LeftFor(o, r)) - 1
        BY <3>2, CountsAreNumbers, FS_RemoveElement
    <3> QED
        BY <2>1, <2>2, <3>3, <3>4, CountsAreNumbers
  <2>4. CASE ~(operation = o /\ resource = r)
    <3>1. CarriedFor(o, r)' = CarriedFor(o, r)
        BY <1>2, <2>4 DEF CarriedFor
    <3>2. LeftFor(o, r)' = LeftFor(o, r)
        BY <1>1, <2>4 DEF LeftFor
    <3> QED
        BY <2>1, <2>2, <3>1, <3>2
  <2> QED
      BY <2>3, <2>4
<1> QED
    BY <1>3, <1>4 DEF EachHadItsOwn

\* A confirmation that is misspent is gone, and nothing was carried out for it.
LEMMA FewerLeftKeepsCounts ==
    ASSUME ConfirmationInv, confirmations' \subseteq confirmations, UNCHANGED <<tickets, carried>>
    PROVE  ConfirmationInv'
<1> USE DEF ConfirmationInv
<1>1. ConfirmationsTyped'
    BY DEF ConfirmationsTyped
<1>2. ASSUME NEW o \in Destructive, NEW r \in Resources
      PROVE  Cardinality(CarriedFor(o, r)') + Cardinality(LeftFor(o, r)')
                 <= Cardinality(IssuedFor(o, r)')
  <2>1. /\ CarriedFor(o, r)' = CarriedFor(o, r) /\ IssuedFor(o, r)' = IssuedFor(o, r)
        /\ LeftFor(o, r)' \subseteq LeftFor(o, r)
      BY DEF CarriedFor, IssuedFor, LeftFor
  <2>2. /\ Cardinality(LeftFor(o, r)') \in Nat
        /\ Cardinality(LeftFor(o, r)') <= Cardinality(LeftFor(o, r))
      BY <2>1, CountsAreNumbers, FS_Subset, FS_CardinalityType
  <2>3. Cardinality(CarriedFor(o, r)) + Cardinality(LeftFor(o, r)) <= Cardinality(IssuedFor(o, r))
      BY DEF EachHadItsOwn
  <2> QED
      BY <2>1, <2>2, <2>3, CountsAreNumbers
<1> QED
    BY <1>1, <1>2 DEF EachHadItsOwn

\* A process begins without confirmations.
LEMMA NothingConfirmed ==
    tickets = <<>> /\ carried = <<>> /\ confirmations = {} => ConfirmationInv
<1> SUFFICES ASSUME tickets = <<>>, carried = <<>>, confirmations = {} PROVE ConfirmationInv
    OBVIOUS
<1>1. ConfirmationsTyped
    BY SessionAssumption DEF ConfirmationsTyped
<1>2. ASSUME NEW o, NEW r
      PROVE  CarriedFor(o, r) = {} /\ LeftFor(o, r) = {} /\ IssuedFor(o, r) = {}
    BY DEF CarriedFor, LeftFor, IssuedFor
<1>3. Cardinality({}) = 0
    BY FS_EmptySet
<1>4. ASSUME NEW o, NEW r
      PROVE  Cardinality(CarriedFor(o, r)) + Cardinality(LeftFor(o, r))
                 <= Cardinality(IssuedFor(o, r))
  <2>1. /\ Cardinality(CarriedFor(o, r)) = 0 /\ Cardinality(LeftFor(o, r)) = 0
        /\ Cardinality(IssuedFor(o, r)) = 0
      BY <1>2, <1>3
  <2> QED
      BY <2>1
<1> QED
    BY <1>1, <1>4 DEF ConfirmationInv, EachHadItsOwn

\* Every message keeps a confirmation to the destruction it was given for.
LEMMA SessionKeepsCounts ==
    ASSUME ConfirmationInv, now \in Times, SessionNext, DOMAIN memories \subseteq Memories
    PROVE  ConfirmationInv'
<1>1. ASSUME UNCHANGED <<tickets, confirmations, carried>> PROVE ConfirmationInv'
    BY <1>1, FewerLeftKeepsCounts
<1>2. ASSUME NEW o \in Destructive, NEW r \in Resources, Confirm(o, r) PROVE ConfirmationInv'
    BY <1>2, ConfirmKeepsCounts
<1>3. ASSUME NEW o \in Destructive, NEW r \in Resources, Confirmed(o, r) PROVE ConfirmationInv'
    BY <1>3, ConfirmedKeepsCounts
<1>4. ASSUME NEW o, NEW r, Unconfirmed(o, r) PROVE ConfirmationInv'
    BY <1>4, FewerLeftKeepsCounts DEF Unconfirmed
<1>5. CASE Restart
  <2>1. (tickets = <<>> /\ carried = <<>> /\ confirmations = {} => ConfirmationInv)'
      BY NothingConfirmed, PTL
  <2> QED
      BY <1>5, <2>1 DEF Restart
<1> QED
    BY <1>1, <1>2, <1>3, <1>4, <1>5
       DEF SessionNext, Initialize, Initialized, Harmless, ToolRemember, ToolRememberFails,
           ToolUpdate, ToolDelete, ToolDeleteNothing, ToolDeleteFails, ToolConsolidate,
           ToolRunLifecycle, ToolRunLifecycleFails, Subscribe, Unsubscribe, ListResources,
           ListMoreResources, handshakeVars, Destructive, Resources

\* What else a session holds: whom it tells of what, and where a listing is.
SubscriptionsTyped ==
    /\ subscriptions \subseteq Uris /\ IsFiniteSet(subscriptions)
    /\ Cardinality(subscriptions) <= MaxSubscriptions

ToldTyped == told.uris \subseteq Uris /\ told.list \in BOOLEAN

WalkTyped == walk # None => "scope" \in DOMAIN walk /\ walk.scope \in Scopes

SessionInv ==
    /\ phase \in {"new", "greeted", "ready"}
    /\ SubscriptionsTyped /\ ToldTyped /\ WalkTyped /\ ConfirmationInv

\* The page that is listed next is of the same scope.
LEMMA PageKeepsScope ==
    ASSUME NEW w, "scope" \in DOMAIN w
    PROVE  "scope" \in DOMAIN Page(w) /\ Page(w).scope = w.scope
    BY DEF Page

\* What a change announces goes to subscribed URIs, and ends the quiet of a walk.
LEMMA AnnouncementsAreTyped ==
    ASSUME SubscriptionsTyped, WalkTyped, NEW change, change.list \in BOOLEAN, Announce(change)
    PROVE  ToldTyped' /\ WalkTyped'
<1>1. ToldTyped'
    BY DEF Announce, Told, ToldTyped, SubscriptionsTyped
<1>2. WalkTyped'
    BY DEF Announce, WalkTyped
<1> QED
    BY <1>1, <1>2

\* A message that changes nothing tells nobody.
LEMMA SilenceIsTyped ==
    ASSUME told' = Silence
    PROVE  ToldTyped'
    BY DEF Silence, ToldTyped

\* A subscription is added only where the limit leaves room.
LEMMA SubscribeKeepsLimit ==
    ASSUME SubscriptionsTyped, NEW uri \in Uris, Subscribe(uri)
    PROVE  SubscriptionsTyped'
<1> USE DEF SubscriptionsTyped, Subscribe
<1>1. CASE uri \in subscriptions
  <2>1. subscriptions' = subscriptions
      BY <1>1
  <2> QED
      BY <2>1
<1>2. CASE uri \notin subscriptions
  <2>1. /\ IsFiniteSet(subscriptions \cup {uri})
        /\ Cardinality(subscriptions \cup {uri}) = Cardinality(subscriptions) + 1
      BY <1>2, FS_AddElement
  <2>2. Cardinality(subscriptions) \in Nat
      BY FS_CardinalityType
  <2> QED
      BY <1>2, <2>1, <2>2, SessionAssumption
<1> QED
    BY <1>1, <1>2

\* Unsubscribing and a new session only take subscriptions away.
LEMMA FewerSubscriptionsKeepLimit ==
    ASSUME SubscriptionsTyped, subscriptions' \subseteq subscriptions
    PROVE  SubscriptionsTyped'
<1>1. /\ IsFiniteSet(subscriptions') /\ Cardinality(subscriptions') <= Cardinality(subscriptions)
      /\ Cardinality(subscriptions') \in Nat /\ Cardinality(subscriptions) \in Nat
    BY FS_Subset, FS_CardinalityType DEF SubscriptionsTyped
<1> QED
    BY <1>1, SessionAssumption DEF SubscriptionsTyped

\* No message brings the subscriptions above their limit.
LEMMA SessionKeepsSubscriptions ==
    ASSUME SubscriptionsTyped, SessionNext
    PROVE  SubscriptionsTyped'
<1>1. ASSUME subscriptions' \subseteq subscriptions PROVE SubscriptionsTyped'
    BY <1>1, FewerSubscriptionsKeepLimit
<1>2. ASSUME NEW uri \in Uris, Subscribe(uri) PROVE SubscriptionsTyped'
    BY <1>2, SubscribeKeepsLimit
<1> QED
    BY <1>1, <1>2
       DEF SessionNext, Initialize, Initialized, Restart, Confirm, Unconfirmed, ToolRemember,
           ToolRememberFails, ToolUpdate, ToolDelete, ToolDeleteNothing, ToolDeleteFails,
           ToolConsolidate, ToolRunLifecycle, ToolRunLifecycleFails, Unsubscribe, ListResources,
           ListMoreResources, Announce, Unannounced

\* What is told is what is subscribed to, and a walk stays a walk.
LEMMA SessionKeepsTold ==
    ASSUME SubscriptionsTyped, WalkTyped, SessionNext
    PROVE  ToldTyped' /\ WalkTyped'
<1>1. ASSUME told' = Silence, walk' = walk \/ walk' = None PROVE ToldTyped' /\ WalkTyped'
    BY <1>1, SilenceIsTyped DEF WalkTyped
<1>2. ASSUME Unannounced PROVE ToldTyped' /\ WalkTyped'
    BY <1>2, SilenceIsTyped DEF Unannounced, WalkTyped
<1>3. ASSUME Announce(ListChange) PROVE ToldTyped' /\ WalkTyped'
  <2>1. ListChange.list \in BOOLEAN
      BY DEF ListChange
  <2> QED
      BY <1>3, <2>1, AnnouncementsAreTyped
<1>4. ASSUME NEW m, NEW scope, NEW p, ToolUpdate(m, scope, p) PROVE ToldTyped' /\ WalkTyped'
  <2> DEFINE change == [list |-> MembershipChanged(p),
                        updated |-> {[memory |-> m, scope |-> scope]}, all |-> FALSE]
  <2>1. change.list \in BOOLEAN
      BY DEF MembershipChanged
  <2>2. Announce(change)
      BY <1>4 DEF ToolUpdate
  <2> HIDE DEF change
  <2> QED
      BY <2>1, <2>2, AnnouncementsAreTyped
<1>5. ASSUME ToolRunLifecycle PROVE ToldTyped' /\ WalkTyped'
  <2> DEFINE change == [list |-> \E m \in DOMAIN memories : memories[m].state # memories'[m].state,
                        updated |-> {}, all |-> memories' # memories]
  <2>1. change.list \in BOOLEAN
      OBVIOUS
  <2>2. Announce(change)
      BY <1>5 DEF ToolRunLifecycle
  <2> HIDE DEF change
  <2> QED
      BY <2>1, <2>2, AnnouncementsAreTyped
<1>6. ASSUME NEW scope \in Scopes, ListResources(scope) PROVE ToldTyped' /\ WalkTyped'
  <2> DEFINE w == [scope |-> scope, offset |-> 0, seen |-> <<>>, quiet |-> TRUE, ended |-> FALSE]
  <2>1. "scope" \in DOMAIN w /\ w.scope = scope
      OBVIOUS
  <2>2. walk' = Page(w) /\ told' = Silence
      BY <1>6 DEF ListResources
  <2> HIDE DEF w
  <2> QED
      BY <2>1, <2>2, PageKeepsScope, SilenceIsTyped DEF WalkTyped
<1>7. ASSUME ListMoreResources PROVE ToldTyped' /\ WalkTyped'
    BY <1>7, PageKeepsScope, SilenceIsTyped DEF ListMoreResources, WalkTyped
<1> QED
    BY <1>1, <1>2, <1>3, <1>4, <1>5, <1>6, <1>7
       DEF SessionNext, Initialize, Initialized, Restart, Confirm, Unconfirmed, ToolRemember,
           ToolRememberFails, ToolDelete, ToolDeleteNothing, ToolDeleteFails, ToolConsolidate,
           ToolRunLifecycleFails, Subscribe, Unsubscribe

\* The handshake has three phases and no others.
LEMMA SessionKeepsPhase ==
    ASSUME phase \in {"new", "greeted", "ready"}, SessionNext
    PROVE  phase' \in {"new", "greeted", "ready"}
    BY DEF SessionNext, Initialize, Initialized, Restart, Confirm, Unconfirmed, ToolRemember,
           ToolRememberFails, ToolUpdate, ToolDelete, ToolDeleteNothing, ToolDeleteFails,
           ToolConsolidate, ToolRunLifecycle, ToolRunLifecycleFails, Subscribe, Unsubscribe,
           ListResources, ListMoreResources, Announce, Unannounced, handshakeVars

\* The tools' memories stay sound, and so do the session's records of them.
THEOREM SessionInvariant == SessionSpec => []SessionInv
<1>1. SessionInit => SessionInv
  <2> SUFFICES ASSUME SessionInit PROVE SessionInv
      OBVIOUS
  <2>1. SubscriptionsTyped
      BY FS_EmptySet, SessionAssumption DEF SessionInit, SubscriptionsTyped
  <2>2. ToldTyped /\ WalkTyped
      BY DEF SessionInit, ToldTyped, WalkTyped, Silence
  <2> QED
      BY <2>1, <2>2, NothingConfirmed DEF SessionInit, SessionInv
<1>2. SessionInv /\ CorpusInv /\ ClaimsInv /\ [SessionStep]_sessionState => SessionInv'
  <2> SUFFICES ASSUME SessionInv, CorpusInv, ClaimsInv, [SessionStep]_sessionState
               PROVE  SessionInv'
      OBVIOUS
  <2>1. CASE UNCHANGED sessionVars
    <3>1. UNCHANGED <<phase, subscriptions, told, walk, tickets, confirmations, carried>>
        BY <2>1 DEF sessionVars, handshakeVars
    <3>2. ConfirmationInv'
        BY <3>1, FewerLeftKeepsCounts DEF SessionInv
    <3> QED
        BY <3>1, <3>2 DEF SessionInv, SubscriptionsTyped, ToldTyped, WalkTyped
  <2>2. CASE SessionNext
      BY <2>2, SessionKeepsPhase, SessionKeepsSubscriptions, SessionKeepsTold, SessionKeepsCounts
         DEF SessionInv, CorpusInv, CorpusTypeOK, ClaimsInv, ClaimsTypeOK
  <2> QED
      BY <2>1, <2>2 DEF SessionStep, sessionState
<1>3. SessionSpec => KnowledgeSpec
  <2>1. [SessionStep]_sessionState => [KnowledgeNext]_<<vars, graphVars>>
      BY DEF SessionStep, sessionState
  <2> QED
      BY <2>1, PTL DEF SessionSpec, KnowledgeSpec
<1>4. KnowledgeSpec => Spec
  <2>1. [KnowledgeNext]_<<vars, graphVars>> => [Next]_vars
      BY DEF KnowledgeNext
  <2> QED
      BY <2>1, PTL DEF KnowledgeSpec, KnowledgeInit, Spec
<1> QED
    BY <1>1, <1>2, <1>3, <1>4, ClaimsInvariant, SessionKeepsCorpus, PTL DEF SessionSpec

\* The limits on subscriptions and confirmations hold.
THEOREM SessionTypeCorrect == SessionSpec => []SessionTypeOK
<1>1. SessionInv => SessionTypeOK
    BY DEF SessionInv, SessionTypeOK, SubscriptionsTyped, ToldTyped, WalkTyped, ConfirmationInv,
           ConfirmationsTyped
<1> QED
    BY <1>1, SessionInvariant, PTL

\* However tokens are issued, misspent, expired and repeated, no destructive tool
\* is carried out more often than it was confirmed for that very resource.
THEOREM DestructionIsConfirmed == SessionSpec => []ConfirmedOnce
<1>1. ASSUME SessionInv PROVE ConfirmedOnce
  <2> SUFFICES ASSUME NEW i \in DOMAIN carried
               PROVE  Cardinality(CarriedFor(carried[i].operation, carried[i].resource))
                          <= Cardinality(IssuedFor(carried[i].operation, carried[i].resource))
      BY DEF ConfirmedOnce, CarriedFor, IssuedFor
  <2>1. carried[i].operation \in Destructive /\ carried[i].resource \in Resources
    <3>1. carried \in Seq(Calls)
        BY <1>1 DEF SessionInv, ConfirmationInv, ConfirmationsTyped
    <3>2. carried[i] \in Calls
        BY <3>1
    <3> QED
        BY <3>2 DEF Calls
  <2> QED
      BY <1>1, <2>1, CountsAreNumbers DEF SessionInv, ConfirmationInv, EachHadItsOwn
<1> QED
    BY <1>1, SessionInvariant, PTL

\* A tool that rewrites a memory's revision, or takes the memory away, tells.
LEMMA ToolsTell ==
    ASSUME CorpusInv, SessionNext, now \in Times, NEW u \in subscriptions, u.memory \in DOMAIN memories
    PROVE  IF u.memory \in DOMAIN memories'
           THEN memories'[u.memory].revision # memories[u.memory].revision => u \in told'.uris
           ELSE told'.list
<1> DEFINE Goal == IF u.memory \in DOMAIN memories'
                   THEN memories'[u.memory].revision # memories[u.memory].revision
                            => u \in told'.uris
                   ELSE told'.list
           Same == u.memory \in DOMAIN memories'
                       /\ memories'[u.memory].revision = memories[u.memory].revision
<1>0. Same => Goal
    OBVIOUS
<1>1. ASSUME UNCHANGED memories PROVE Same
    BY <1>1
<1>2. ASSUME NEW m, NEW state, Fresh(m, state) PROVE Same
    BY <1>2 DEF Fresh, With
<1>3. ASSUME NEW m, NEW text, NEW importance, ConsolidateMerge(m, text, importance) PROVE Same
    BY <1>3 DEF ConsolidateMerge, CorpusInv, CorpusTypeOK, MemoryRecord
<1>4. ASSUME NEW upTo, RunLifecycle(upTo) PROVE Same
  <2>1. memories[u.memory] \in MemoryRecord
      BY DEF CorpusInv, CorpusTypeOK
  <2>2. Decayed(memories[u.memory]).revision = memories[u.memory].revision
      BY <2>1 DEF Decayed, MemoryRecord
  <2> QED
      BY <1>4, <2>2 DEF RunLifecycle
<1>5. ASSUME NEW m, NEW scope, NEW p, ToolUpdate(m, scope, p) PROVE Goal
  <2>1. CASE u.memory = m
    <3>1. u \in told'.uris
        BY <1>5, <2>1 DEF ToolUpdate, Announce, Told, SameResource
    <3> QED
        BY <1>5, <3>1 DEF ToolUpdate, UpdateMemory
  <2>2. CASE u.memory # m
      BY <1>0, <1>5, <2>2 DEF ToolUpdate, UpdateMemory
  <2> QED
      BY <2>1, <2>2
<1>6. ASSUME NEW m, NEW scope, ToolDelete(m, scope) PROVE Goal
  <2>1. told'.list
      BY <1>6 DEF ToolDelete, Announce, Told, ListChange
  <2> QED
      BY <1>6, <2>1 DEF ToolDelete, DeleteMemory
<1> HIDE DEF Goal, Same
<1>7. Goal
    BY <1>0, <1>1, <1>2, <1>3, <1>4, <1>5, <1>6
       DEF SessionNext, Initialize, Initialized, Restart, Confirm, Unconfirmed, ToolRemember,
           ToolRememberFails, Remember, RememberInterrupted, ToolDeleteNothing, ToolDeleteFails,
           DeleteInterrupted, ToolConsolidate, ConsolidateCreate, ToolRunLifecycle,
           ToolRunLifecycleFails, Subscribe, Unsubscribe, ListResources, ListMoreResources, corpusVars
<1> QED
    BY <1>7 DEF Goal

\* Whoever subscribed to a memory is told of every revision of it, and that the
\* list changed when it is deleted (notify_resource_changes).
THEOREM RevisionsAreTold == SessionSpec => SubscribersAreTold
<1> DEFINE Tells == \A u \in subscriptions : u.memory \in DOMAIN memories =>
                        IF u.memory \in DOMAIN memories'
                        THEN memories'[u.memory].revision # memories[u.memory].revision
                                 => u \in told'.uris
                        ELSE told'.list
<1>1. CorpusInv /\ ClaimsInv /\ [SessionStep]_sessionState => [Tells]_<<corpusVars, sessionVars>>
  <2> SUFFICES ASSUME CorpusInv, ClaimsInv, SessionNext PROVE Tells
      BY DEF SessionStep, sessionState
  <2> QED
      BY ToolsTell DEF ClaimsInv, ClaimsTypeOK
<1>2. SessionSpec => KnowledgeSpec
  <2>1. [SessionStep]_sessionState => [KnowledgeNext]_<<vars, graphVars>>
      BY DEF SessionStep, sessionState
  <2> QED
      BY <2>1, PTL DEF SessionSpec, KnowledgeSpec
<1>3. KnowledgeSpec => Spec
  <2>1. [KnowledgeNext]_<<vars, graphVars>> => [Next]_vars
      BY DEF KnowledgeNext
  <2> QED
      BY <2>1, PTL DEF KnowledgeSpec, KnowledgeInit, Spec
<1> QED
    BY <1>1, <1>2, <1>3, ClaimsInvariant, SessionKeepsCorpus, PTL
       DEF SessionSpec, SubscribersAreTold

-----------------------------------------------------------------------------
\* Listings.

\* The memories of a listing that come before an offset.
First(listable, offset) == {m \in listable : Cardinality(Below(listable, m)) < offset}

WalkRecord == [scope : Scopes, offset : Nat, seen : Seq(Memories), quiet : BOOLEAN, ended : BOOLEAN]

\* A walk that nothing disturbed has shown what comes before its offset, and has
\* ended only behind the last memory.
WalkIsSound ==
    walk # None =>
        /\ walk \in WalkRecord
        /\ walk.quiet =>
               /\ walk.seen = InOrder(First(Listable(walk.scope), walk.offset)
                                          \cap Readable(walk.scope))
               /\ walk.ended => Cardinality(Listable(walk.scope)) <= walk.offset

\* Ids are numbers, and there are finitely many.
LEMMA ListableIsFinite ==
    ASSUME CorpusTypeOK, NEW scope
    PROVE  /\ Listable(scope) \in SUBSET Int /\ IsFiniteSet(Listable(scope))
           /\ Listable(scope) \subseteq Memories /\ Cardinality(Listable(scope)) \in Nat
<1>1. Listable(scope) \subseteq Memories
    BY DEF CorpusTypeOK, Listable, Gettable
<1>2. Memories \subseteq Nat
  <2>1. Memories = 1 .. Cardinality(Memories) /\ Cardinality(Memories) \in Nat
      BY CorpusAssumption, FS_CardinalityType
  <2> QED
      BY <2>1
<1>3. IsFiniteSet(Listable(scope))
    BY <1>1, CorpusAssumption, FS_Subset
<1>4. Cardinality(Listable(scope)) \in Nat
    BY <1>3, FS_CardinalityType
<1>5. \A m \in Memories : m \in Int
    BY <1>2
<1> QED
    BY <1>1, <1>3, <1>4, <1>5

\* What a page adds comes behind what was shown, and leaves nothing between out.
LEMMA PageAddsTheNext ==
    ASSUME CorpusTypeOK, NEW scope, NEW offset \in Nat
    PROVE  LET listable == Listable(scope)
               page == {m \in listable :
                   Cardinality(Below(listable, m)) \in offset .. offset + PageSize - 1}
           IN  InOrder(First(listable, offset) \cap Readable(scope))
                   \o InOrder(page \cap Readable(scope))
                   = InOrder(First(listable, offset + PageSize) \cap Readable(scope))
<1> DEFINE listable == Listable(scope)
           page == {m \in listable :
               Cardinality(Below(listable, m)) \in offset .. offset + PageSize - 1}
           A == First(listable, offset) \cap Readable(scope)
           B == page \cap Readable(scope)
<1>1. /\ listable \in SUBSET Int /\ IsFiniteSet(listable)
      /\ \A m \in listable : m \in Int /\ Cardinality(Below(listable, m)) \in Nat
    BY ListableIsFinite, PlacesAreOfTheSet
<1> HIDE DEF listable
<1>2. A \subseteq listable /\ B \subseteq listable
    BY DEF First
<1>3. A \in SUBSET Int /\ B \in SUBSET Int /\ IsFiniteSet(A) /\ IsFiniteSet(B)
    BY <1>1, <1>2, FS_Subset
<1>4. ASSUME NEW a \in A, NEW b \in B PROVE a < b
  <2>1. /\ a \in listable /\ b \in listable
        /\ Cardinality(Below(listable, a)) < Cardinality(Below(listable, b))
      BY <1>1, <1>2 DEF First
  <2>2. ~(b < a) /\ a # b
      BY <1>1, <2>1, LowerKeysHaveFewer
  <2> QED
      BY <1>1, <2>1, <2>2
<1>5. A \cup B = First(listable, offset + PageSize) \cap Readable(scope)
  <2>1. ASSUME NEW n \in Nat
        PROVE  n < offset + PageSize <=> n < offset \/ n \in offset .. offset + PageSize - 1
      BY SessionAssumption
  <2>2. ASSUME NEW m \in listable
        PROVE  m \in First(listable, offset + PageSize)
                   <=> m \in First(listable, offset) \/ m \in page
      BY <1>1, <2>1 DEF First
  <2>3. /\ First(listable, offset + PageSize) \subseteq listable
        /\ First(listable, offset) \subseteq listable /\ page \subseteq listable
      BY DEF First
  <2> HIDE DEF page
  <2> QED
      BY <2>2, <2>3
<1> HIDE DEF A, B
<1>6. InOrder(A) \o InOrder(B) = InOrder(A \cup B)
    BY <1>3, <1>4, ScansConcatenate
<1> QED
    BY <1>5, <1>6 DEF A, B, listable

\* list_resources() goes on where it was.
LEMMA PageKeepsWalk ==
    ASSUME CorpusTypeOK, NEW w \in WalkRecord,
           w.quiet => w.seen = InOrder(First(Listable(w.scope), w.offset) \cap Readable(w.scope)),
           walk' = Page(w), UNCHANGED corpusVars
    PROVE  WalkIsSound'
<1> DEFINE listable == Listable(w.scope)
           page == {m \in listable :
               Cardinality(Below(listable, m)) \in w.offset .. w.offset + PageSize - 1}
           next == [w EXCEPT !.seen = @ \o InOrder(page \cap Readable(w.scope)),
                             !.offset = @ + PageSize,
                             !.ended = w.offset + PageSize >= Cardinality(listable)]
<1>1. walk' = next
    BY DEF Page
<1>2. /\ Listable(w.scope)' = Listable(w.scope) /\ Readable(w.scope)' = Readable(w.scope)
    BY DEF corpusVars, Listable, Readable, Gettable, MemoryVisible
<1>3. /\ listable \in SUBSET Int /\ IsFiniteSet(listable) /\ listable \subseteq Memories
      /\ Cardinality(listable) \in Nat
    BY ListableIsFinite
<1>4. InOrder(page \cap Readable(w.scope)) \in Seq(Memories)
  <2> DEFINE shown == page \cap Readable(w.scope)
  <2>1. shown \in SUBSET Int /\ IsFiniteSet(shown) /\ shown \subseteq Memories
      BY <1>3, FS_Subset
  <2> HIDE DEF shown
  <2>2. Cardinality(shown) \in Nat
      BY <2>1, FS_CardinalityType
  <2>3. InOrder(shown) = [i \in 1 .. Cardinality(shown) |-> InOrder(shown)[i]]
      BY DEF InOrder
  <2>4. \A i \in 1 .. Cardinality(shown) : InOrder(shown)[i] \in Memories
      BY <2>1, KeyAtPlace
  <2>5. InOrder(shown) \in Seq(Memories)
      BY <2>2, <2>3, <2>4
  <2> QED
      BY <2>5 DEF shown
<1>5. w.quiet => w.seen \o InOrder(page \cap Readable(w.scope))
                     = InOrder(First(listable, w.offset + PageSize) \cap Readable(w.scope))
  <2>1. w.offset \in Nat
      BY DEF WalkRecord
  <2> QED
      BY <2>1, PageAddsTheNext
<1> HIDE DEF page, listable
<1>6. next \in WalkRecord
  <2> DEFINE added == InOrder(page \cap Readable(w.scope))
             last == w.offset + PageSize >= Cardinality(listable)
  <2>1. /\ w.offset + PageSize \in Nat /\ last \in BOOLEAN
        /\ w.seen \o added \in Seq(Memories)
    <3>1. w.offset \in Nat /\ w.seen \in Seq(Memories) /\ PageSize \in Nat
        BY SessionAssumption DEF WalkRecord
    <3> QED
        BY <1>3, <1>4, <3>1
  <2> HIDE DEF added, last
  <2>2. [w EXCEPT !.seen = @ \o added, !.offset = @ + PageSize, !.ended = last] \in WalkRecord
      BY <2>1 DEF WalkRecord
  <2> QED
      BY <2>2 DEF added, last
<1>7. /\ next.scope = w.scope /\ next.offset = w.offset + PageSize /\ next.quiet = w.quiet
      /\ next.seen = w.seen \o InOrder(page \cap Readable(w.scope))
      /\ next.ended = (w.offset + PageSize >= Cardinality(listable))
    BY DEF WalkRecord
<1> HIDE DEF next
<1>8. next # None => /\ next.quiet => next.seen = InOrder(First(listable, next.offset)
                                                           \cap Readable(w.scope))
                     /\ next.ended => Cardinality(listable) <= next.offset
    BY <1>3, <1>5, <1>7, SessionAssumption DEF WalkRecord
<1> QED
    BY <1>1, <1>2, <1>6, <1>7, <1>8 DEF WalkIsSound, listable

\* What is listed and readable hangs on which memories there are, of which kind
\* and in which state.
LEMMA ListingHangsOnMembership ==
    ASSUME DOMAIN memories' = DOMAIN memories,
           \A m \in DOMAIN memories : memories'[m].kind = memories[m].kind,
           NEW scope
    PROVE  /\ Readable(scope)' = Readable(scope)
           /\ (\A m \in DOMAIN memories : memories'[m].state = memories[m].state)
                  => Listable(scope)' = Listable(scope)
<1>1. \A m \in DOMAIN memories : MemoryVisible(m, scope)' <=> MemoryVisible(m, scope)
    BY DEF MemoryVisible
<1>2. Gettable(scope)' = Gettable(scope)
    BY <1>1 DEF Gettable
<1>3. Readable(scope)' = Readable(scope)
    BY <1>2 DEF Readable, Policy
<1>4. ASSUME \A m \in DOMAIN memories : memories'[m].state = memories[m].state
      PROVE  Listable(scope)' = Listable(scope)
    BY <1>2, <1>4 DEF Listable, Gettable
<1> QED
    BY <1>3, <1>4

\* A message that tells of no change of the list has not changed it.
LEMMA AnnounceKeepsWalk ==
    ASSUME WalkIsSound, NEW change, change.list \in BOOLEAN, Announce(change),
           ~change.list => \A scope : /\ Listable(scope)' = Listable(scope)
                                     /\ Readable(scope)' = Readable(scope)
    PROVE  WalkIsSound'
<1>1. CASE walk = None
    BY <1>1 DEF Announce, WalkIsSound
<1>2. CASE walk # None
  <2>1. walk \in WalkRecord /\ walk' = [walk EXCEPT !.quiet = walk.quiet /\ ~change.list]
      BY <1>2 DEF Announce, WalkIsSound
  <2>2. /\ walk' \in WalkRecord /\ walk'.quiet = (walk.quiet /\ ~change.list)
        /\ walk'.scope = walk.scope /\ walk'.offset = walk.offset
        /\ walk'.seen = walk.seen /\ walk'.ended = walk.ended
      BY <2>1 DEF WalkRecord
  <2>3. CASE change.list
      BY <2>2, <2>3 DEF WalkIsSound
  <2>4. CASE ~change.list
    <3>1. /\ Listable(walk.scope)' = Listable(walk.scope)
          /\ Readable(walk.scope)' = Readable(walk.scope)
      <4>1. \A scope : Listable(scope)' = Listable(scope) /\ Readable(scope)' = Readable(scope)
          BY <2>4
      <4>2. walk'.scope = walk.scope
          BY <2>2
      <4> QED
          BY <2>2, <4>1, <4>2 DEF Listable, Readable, Gettable, MemoryVisible
    <3> QED
        BY <1>2, <2>2, <3>1 DEF WalkIsSound
  <2> QED
      BY <2>3, <2>4
<1> QED
    BY <1>1, <1>2

\* A change that goes unannounced, or is told, ends the promise of the walk.
LEMMA DisturbedKeepsWalk ==
    ASSUME WalkIsSound, walk' = IF walk = None THEN None ELSE [walk EXCEPT !.quiet = FALSE]
    PROVE  WalkIsSound'
<1>1. CASE walk = None
    BY <1>1 DEF WalkIsSound
<1>2. CASE walk # None
  <2>1. walk \in WalkRecord /\ walk' = [walk EXCEPT !.quiet = FALSE]
      BY <1>2 DEF WalkIsSound
  <2>2. walk' \in WalkRecord /\ walk'.quiet = FALSE
      BY <2>1 DEF WalkRecord
  <2> QED
      BY <2>2 DEF WalkIsSound
<1> QED
    BY <1>1, <1>2

\* memory_update tells of a change of what is listed, by state and kind.
LEMMA UpdateKeepsWalk ==
    ASSUME WalkIsSound, CorpusTypeOK, NEW m \in DOMAIN memories, NEW scope, NEW p \in Patches,
           ToolUpdate(m, scope, p)
    PROVE  WalkIsSound'
<1> DEFINE change == [list |-> MembershipChanged(p),
                      updated |-> {[memory |-> m, scope |-> scope]}, all |-> FALSE]
<1>1. Announce(change) /\ change.list = MembershipChanged(p) /\ change.list \in BOOLEAN
    BY DEF ToolUpdate, MembershipChanged
<1>2. memories' = [memories EXCEPT ![m] = Patched(@, p)]
    BY DEF ToolUpdate, UpdateMemory
<1>3. ASSUME ~MembershipChanged(p)
      PROVE  \A k \in DOMAIN memories :
                 memories'[k].kind = memories[k].kind /\ memories'[k].state = memories[k].state
  <2>1. memories[m] \in MemoryRecord /\ p.state = None /\ p.kind = None
      BY <1>3 DEF CorpusTypeOK, MembershipChanged
  <2>2. Patched(memories[m], p).kind = memories[m].kind
        /\ Patched(memories[m], p).state = memories[m].state
      BY <2>1 DEF Patched, MemoryRecord
  <2> QED
      BY <1>2, <2>2
<1> HIDE DEF change
<1> QED
    BY <1>1, <1>2, <1>3, ListingHangsOnMembership, AnnounceKeepsWalk

\* run_lifecycle tells of a change once a memory was archived.
LEMMA LifecycleKeepsWalk ==
    ASSUME WalkIsSound, CorpusTypeOK, ToolRunLifecycle
    PROVE  WalkIsSound'
<1> DEFINE change == [list |-> \E m \in DOMAIN memories : memories[m].state # memories'[m].state,
                      updated |-> {}, all |-> memories' # memories]
<1>1. Announce(change) /\ change.list \in BOOLEAN
    BY DEF ToolRunLifecycle
<1>2. change.list = (\E m \in DOMAIN memories : memories[m].state # memories'[m].state)
    OBVIOUS
<1>3. /\ DOMAIN memories' = DOMAIN memories
      /\ \A m \in DOMAIN memories : memories'[m].kind = memories[m].kind
  <2>1. \A m \in DOMAIN memories : Decayed(memories[m]).kind = memories[m].kind
      BY DEF CorpusTypeOK, MemoryRecord, Decayed
  <2> QED
      BY <2>1 DEF ToolRunLifecycle, RunLifecycle
<1> HIDE DEF change
<1>4. ASSUME ~change.list
      PROVE  \A m \in DOMAIN memories : memories'[m].state = memories[m].state
    BY <1>2, <1>4
<1> QED
    BY <1>1, <1>3, <1>4, ListingHangsOnMembership, AnnounceKeepsWalk

\* Every message keeps it.
LEMMA SessionKeepsWalk ==
    ASSUME WalkIsSound, CorpusTypeOK, SessionNext
    PROVE  WalkIsSound'
<1>1. ASSUME walk' = None PROVE WalkIsSound'
    BY <1>1 DEF WalkIsSound
<1>2. ASSUME UNCHANGED <<walk, corpusVars>> PROVE WalkIsSound'
  <2>1. \A scope : Listable(scope)' = Listable(scope) /\ Readable(scope)' = Readable(scope)
      BY <1>2, ListingHangsOnMembership DEF corpusVars
  <2> QED
      BY <1>2, <2>1 DEF WalkIsSound
<1>3. ASSUME Announce(ListChange) \/ Unannounced PROVE WalkIsSound'
  <2>1. walk' = IF walk = None THEN None ELSE [walk EXCEPT !.quiet = FALSE]
      BY <1>3 DEF Announce, Unannounced, ListChange
  <2> QED
      BY <2>1, DisturbedKeepsWalk
<1>4. ASSUME NEW scope \in Scopes, ListResources(scope) PROVE WalkIsSound'
  <2> DEFINE w == [scope |-> scope, offset |-> 0, seen |-> <<>>, quiet |-> TRUE, ended |-> FALSE]
  <2>1. /\ w \in WalkRecord
        /\ w.seen = <<>> /\ w.scope = scope /\ w.offset = 0
      BY DEF WalkRecord
  <2>2. walk' = Page(w) /\ UNCHANGED corpusVars
      BY <1>4 DEF ListResources
  <2> HIDE DEF w
  <2>3. First(Listable(scope), 0) \cap Readable(scope) = {}
      BY ListableIsFinite, PlacesAreOfTheSet DEF First
  <2>4. InOrder({}) = <<>>
      BY FS_EmptySet DEF InOrder
  <2> QED
      BY <2>1, <2>2, <2>3, <2>4, PageKeepsWalk
<1>5. ASSUME ListMoreResources PROVE WalkIsSound'
    BY <1>5, PageKeepsWalk DEF ListMoreResources, WalkIsSound
<1> QED
    BY <1>1, <1>2, <1>3, <1>4, <1>5, UpdateKeepsWalk, LifecycleKeepsWalk
       DEF SessionNext, Initialize, Initialized, Restart, Confirm, Unconfirmed, ToolRemember,
           ToolRememberFails, ToolDelete, ToolDeleteNothing, ToolDeleteFails, ToolConsolidate,
           ToolRunLifecycleFails, Subscribe, Unsubscribe

\* A client that follows the cursors to the last page has been shown every listed
\* memory exactly once, in the order of the ids, unless it was told on the way that
\* the list changed or one of its calls failed or merged a consolidated line
\* (list_resources).
THEOREM UndisturbedListingIsComplete == SessionSpec => []PagesAreComplete
<1>1. SessionInit => WalkIsSound
    BY DEF SessionInit, WalkIsSound
<1>2. WalkIsSound /\ CorpusInv /\ [SessionStep]_sessionState => WalkIsSound'
  <2> SUFFICES ASSUME WalkIsSound, CorpusInv, [SessionStep]_sessionState PROVE WalkIsSound'
      OBVIOUS
  <2>1. CASE SessionNext
      BY <2>1, SessionKeepsWalk DEF CorpusInv
  <2>2. CASE UNCHANGED <<corpusVars, sessionVars>>
    <3>1. UNCHANGED walk
        BY <2>2 DEF sessionVars
    <3>2. \A scope : Listable(scope)' = Listable(scope) /\ Readable(scope)' = Readable(scope)
        BY <2>2, ListingHangsOnMembership DEF corpusVars
    <3> QED
        BY <3>1, <3>2 DEF WalkIsSound
  <2> QED
      BY <2>1, <2>2 DEF SessionStep, sessionState
<1>3. WalkIsSound /\ CorpusInv => PagesAreComplete
  <2> SUFFICES ASSUME WalkIsSound, CorpusInv, walk # None, walk.ended, walk.quiet
               PROVE  walk.seen = InOrder(Listed(walk.scope))
      BY DEF PagesAreComplete
  <2>1. /\ Listable(walk.scope) \in SUBSET Int /\ IsFiniteSet(Listable(walk.scope))
        /\ Cardinality(Listable(walk.scope)) \in Nat
      BY ListableIsFinite DEF CorpusInv
  <2>2. First(Listable(walk.scope), walk.offset) = Listable(walk.scope)
    <3>1. walk.offset \in Nat /\ Cardinality(Listable(walk.scope)) <= walk.offset
        BY DEF WalkIsSound, WalkRecord
    <3>2. \A m \in Listable(walk.scope) :
              Cardinality(Below(Listable(walk.scope), m)) < walk.offset
        BY <2>1, <3>1, PlacesAreOfTheSet
    <3> QED
        BY <3>2 DEF First
  <2> QED
      BY <2>2 DEF WalkIsSound, Listed
<1> QED
    BY <1>1, <1>2, <1>3, SessionKeepsCorpus, PTL DEF SessionSpec

-----------------------------------------------------------------------------
\* The hash chains of the agents' journals and of the audit.

\* The ids that one millisecond has room for.
Stretch == 2 * MaxRecords + 2 * MaxRemarks + 1

Records ==
    Cardinality(DOMAIN entries) + Cardinality(superseding) + Cardinality(DOMAIN audits)
        + Cardinality(remarks)

RecordsTyped ==
    /\ clock \in Nat /\ minted \in Nat
    /\ IsFiniteSet(DOMAIN entries) /\ IsFiniteSet(superseding)
    /\ IsFiniteSet(DOMAIN audits) /\ IsFiniteSet(remarks)
    /\ Ids \subseteq Nat \ {0}
    /\ Cardinality(DOMAIN entries) <= MaxRecords /\ Cardinality(DOMAIN audits) <= MaxRecords
    /\ Cardinality(superseding) <= MaxRemarks /\ Cardinality(remarks) <= MaxRemarks

\* A set of numbers has a least one.
LEMMA MinIsLeast ==
    ASSUME NEW S \in SUBSET Nat, S # {}
    PROVE  Min(S) \in S /\ \A n \in S : Min(S) <= n
<1>1. PICK n \in S : \A m \in S : ~(<<m, n>> \in OpToRel(<, Nat))
    BY NatLessThanWellFounded, WFMin
<1>2. \A m \in S : ~(m < n)
    BY <1>1 DEF OpToRel
<1>3. \A m \in S : n <= m
    BY <1>2
<1> QED
    BY <1>3, Zenon DEF Min

\* No more values than arguments.
LEMMA ImageIsNoLarger ==
    ASSUME NEW S, IsFiniteSet(S), NEW f, DOMAIN f = S, f = [x \in S |-> f[x]]
    PROVE  /\ IsFiniteSet({f[x] : x \in S})
           /\ Cardinality({f[x] : x \in S}) <= Cardinality(S)
<1>1. f \in Surjection(S, {f[x] : x \in S})
    BY DEF Surjection
<1> QED
    BY <1>1, FS_Surjection

\* Finitely many ids were given, fewer than a millisecond has room for.
LEMMA IdsAreFew ==
    ASSUME RecordsTyped
    PROVE  /\ Stretch \in Nat /\ Records \in Nat /\ Records < Stretch
           /\ IsFiniteSet(Ids) /\ Cardinality(Ids) \in Nat /\ Cardinality(Ids) <= Records
<1> DEFINE E == {k[2] : k \in DOMAIN entries}
           L == {l.id : l \in superseding}
           A == DOMAIN audits
           R == {r.id : r \in remarks}
<1>1. /\ Cardinality(DOMAIN entries) \in Nat /\ Cardinality(superseding) \in Nat
      /\ Cardinality(A) \in Nat /\ Cardinality(remarks) \in Nat
    BY FS_CardinalityType DEF RecordsTyped
<1>2. Stretch \in Nat /\ Records \in Nat /\ Records < Stretch
    BY <1>1, RecordsAssumption DEF RecordsTyped, Stretch, Records
<1>3. IsFiniteSet(E) /\ Cardinality(E) <= Cardinality(DOMAIN entries)
  <2> DEFINE f == [k \in DOMAIN entries |-> k[2]]
  <2>1. DOMAIN f = DOMAIN entries /\ f = [k \in DOMAIN entries |-> f[k]]
        /\ E = {f[k] : k \in DOMAIN entries}
      OBVIOUS
  <2> HIDE DEF f, E
  <2> QED
      BY <2>1, ImageIsNoLarger DEF RecordsTyped
<1>4. IsFiniteSet(L) /\ Cardinality(L) <= Cardinality(superseding)
  <2> DEFINE f == [l \in superseding |-> l.id]
  <2>1. DOMAIN f = superseding /\ f = [l \in superseding |-> f[l]]
        /\ L = {f[l] : l \in superseding}
      OBVIOUS
  <2> HIDE DEF f, L
  <2> QED
      BY <2>1, ImageIsNoLarger DEF RecordsTyped
<1>5. IsFiniteSet(R) /\ Cardinality(R) <= Cardinality(remarks)
  <2> DEFINE f == [r \in remarks |-> r.id]
  <2>1. DOMAIN f = remarks /\ f = [r \in remarks |-> f[r]]
        /\ R = {f[r] : r \in remarks}
      OBVIOUS
  <2> HIDE DEF f, R
  <2> QED
      BY <2>1, ImageIsNoLarger DEF RecordsTyped
<1>6. IsFiniteSet(A)
    BY DEF RecordsTyped
<1> HIDE DEF E, L, A, R
<1>7. ASSUME NEW S, NEW T, IsFiniteSet(S), IsFiniteSet(T)
      PROVE  /\ IsFiniteSet(S \cup T) /\ Cardinality(S \cup T) \in Nat
             /\ Cardinality(S \cup T) <= Cardinality(S) + Cardinality(T)
  <2>1. /\ IsFiniteSet(S \cup T) /\ IsFiniteSet(S \cap T)
        /\ Cardinality(S \cup T) = Cardinality(S) + Cardinality(T) - Cardinality(S \cap T)
      BY <1>7, FS_Union, FS_Intersection
  <2>2. /\ Cardinality(S) \in Nat /\ Cardinality(T) \in Nat /\ Cardinality(S \cap T) \in Nat
        /\ Cardinality(S \cup T) \in Nat
      BY <1>7, <2>1, FS_CardinalityType
  <2> QED
      BY <2>1, <2>2
<1>8. IsFiniteSet(E \cup L) /\ Cardinality(E \cup L) <= Cardinality(E) + Cardinality(L)
      /\ Cardinality(E \cup L) \in Nat
    BY <1>3, <1>4, <1>7
<1>9. IsFiniteSet((E \cup L) \cup A) /\ Cardinality((E \cup L) \cup A) <= Cardinality(E \cup L) + Cardinality(A)
      /\ Cardinality((E \cup L) \cup A) \in Nat
    BY <1>6, <1>7, <1>8
<1>10. /\ IsFiniteSet(((E \cup L) \cup A) \cup R)
       /\ Cardinality(((E \cup L) \cup A) \cup R) <= Cardinality((E \cup L) \cup A) + Cardinality(R)
       /\ Cardinality(((E \cup L) \cup A) \cup R) \in Nat
    BY <1>5, <1>7, <1>9
<1>11. Ids = ((E \cup L) \cup A) \cup R
    BY DEF Ids, E, L, A, R
<1>12. Cardinality(E) \in Nat /\ Cardinality(L) \in Nat /\ Cardinality(R) \in Nat
    BY <1>3, <1>4, <1>5, FS_CardinalityType
<1>13. Records = Cardinality(DOMAIN entries) + Cardinality(superseding) + Cardinality(A)
                     + Cardinality(remarks)
    BY DEF Records, A
<1>14. Cardinality(((E \cup L) \cup A) \cup R) <= Records
    BY <1>1, <1>3, <1>4, <1>5, <1>8, <1>9, <1>10, <1>12, <1>13
<1> QED
    BY <1>2, <1>10, <1>11, <1>14

Reached == IF minted > clock * Stretch THEN minted ELSE clock * Stretch

\* A new id is above what the process and the clock have reached, and no record
\* has it.
LEMMA NextIdIsNew ==
    ASSUME RecordsTyped
    PROVE  /\ NextId \in Nat \ {0} /\ NextId \notin Ids
           /\ Reached \in Nat /\ Reached < NextId
           /\ \A n \in Nat : Reached < n /\ n \notin Ids => NextId <= n
<1> DEFINE room == (Reached + 1) .. (Reached + Stretch)
           free == room \ Ids
<1>1. Reached \in Nat
  <2>1. clock * Stretch \in Nat
      BY IdsAreFew DEF RecordsTyped
  <2> QED
      BY <2>1 DEF Reached, RecordsTyped
<1>2. NextId = Min(free)
    BY DEF NextId, Reached, Stretch
<1> HIDE DEF Reached
<1>3. IsFiniteSet(room) /\ Cardinality(room) = Stretch
  <2>1. /\ Reached + 1 \in Int /\ Reached + Stretch \in Int
        /\ ~(Reached + 1 > Reached + Stretch)
        /\ (Reached + Stretch) - (Reached + 1) + 1 = Stretch
    <3>1. Stretch \in Nat /\ Stretch > 0
        BY IdsAreFew
    <3> QED
        BY <1>1, <3>1
  <2> DEFINE from == Reached + 1
             to == Reached + Stretch
  <2>2. /\ from \in Int /\ to \in Int /\ ~(from > to) /\ to - from + 1 = Stretch
      BY <2>1
  <2> HIDE DEF from, to
  <2>3. /\ IsFiniteSet(from .. to)
        /\ Cardinality(from .. to) = IF from > to THEN 0 ELSE to - from + 1
      BY <2>2, FS_Interval
  <2> QED
      BY <2>2, <2>3 DEF from, to
<1>4. free # {}
  <2>1. ASSUME room \subseteq Ids PROVE FALSE
    <3>1. Cardinality(room) <= Cardinality(Ids)
        BY <2>1, IdsAreFew, FS_Subset
    <3> HIDE DEF room
    <3> QED
        BY <1>3, <3>1, IdsAreFew
  <2> QED
      BY <2>1
<1>5. free \in SUBSET Nat
    BY <1>1, IdsAreFew
<1>6. Min(free) \in free /\ \A n \in free : Min(free) <= n
    BY <1>4, <1>5, MinIsLeast
<1>7. ASSUME NEW n \in Nat, Reached < n, n \notin Ids PROVE Min(free) <= n
  <2>1. CASE n \in room
      BY <1>6, <1>7, <2>1
  <2>2. CASE n \notin room
    <3>1. Min(free) \in room
        BY <1>6
    <3> HIDE DEF free
    <3> QED
        BY <1>1, <1>7, <2>2, <3>1, IdsAreFew
  <2> QED
      BY <2>1, <2>2
<1> QED
    BY <1>1, <1>2, <1>6, <1>7, IdsAreFew

\* A journal entry as journal_write() stores it, with its hash.
JournalEntry(e) ==
    e = [id |-> e.id, agent |-> e.agent, content |-> e.content, at |-> e.at,
         after |-> e.after, prev |-> e.prev, hash |-> e.hash]

\* A store gets one record and keeps the others.
LEMMA PutAdds ==
    ASSUME NEW f, NEW x, NEW y, x \notin DOMAIN f
    PROVE  /\ DOMAIN Put(f, x, y) = DOMAIN f \cup {x} /\ Put(f, x, y)[x] = y
           /\ \A z \in DOMAIN f : Put(f, x, y)[z] = f[z]
    BY DEF Put

\* A journal entry with its hash has every field that it had.
LEMMA Sealed ==
    ASSUME NEW id, NEW agent, NEW content, NEW at, NEW after, NEW prev, NEW hash, NEW e,
           e = Put([id |-> id, agent |-> agent, content |-> content, at |-> at,
                    after |-> after, prev |-> prev], "hash", hash)
    PROVE  /\ e.id = id /\ e.agent = agent /\ e.content = content /\ e.at = at
           /\ e.after = after /\ e.prev = prev /\ e.hash = hash
           /\ e = [id |-> id, agent |-> agent, content |-> content, at |-> at,
                    after |-> after, prev |-> prev, hash |-> hash]
    BY DEF Put

\* What a record's making does to the ids.
Minting ==
    /\ Ids' = Ids \cup {NextId} /\ Records' = Records + 1
    /\ minted' = NextId /\ clock' = clock

\* journal_write() makes one record with one new id.
LEMMA WriteKeepsTyped ==
    ASSUME RecordsTyped, NEW agent, NEW content, NEW after, JournalWrite(agent, content, after)
    PROVE  RecordsTyped' /\ Minting
<1> DEFINE key == <<agent, NextId>>
<1>0. /\ DOMAIN entries' = DOMAIN entries \cup {key} /\ UNCHANGED <<superseding, audits, remarks, clock>>
      /\ minted' = NextId /\ Cardinality(DOMAIN entries) < MaxRecords
    BY DEF JournalWrite, Put
<1>1. /\ NextId \in Nat \ {0} /\ NextId \notin Ids
    BY NextIdIsNew
<1>2. key \notin DOMAIN entries
    BY <1>1 DEF Ids
<1>3. Ids' = Ids \cup {NextId}
  <2>1. {k[2] : k \in DOMAIN entries'} = {k[2] : k \in DOMAIN entries} \cup {NextId}
    <3>1. key[2] = NextId
        OBVIOUS
    <3> HIDE DEF key
    <3> QED
        BY <1>0, <3>1
  <2> QED
      BY <1>0, <2>1 DEF Ids
<1>4. /\ IsFiniteSet(DOMAIN entries')
      /\ Cardinality(DOMAIN entries') = Cardinality(DOMAIN entries) + 1
    BY <1>0, <1>2, FS_AddElement DEF RecordsTyped
<1> HIDE DEF key
<1>5. /\ Cardinality(DOMAIN entries) \in Nat /\ Cardinality(superseding) \in Nat
      /\ Cardinality(DOMAIN audits) \in Nat /\ Cardinality(remarks) \in Nat
    BY FS_CardinalityType DEF RecordsTyped
<1>6. Records' = Records + 1
    BY <1>0, <1>4, <1>5 DEF Records
<1>7. RecordsTyped'
    BY <1>0, <1>1, <1>3, <1>4, <1>5, RecordsAssumption DEF RecordsTyped
<1> QED
    BY <1>0, <1>3, <1>6, <1>7 DEF Minting

\* append_audit() makes one record with one new id.
LEMMA AuditKeepsTyped ==
    ASSUME RecordsTyped, NEW operation, NEW subject, NEW decision,
           AppendAudit(operation, subject, decision)
    PROVE  RecordsTyped' /\ Minting
<1>0. /\ DOMAIN audits' = DOMAIN audits \cup {NextId} /\ UNCHANGED <<superseding, entries, remarks, clock>>
      /\ minted' = NextId /\ Cardinality(DOMAIN audits) < MaxRecords
    BY DEF AppendAudit, Put
<1>1. /\ NextId \in Nat \ {0} /\ NextId \notin Ids
    BY NextIdIsNew
<1>2. NextId \notin DOMAIN audits
    BY <1>1 DEF Ids
<1>3. Ids' = Ids \cup {NextId}
    BY <1>0 DEF Ids
<1>4. /\ IsFiniteSet(DOMAIN audits')
      /\ Cardinality(DOMAIN audits') = Cardinality(DOMAIN audits) + 1
    BY <1>0, <1>2, FS_AddElement DEF RecordsTyped
<1>5. /\ Cardinality(DOMAIN entries) \in Nat /\ Cardinality(superseding) \in Nat
      /\ Cardinality(DOMAIN audits) \in Nat /\ Cardinality(remarks) \in Nat
    BY FS_CardinalityType DEF RecordsTyped
<1>6. Records' = Records + 1
    BY <1>0, <1>4, <1>5 DEF Records
<1>7. RecordsTyped'
    BY <1>0, <1>1, <1>3, <1>4, <1>5, RecordsAssumption DEF RecordsTyped
<1> QED
    BY <1>0, <1>3, <1>6, <1>7 DEF Minting

\* journal_supersede() makes one link with one new id.
LEMMA SupersedeKeepsTyped ==
    ASSUME RecordsTyped, NEW agent, NEW original, NEW new, NEW relation,
           JournalSupersede(agent, original, new, relation)
    PROVE  RecordsTyped' /\ Minting
<1> DEFINE link == [id |-> NextId, agent |-> agent, original |-> original, new |-> new,
                    relation |-> relation]
<1>0. /\ superseding' = superseding \cup {link} /\ UNCHANGED <<entries, audits, remarks, clock>>
      /\ minted' = NextId /\ Cardinality(superseding) < MaxRemarks
    BY DEF JournalSupersede
<1>1. /\ NextId \in Nat \ {0} /\ NextId \notin Ids
    BY NextIdIsNew
<1>2. link \notin superseding
    BY <1>1 DEF Ids
<1>3. Ids' = Ids \cup {NextId}
  <2>1. {l.id : l \in superseding'} = {l.id : l \in superseding} \cup {NextId}
    <3>1. link.id = NextId
        OBVIOUS
    <3> HIDE DEF link
    <3> QED
        BY <1>0, <3>1
  <2> QED
      BY <1>0, <2>1 DEF Ids
<1> HIDE DEF link
<1>4. /\ IsFiniteSet(superseding')
      /\ Cardinality(superseding') = Cardinality(superseding) + 1
    BY <1>0, <1>2, FS_AddElement DEF RecordsTyped
<1>5. /\ Cardinality(DOMAIN entries) \in Nat /\ Cardinality(superseding) \in Nat
      /\ Cardinality(DOMAIN audits) \in Nat /\ Cardinality(remarks) \in Nat
    BY FS_CardinalityType DEF RecordsTyped
<1>6. Records' = Records + 1
    BY <1>0, <1>4, <1>5 DEF Records
<1>7. RecordsTyped'
    BY <1>0, <1>1, <1>3, <1>4, <1>5, RecordsAssumption DEF RecordsTyped
<1> QED
    BY <1>0, <1>3, <1>6, <1>7 DEF Minting

\* Feedback and its resolution are records with an id of their own.
LEMMA RemarkKeepsTyped ==
    ASSUME RecordsTyped, NEW kind, NEW what, Remark(kind, what)
    PROVE  RecordsTyped' /\ Minting
<1> DEFINE remark == [id |-> NextId, kind |-> kind, about |-> what]
<1>0. /\ remarks' = remarks \cup {remark} /\ UNCHANGED <<entries, audits, superseding, clock>>
      /\ minted' = NextId /\ Cardinality(remarks) < MaxRemarks
    BY DEF Remark
<1>1. /\ NextId \in Nat \ {0} /\ NextId \notin Ids
    BY NextIdIsNew
<1>2. remark \notin remarks
    BY <1>1 DEF Ids
<1>3. Ids' = Ids \cup {NextId}
  <2>1. {r.id : r \in remarks'} = {r.id : r \in remarks} \cup {NextId}
    <3>1. remark.id = NextId
        OBVIOUS
    <3> HIDE DEF remark
    <3> QED
        BY <1>0, <3>1
  <2> QED
      BY <1>0, <2>1 DEF Ids
<1> HIDE DEF remark
<1>4. /\ IsFiniteSet(remarks')
      /\ Cardinality(remarks') = Cardinality(remarks) + 1
    BY <1>0, <1>2, FS_AddElement DEF RecordsTyped
<1>5. /\ Cardinality(DOMAIN entries) \in Nat /\ Cardinality(superseding) \in Nat
      /\ Cardinality(DOMAIN audits) \in Nat /\ Cardinality(remarks) \in Nat
    BY FS_CardinalityType DEF RecordsTyped
<1>6. Records' = Records + 1
    BY <1>0, <1>4, <1>5 DEF Records
<1>7. RecordsTyped'
    BY <1>0, <1>1, <1>3, <1>4, <1>5, RecordsAssumption DEF RecordsTyped
<1> QED
    BY <1>0, <1>3, <1>6, <1>7 DEF Minting

\* Time and another process leave the records as they are.
Passing ==
    /\ UNCHANGED <<entries, superseding, audits, remarks>>
    /\ clock' \in Nat /\ (~ClockStepsBack => clock' = clock + 1)
    /\ minted' \in {0, minted}

\* A step makes one record with the next id, or lets time pass.
LEMMA RecordsStep ==
    ASSUME RecordsTyped, RecordsNext
    PROVE  RecordsTyped' /\ (Minting \/ Passing)
<1>1. ASSUME Passing PROVE RecordsTyped'
    BY <1>1 DEF Passing, RecordsTyped, Ids
<1>2. ASSUME TickRecords \/ RestartRecords PROVE Passing
    BY <1>2, RecordsAssumption DEF TickRecords, RestartRecords, Passing
<1>3. ASSUME NEW agent, NEW content, NEW after, JournalWrite(agent, content, after)
      PROVE  RecordsTyped' /\ Minting
    BY <1>3, WriteKeepsTyped
<1>4. ASSUME NEW operation, NEW subject, NEW decision, AppendAudit(operation, subject, decision)
      PROVE  RecordsTyped' /\ Minting
    BY <1>4, AuditKeepsTyped
<1>5. ASSUME NEW agent, NEW original, NEW new, NEW relation,
             JournalSupersede(agent, original, new, relation)
      PROVE  RecordsTyped' /\ Minting
    BY <1>5, SupersedeKeepsTyped
<1>6. ASSUME NEW kind, NEW what, Remark(kind, what) PROVE RecordsTyped' /\ Minting
    BY <1>6, RemarkKeepsTyped
<1> QED
    BY <1>1, <1>2, <1>3, <1>4, <1>5, <1>6
       DEF RecordsNext, EvaluateAction, RememberAudited, SubmitEthicsFeedback, ResolveEthicsFeedback

\* Where the clock is not set back, no record was made later than the next one
\* will be.
IdsGrow ==
    /\ \A id \in Ids : id <= Reached
    /\ Reached <= clock * Stretch + Records

\* While the clock is not set back, the next id is greater than all that were given,
\* by this process or by one before it.
LEMMA StepKeepsIdsGrowing ==
    ASSUME RecordsTyped, IdsGrow, ~ClockStepsBack, RecordsNext
    PROVE  IdsGrow'
<1>0. /\ Stretch \in Nat /\ Records \in Nat /\ Records < Stretch /\ Stretch' = Stretch
      /\ clock \in Nat /\ clock' \in Nat /\ clock * Stretch \in Nat /\ minted \in Nat
    BY IdsAreFew, RecordsStep DEF RecordsTyped, Stretch
<1>1. CASE Minting
  <2>1. NextId \in Nat /\ Reached < NextId /\ Reached \in Nat /\ NextId \notin Ids
      BY NextIdIsNew
  <2>2. NextId = Reached + 1
    <3>1. Reached + 1 \in Nat /\ Reached < Reached + 1 /\ Reached + 1 \notin Ids
        BY <2>1 DEF IdsGrow
    <3>2. NextId <= Reached + 1
        BY <3>1, NextIdIsNew
    <3> QED
        BY <2>1, <3>2
  <2>3. clock' * Stretch = clock * Stretch /\ clock * Stretch <= Reached
      BY <1>0, <1>1, <2>1 DEF Minting, Reached
  <2>4. Reached' = NextId
      BY <1>0, <1>1, <2>1, <2>3 DEF Minting, Reached
  <2>5. \A id \in Ids : id \in Nat
      BY DEF RecordsTyped
  <2> QED
      BY <1>0, <1>1, <2>1, <2>2, <2>3, <2>4, <2>5 DEF Minting, IdsGrow
<1>2. CASE Passing
  <2> DEFINE before == clock * Stretch
             after == clock' * Stretch
  <2>1. after = before + Stretch
      BY <1>0, <1>2 DEF Passing
  <2>2. Ids' = Ids /\ Records' = Records
      BY <1>2 DEF Passing, Ids, Records
  <2>3. Reached \in Nat /\ Reached <= before + Records /\ minted <= Reached
      BY <1>0, NextIdIsNew DEF IdsGrow, Reached
  <2>4. before \in Nat
      BY <1>0
  <2>5. Reached' = IF minted' > after THEN minted' ELSE after
      BY <1>0 DEF Reached
  <2> HIDE DEF before, after
  <2>6. Reached' = after
      BY <1>0, <1>2, <2>1, <2>3, <2>4, <2>5 DEF Passing
  <2>7. ASSUME NEW id \in Ids PROVE id <= after
    <3>1. id \in Nat /\ id <= Reached
        BY DEF RecordsTyped, IdsGrow
    <3> QED
        BY <1>0, <2>1, <2>3, <2>4, <3>1
  <2>8. after <= after + Records
      BY <1>0, <2>1, <2>4
  <2>9. IdsGrow' = ((\A id \in Ids' : id <= Reached') /\ Reached' <= after + Records')
      BY <1>0 DEF IdsGrow, after
  <2> QED
      BY <2>2, <2>6, <2>7, <2>8, <2>9
<1> QED
    BY <1>1, <1>2, RecordsStep

EntriesAreSound ==
    \A k \in DOMAIN entries :
        k = <<k[1], k[2]>> /\ JournalEntry(entries[k]) /\ entries[k].id = k[2]

RecordsInv == RecordsTyped /\ EntriesAreSound

\* A function on 1 .. n is a sequence of n elements.
LEMMA FunctionIsSequence ==
    ASSUME NEW n \in Nat, NEW s, s = [i \in 1 .. n |-> s[i]]
    PROVE  Len(s) = n /\ DOMAIN s = 1 .. n
    OBVIOUS

\* What a sequence holds with one element more.
LEMMA AppendedElements ==
    ASSUME NEW S, NEW s \in Seq(S), NEW e
    PROVE  /\ \A i \in 1 .. Len(s) : (s \o <<e>>)[i] = s[i]
           /\ (s \o <<e>>)[Len(s) + 1] = e
    OBVIOUS

\* Adding a record with the greatest key continues a scan.
LEMMA ScanContinues ==
    ASSUME NEW S \in SUBSET Int, IsFiniteSet(S), NEW n \in Int, \A k \in S : k < n
    PROVE  /\ Cardinality(S \cup {n}) = Cardinality(S) + 1 /\ Cardinality(S) \in Nat
           /\ \A i \in 1 .. Cardinality(S) : InOrder(S \cup {n})[i] = InOrder(S)[i]
           /\ InOrder(S \cup {n})[Cardinality(S) + 1] = n
<1>1. /\ Cardinality(S) \in Nat /\ n \notin S /\ IsFiniteSet(S \cup {n})
      /\ Cardinality(S \cup {n}) = Cardinality(S) + 1
    BY FS_CardinalityType, FS_AddElement
<1>2. IsFiniteSet({n}) /\ Cardinality({n}) = 1 /\ {n} \in SUBSET Int
    BY FS_Singleton
<1>3. InOrder(S) \o InOrder({n}) = InOrder(S \cup {n})
    BY <1>2, ScansConcatenate
<1>4. /\ InOrder(S) \in Seq(S) /\ Len(InOrder(S)) = Cardinality(S)
  <2>1. InOrder(S) = [i \in 1 .. Cardinality(S) |-> InOrder(S)[i]]
      BY DEF InOrder
  <2>2. \A i \in 1 .. Cardinality(S) : InOrder(S)[i] \in S
      BY KeyAtPlace
  <2> QED
      BY <1>1, <2>1, <2>2
<1>5. InOrder({n}) = <<n>>
  <2> DEFINE t == <<n>>
  <2>1. t = [i \in 1 .. Cardinality({n}) |-> t[i]]
      BY <1>2
  <2>2. \A i \in 1 .. Cardinality({n}) : t[i] \in {n} /\ Cardinality(Below({n}, t[i])) = i - 1
    <3>1. Below({n}, n) = {}
        BY DEF Below
    <3>2. Cardinality(Below({n}, n)) = 0
        BY <3>1, FS_EmptySet
    <3> QED
        BY <1>2, <3>2
  <2> HIDE DEF t
  <2>3. t = InOrder({n})
      BY <1>2, <2>1, <2>2, OrderIsUnique
  <2> QED
      BY <2>3 DEF t
<1>6. /\ \A i \in 1 .. Cardinality(S) : (InOrder(S) \o <<n>>)[i] = InOrder(S)[i]
      /\ (InOrder(S) \o <<n>>)[Cardinality(S) + 1] = n
  <2> DEFINE s == InOrder(S)
  <2>1. s \in Seq(S) /\ Len(s) = Cardinality(S)
      BY <1>4
  <2> HIDE DEF s
  <2>2. /\ \A i \in 1 .. Len(s) : (s \o <<n>>)[i] = s[i]
        /\ (s \o <<n>>)[Len(s) + 1] = n
      BY <2>1, AppendedElements
  <2> QED
      BY <2>1, <2>2 DEF s
<1>7. InOrder(S) \o <<n>> = InOrder(S \cup {n})
    BY <1>3, <1>5
<1> QED
    BY <1>1, <1>6, <1>7

\* The ids of an agent's entries are some of those that were given.
LEMMA JournalIdsAreIds ==
    ASSUME RecordsTyped, NEW agent
    PROVE  /\ JournalIds(agent) \in SUBSET Int /\ IsFiniteSet(JournalIds(agent))
           /\ JournalIds(agent) \subseteq Ids /\ Cardinality(JournalIds(agent)) \in Nat
           /\ \A id \in JournalIds(agent) : id \in Nat /\ id > 0
<1>1. JournalIds(agent) \subseteq Ids
    BY DEF JournalIds, Ids
<1>2. \A id \in Ids : id \in Nat /\ id > 0
  <2>1. Ids \subseteq Nat \ {0}
      BY DEF RecordsTyped
  <2> QED
      BY <2>1
<1>3. IsFiniteSet(JournalIds(agent))
    BY <1>1, IdsAreFew, FS_Subset
<1>4. JournalIds(agent) \in SUBSET Int
    BY <1>1, <1>2
<1> QED
    BY <1>1, <1>2, <1>3, <1>4, FS_CardinalityType

\* journal_write() continues the agent's chain, and no other's, if its id is the
\* greatest.
LEMMA WriteContinues ==
    ASSUME RecordsTyped, EntriesAreSound, \A id \in Ids : id < NextId,
           NEW agent, NEW content, NEW after, JournalWrite(agent, content, after)
    PROVE  /\ \A i \in 1 .. Len(Journal(agent)) : Journal(agent)'[i] = Journal(agent)[i]
           /\ DOMAIN Journal(agent) = 1 .. Len(Journal(agent)) /\ Len(Journal(agent)) \in Nat
           /\ DOMAIN Journal(agent)' = 1 .. Len(Journal(agent)) + 1
           /\ Len(Journal(agent))' = Len(Journal(agent)) + 1
           /\ Journal(agent)'[Len(Journal(agent)) + 1] = entries'[agent, NextId]
           /\ \A other : other # agent => Journal(other)' = Journal(other)
<1> DEFINE S == JournalIds(agent)
           n == NextId
<1>1. n \in Nat \ {0} /\ n \notin Ids
    BY NextIdIsNew
<1>2. /\ S \in SUBSET Int /\ IsFiniteSet(S) /\ S \subseteq Ids /\ Cardinality(S) \in Nat
    BY JournalIdsAreIds
<1>3. /\ DOMAIN entries' = DOMAIN entries \cup {<<agent, n>>}
      /\ \A k \in DOMAIN entries : k # <<agent, n>> => entries'[k] = entries[k]
    BY DEF JournalWrite, Put
<1>4. JournalIds(agent)' = S \cup {n}
  <2> DEFINE key == <<agent, n>>
  <2>1. key[1] = agent /\ key[2] = n
      OBVIOUS
  <2>2. DOMAIN entries' = DOMAIN entries \cup {key}
      BY <1>3
  <2> HIDE DEF key, n
  <2> QED
      BY <2>1, <2>2 DEF JournalIds
<1>5. \A k \in DOMAIN entries : k # <<agent, n>>
    BY <1>1 DEF Ids
<1>6. ASSUME NEW other, NEW id \in JournalIds(other)
      PROVE  entries'[other, id] = entries[other, id]
  <2>1. PICK k \in DOMAIN entries : k[1] = other /\ k[2] = id
      BY DEF JournalIds
  <2>2. k = <<other, id>>
      BY <2>1 DEF EntriesAreSound
  <2> QED
      BY <1>3, <1>5, <2>2
<1> HIDE DEF S, n
<1>7. /\ Cardinality(S \cup {n}) = Cardinality(S) + 1
      /\ \A i \in 1 .. Cardinality(S) : InOrder(S \cup {n})[i] = InOrder(S)[i]
      /\ InOrder(S \cup {n})[Cardinality(S) + 1] = n
  <2>1. n \in Int /\ (\A k \in S : k < n)
      BY <1>1, <1>2 DEF n
  <2> QED
      BY <1>2, <2>1, ScanContinues
<1>8. \A i \in 1 .. Cardinality(S) : InOrder(S)[i] \in S
    BY <1>2, KeyAtPlace
<1>9. /\ Journal(agent) = [i \in 1 .. Cardinality(S) |-> entries[agent, InOrder(S)[i]]]
      /\ Len(Journal(agent)) = Cardinality(S)
  <2>1. DOMAIN InOrder(S) = 1 .. Cardinality(S)
      BY DEF InOrder
  <2>2. Journal(agent) = [i \in 1 .. Cardinality(S) |-> entries[agent, InOrder(S)[i]]]
      BY <2>1 DEF Journal, Scan, S
  <2>3. Journal(agent) = [i \in 1 .. Cardinality(S) |-> Journal(agent)[i]]
      BY <2>2
  <2> QED
      BY <1>2, <2>2, <2>3, FunctionIsSequence
<1>10. /\ Journal(agent)' = [i \in 1 .. Cardinality(S) + 1 |-> entries'[agent, InOrder(S \cup {n})[i]]]
  <2>1. Journal(agent)' = LET sorted == InOrder(S \cup {n}) IN
                              [i \in DOMAIN sorted |-> entries'[agent, sorted[i]]]
      BY <1>4 DEF Journal, Scan
  <2>2. DOMAIN InOrder(S \cup {n}) = 1 .. Cardinality(S) + 1
      BY <1>7 DEF InOrder
  <2> QED
      BY <2>1, <2>2
<1>11. \A i \in 1 .. Cardinality(S) : entries'[agent, InOrder(S)[i]] = entries[agent, InOrder(S)[i]]
    BY <1>6, <1>8 DEF S
<1>12. ASSUME NEW other, other # agent PROVE Journal(other)' = Journal(other)
  <2>1. JournalIds(other)' = JournalIds(other)
      BY <1>3, <1>12 DEF JournalIds
  <2>2. \A i \in 1 .. Cardinality(JournalIds(other)) : InOrder(JournalIds(other))[i] \in JournalIds(other)
      BY JournalIdsAreIds, KeyAtPlace
  <2>3. DOMAIN InOrder(JournalIds(other)) = 1 .. Cardinality(JournalIds(other))
      BY DEF InOrder
  <2> QED
      BY <1>6, <2>1, <2>2, <2>3 DEF Journal, Scan
<1> DEFINE m == Cardinality(S)
           then == [i \in 1 .. m + 1 |-> entries'[agent, InOrder(S \cup {n})[i]]]
           before == [i \in 1 .. m |-> entries[agent, InOrder(S)[i]]]
<1>13. /\ m \in Nat /\ Len(before) = m /\ DOMAIN before = 1 .. m
       /\ Len(then) = m + 1 /\ DOMAIN then = 1 .. m + 1
       /\ then[m + 1] = entries'[agent, n]
  <2> HIDE DEF S, n
  <2>1. m \in Nat /\ m + 1 \in 1 .. m + 1 /\ InOrder(S \cup {n})[m + 1] = n
      BY <1>2, <1>7
  <2>2. before = [i \in 1 .. m |-> before[i]] /\ then = [i \in 1 .. m + 1 |-> then[i]]
      OBVIOUS
  <2>3. then[m + 1] = entries'[agent, n]
      BY <2>1
  <2>4. m + 1 \in Nat
      BY <2>1
  <2> HIDE DEF m, before, then
  <2> QED
      BY <2>1, <2>2, <2>3, <2>4, FunctionIsSequence
<1>14. \A i \in 1 .. m : then[i] = before[i]
  <2>1. ASSUME NEW i \in 1 .. m PROVE then[i] = before[i]
    <3>1. i \in 1 .. m + 1 /\ InOrder(S \cup {n})[i] = InOrder(S)[i]
        BY <1>2, <1>7
    <3>2. then[i] = entries'[agent, InOrder(S \cup {n})[i]] /\ before[i] = entries[agent, InOrder(S)[i]]
        BY <3>1
    <3> QED
        BY <1>11, <3>1, <3>2
  <2> QED
      BY <2>1
<1>15. Journal(agent) = before /\ Journal(agent)' = then
    BY <1>9, <1>10
<1> HIDE DEF m, then, before
<1> QED
    BY <1>12, <1>13, <1>14, <1>15 DEF n

\* append_audit() continues the chain if its id is the greatest.
LEMMA AuditContinues ==
    ASSUME RecordsTyped, \A id \in Ids : id < NextId,
           NEW operation, NEW subject, NEW decision, AppendAudit(operation, subject, decision)
    PROVE  /\ \A i \in 1 .. Len(Audit) : Audit'[i] = Audit[i]
           /\ DOMAIN Audit = 1 .. Len(Audit) /\ Len(Audit) \in Nat
           /\ DOMAIN Audit' = 1 .. Len(Audit) + 1
           /\ Audit'[Len(Audit) + 1] = audits'[NextId]
<1> DEFINE S == DOMAIN audits
           n == NextId
<1>1. n \in Nat \ {0} /\ n \notin Ids
    BY NextIdIsNew
<1>2. S \subseteq Ids /\ IsFiniteSet(S) /\ (\A k \in S : k \in Int /\ k < n) /\ n \notin S
    BY <1>1 DEF RecordsTyped, Ids
<1>3. S \in SUBSET Int /\ Cardinality(S) \in Nat
    BY <1>2, FS_CardinalityType
<1>4. DOMAIN audits' = S \cup {n} /\ \A k \in S : audits'[k] = audits[k]
    BY <1>2 DEF AppendAudit, Put
<1> HIDE DEF S, n
<1>5. /\ Cardinality(S \cup {n}) = Cardinality(S) + 1
      /\ \A i \in 1 .. Cardinality(S) : InOrder(S \cup {n})[i] = InOrder(S)[i]
      /\ InOrder(S \cup {n})[Cardinality(S) + 1] = n
  <2>1. n \in Int
      BY <1>1
  <2> QED
      BY <1>2, <1>3, <2>1, ScanContinues
<1>6. \A i \in 1 .. Cardinality(S) : InOrder(S)[i] \in S
    BY <1>2, <1>3, KeyAtPlace
<1> DEFINE m == Cardinality(S)
           then == [i \in 1 .. m + 1 |-> audits'[InOrder(S \cup {n})[i]]]
           before == [i \in 1 .. m |-> audits[InOrder(S)[i]]]
<1>7. Audit = before
  <2>1. DOMAIN InOrder(S) = 1 .. m
      BY DEF InOrder
  <2> QED
      BY <2>1 DEF Audit, S
<1>8. Audit' = then
  <2>1. DOMAIN InOrder(S \cup {n}) = 1 .. m + 1
      BY <1>5 DEF InOrder
  <2> QED
      BY <1>4, <2>1 DEF Audit
<1>9. /\ m \in Nat /\ Len(before) = m /\ DOMAIN before = 1 .. m /\ DOMAIN then = 1 .. m + 1
      /\ then[m + 1] = audits'[n]
  <2>1. m \in Nat /\ m + 1 \in 1 .. m + 1 /\ InOrder(S \cup {n})[m + 1] = n
      BY <1>3, <1>5
  <2>2. before = [i \in 1 .. m |-> before[i]] /\ DOMAIN then = 1 .. m + 1
      OBVIOUS
  <2>3. then[m + 1] = audits'[n]
      BY <2>1
  <2> HIDE DEF m, before, then
  <2> QED
      BY <2>1, <2>2, <2>3, FunctionIsSequence
<1>10. ASSUME NEW i \in 1 .. m PROVE then[i] = before[i]
  <2>1. i \in 1 .. m + 1 /\ InOrder(S \cup {n})[i] = InOrder(S)[i] /\ InOrder(S)[i] \in S
      BY <1>3, <1>5, <1>6
  <2>2. then[i] = audits'[InOrder(S \cup {n})[i]] /\ before[i] = audits[InOrder(S)[i]]
      BY <2>1
  <2> QED
      BY <1>4, <2>1, <2>2
<1> HIDE DEF m, then, before
<1> QED
    BY <1>7, <1>8, <1>9, <1>10 DEF n

\* An entry that follows the last one, with the hash of what it says, leaves no
\* break in a chain that had none.
LEMMA LongerChainIsHonest ==
    ASSUME NEW c, NEW d, NEW m \in Nat, DOMAIN c = 1 .. m, DOMAIN d = 1 .. m + 1,
           \A i \in 1 .. m : d[i] = c[i], Broken(c) = {},
           d[m + 1].prev = HashBefore(c, m + 1),
           d[m + 1].hash = JournalHash(d[m + 1], HashBefore(c, m + 1))
    PROVE  Broken(d) = {}
<1>1. \A i \in 1 .. m + 1 : HashBefore(d, i) = HashBefore(c, i)
    BY DEF HashBefore
<1>2. ASSUME NEW i \in 1 .. m
      PROVE  d[i].prev = HashBefore(d, i) /\ d[i].hash = JournalHash(d[i], HashBefore(d, i))
    BY <1>1 DEF Broken
<1> QED
    BY <1>1, <1>2 DEF Broken

\* The same for the audit, whose verification hashes an entry as it stands.
LEMMA LongerAuditIsHonest ==
    ASSUME NEW c, NEW d, NEW m \in Nat, DOMAIN c = 1 .. m, DOMAIN d = 1 .. m + 1,
           \A i \in 1 .. m : d[i] = c[i], BrokenAudit(c) = {},
           d[m + 1].prev = HashBefore(c, m + 1), d[m + 1].hash = AuditHash(d[m + 1])
    PROVE  BrokenAudit(d) = {}
<1>1. \A i \in 1 .. m + 1 : HashBefore(d, i) = HashBefore(c, i)
    BY DEF HashBefore
<1>2. ASSUME NEW i \in 1 .. m
      PROVE  d[i].prev = HashBefore(d, i) /\ d[i].hash = AuditHash(d[i])
    BY <1>1 DEF BrokenAudit
<1> QED
    BY <1>1, <1>2 DEF BrokenAudit

\* journal_write() stores what it hashed.
LEMMA WriteSeals ==
    ASSUME NEW agent, NEW content, NEW after, JournalWrite(agent, content, after)
    PROVE  LET e == entries'[agent, NextId] IN
           /\ e.id = NextId /\ e.agent = agent /\ JournalEntry(e)
           /\ e.prev = LastHash(agent) /\ e.hash = JournalHash(e, LastHash(agent))
<1> DEFINE entry == [id |-> NextId, agent |-> agent, content |-> content, at |-> clock,
                     after |-> after, prev |-> LastHash(agent)]
           e == entries'[agent, NextId]
           hash == JournalHash(entry, entry.prev)
<1>1. e = Put(entry, "hash", hash)
    BY DEF JournalWrite, Put
<1>2. hash = <<NextId, agent, content, clock, LastHash(agent)>>
    BY DEF JournalHash
<1> HIDE DEF e, hash
<1>3. /\ e.id = NextId /\ e.agent = agent /\ e.content = content /\ e.at = clock
      /\ e.after = after /\ e.prev = LastHash(agent) /\ e.hash = hash
      /\ e = [id |-> NextId, agent |-> agent, content |-> content, at |-> clock,
              after |-> after, prev |-> LastHash(agent), hash |-> hash]
    BY <1>1, Sealed
<1>4. JournalEntry(e)
    BY <1>3 DEF JournalEntry
<1>5. e.hash = JournalHash(e, LastHash(agent))
    BY <1>2, <1>3 DEF JournalHash
<1> QED
    BY <1>3, <1>4, <1>5 DEF e

\* append_audit() seals what it stores over the hash of the last entry.
LEMMA AppendSeals ==
    ASSUME NEW operation, NEW subject, NEW decision, AppendAudit(operation, subject, decision)
    PROVE  LET e == audits'[NextId] IN e.prev = LastAudit /\ e.hash = AuditHash(e)
<1> DEFINE entry == [id |-> NextId, operation |-> operation, subject |-> subject,
                     decision |-> decision, at |-> clock, prev |-> LastAudit]
           e == audits'[NextId]
           hash == AuditHash(entry)
<1>1. e = Put(entry, "hash", hash)
    BY DEF AppendAudit, Put
<1>2. hash = <<NextId, operation, subject, decision, clock, LastAudit>>
    BY DEF AuditHash
<1> HIDE DEF e, hash
<1>3. /\ e.id = NextId /\ e.operation = operation /\ e.subject = subject
      /\ e.decision = decision /\ e.at = clock /\ e.prev = LastAudit /\ e.hash = hash
    BY <1>1 DEF Put
<1>4. e.hash = AuditHash(e)
    BY <1>2, <1>3 DEF AuditHash
<1> QED
    BY <1>3, <1>4 DEF e

RecordsSpec == RecordsInit /\ [][RecordsNext]_recordVars

\* Entries are stored under their agent and id, and never rewritten.
LEMMA StepKeepsEntries ==
    ASSUME RecordsTyped, EntriesAreSound, RecordsNext
    PROVE  EntriesAreSound'
<1>1. ASSUME UNCHANGED entries PROVE EntriesAreSound'
    BY <1>1 DEF EntriesAreSound
<1>2. ASSUME NEW agent, NEW content, NEW after, JournalWrite(agent, content, after)
      PROVE  EntriesAreSound'
  <2> DEFINE key == <<agent, NextId>>
  <2>1. /\ DOMAIN entries' = DOMAIN entries \cup {key}
        /\ \A k \in DOMAIN entries : k # key => entries'[k] = entries[k]
      BY <1>2 DEF JournalWrite, Put
  <2>2. JournalEntry(entries'[key]) /\ entries'[key].id = NextId
      BY <1>2, WriteSeals
  <2>3. key = <<key[1], key[2]>> /\ key[2] = NextId
      OBVIOUS
  <2> HIDE DEF key
  <2> QED
      BY <2>1, <2>2, <2>3 DEF EntriesAreSound
<1> QED
    BY <1>1, <1>2
       DEF RecordsNext, JournalSupersede, EvaluateAction, RememberAudited, AppendAudit, Remark,
           SubmitEthicsFeedback, ResolveEthicsFeedback, TickRecords, RestartRecords

\* Records have numbers for ids, and a journal's entries are kept by their ids.
THEOREM RecordsInvariant == RecordsSpec => []RecordsInv
<1>1. RecordsInit => RecordsInv
  <2> SUFFICES ASSUME RecordsInit PROVE RecordsInv
      OBVIOUS
  <2>1. /\ DOMAIN entries = {} /\ superseding = {} /\ DOMAIN audits = {} /\ remarks = {}
        /\ minted = 0 /\ clock = 0
      BY DEF RecordsInit
  <2>2. Ids = {}
      BY <2>1 DEF Ids
  <2>3. IsFiniteSet({}) /\ Cardinality({}) = 0
      BY FS_EmptySet
  <2> QED
      BY <2>1, <2>2, <2>3, RecordsAssumption DEF RecordsInv, RecordsTyped, EntriesAreSound
<1>2. RecordsInv /\ [RecordsNext]_recordVars => RecordsInv'
  <2> SUFFICES ASSUME RecordsInv, [RecordsNext]_recordVars PROVE RecordsInv'
      OBVIOUS
  <2>1. CASE RecordsNext
      BY <2>1, RecordsStep, StepKeepsEntries DEF RecordsInv
  <2>2. CASE UNCHANGED recordVars
      BY <2>2 DEF RecordsInv, recordVars, RecordsTyped, Ids, EntriesAreSound
  <2> QED
      BY <2>1, <2>2
<1> QED
    BY <1>1, <1>2, PTL DEF RecordsSpec

\* What journal_recall() finds of an agent's entries.
LEMMA RecallableEntries ==
    ASSUME RecordsInv, NEW agent, NEW k \in DOMAIN entries, k[1] = agent
    PROVE  entries[k] \in Range(Recallable(agent)) <=> k[2] \notin Superseded(agent)
<1> DEFINE ids == JournalIds(agent) \ Superseded(agent)
           scan == Scan(agent, ids)
<1>1. /\ ids \in SUBSET Int /\ IsFiniteSet(ids) /\ Cardinality(ids) \in Nat
      /\ ids \subseteq JournalIds(agent)
  <2>1. ids \in SUBSET Int /\ IsFiniteSet(ids)
      BY JournalIdsAreIds, FS_Subset DEF RecordsInv
  <2> QED
      BY <2>1, FS_CardinalityType
<1>2. k = <<agent, k[2]>> /\ k[2] \in JournalIds(agent)
    BY DEF RecordsInv, EntriesAreSound, JournalIds
<1>3. ASSUME NEW id \in JournalIds(agent) PROVE entries[agent, id].id = id
  <2>1. PICK l \in DOMAIN entries : l[1] = agent /\ l[2] = id
      BY DEF JournalIds
  <2>2. l = <<agent, id>> /\ entries[l].id = l[2]
      BY <2>1 DEF RecordsInv, EntriesAreSound
  <2> QED
      BY <2>1, <2>2
<1> HIDE DEF ids
<1> DEFINE n == Cardinality(ids)
<1>4. /\ Len(scan) = n /\ DOMAIN scan = 1 .. n
      /\ \A i \in 1 .. n : scan[i] = entries[agent, InOrder(ids)[i]]
  <2>1. DOMAIN InOrder(ids) = 1 .. n
      BY DEF InOrder
  <2>2. scan = [i \in 1 .. n |-> entries[agent, InOrder(ids)[i]]]
      BY <2>1 DEF Scan
  <2>3. scan = [i \in 1 .. n |-> scan[i]]
      BY <2>2
  <2> HIDE DEF scan
  <2> QED
      BY <1>1, <2>2, <2>3, FunctionIsSequence
<1>5. Recallable(agent) = [i \in 1 .. Len(scan) |-> scan[Len(scan) - i + 1]]
    BY DEF Recallable, Reverse, ids
<1> HIDE DEF n, scan
<1>6. Range(Recallable(agent)) = {entries[agent, InOrder(ids)[i]] : i \in 1 .. n}
  <2>1. n \in Nat
      BY <1>1 DEF n
  <2>2. DOMAIN Recallable(agent) = 1 .. n
      BY <1>4, <1>5
  <2>3. ASSUME NEW i \in 1 .. n
        PROVE  n - i + 1 \in 1 .. n /\ Recallable(agent)[i] = scan[n - i + 1]
    <3>1. n - i + 1 \in 1 .. n
        BY <2>1
    <3>2. Recallable(agent)[i] = scan[Len(scan) - i + 1]
        BY <1>4, <1>5
    <3> QED
        BY <1>4, <3>1, <3>2
  <2>4. \A i \in 1 .. n : n - i + 1 \in 1 .. n /\ n - (n - i + 1) + 1 = i
      BY <2>1
  <2>5. \A i \in 1 .. n : Recallable(agent)[n - i + 1] = scan[i]
    <3>1. ASSUME NEW i \in 1 .. n PROVE Recallable(agent)[n - i + 1] = scan[i]
      <4>1. Recallable(agent)[n - i + 1] = scan[n - (n - i + 1) + 1]
          BY <2>3, <2>4
      <4> QED
          BY <2>4, <4>1
    <3> QED
        BY <3>1
  <2>6. Range(Recallable(agent)) = {Recallable(agent)[i] : i \in 1 .. n}
      BY <2>2 DEF Range
  <2> DEFINE found(i) == entries[agent, InOrder(ids)[i]]
             shown(i) == Recallable(agent)[i]
             last(i) == n - i + 1
  <2>7. \A i \in 1 .. n : last(i) \in 1 .. n /\ shown(i) = found(last(i))
      BY <1>4, <2>3
  <2>8. \A i \in 1 .. n : found(i) = shown(last(i))
      BY <1>4, <2>4, <2>5
  <2> HIDE DEF found, shown, last
  <2>9. {shown(i) : i \in 1 .. n} = {found(i) : i \in 1 .. n}
      BY <2>7, <2>8
  <2> QED
      BY <2>6, <2>9 DEF found, shown
<1>7. ASSUME k[2] \notin Superseded(agent) PROVE entries[k] \in Range(Recallable(agent))
  <2>1. k[2] \in ids
      BY <1>2, <1>7 DEF ids
  <2>2. PICK i \in 1 .. n : InOrder(ids)[i] = k[2]
      BY <1>1, <2>1, EveryKeyIsScanned DEF n
  <2>3. entries[agent, InOrder(ids)[i]] = entries[k]
      BY <1>2, <2>2
  <2> QED
      BY <1>6, <2>3
<1>8. ASSUME entries[k] \in Range(Recallable(agent)) PROVE k[2] \notin Superseded(agent)
  <2>1. PICK i \in 1 .. n : entries[k] = entries[agent, InOrder(ids)[i]]
      BY <1>6, <1>8
  <2>2. InOrder(ids)[i] \in ids
      BY <1>1, KeyAtPlace DEF n
  <2>3. entries[agent, InOrder(ids)[i]].id = InOrder(ids)[i]
      BY <1>1, <1>3, <2>2
  <2>4. entries[agent, k[2]].id = k[2]
      BY <1>2, <1>3
  <2>5. entries[k].id = k[2]
      BY <1>2, <2>4
  <2>6. k[2] \in ids
      BY <2>1, <2>2, <2>3, <2>5
  <2> QED
      BY <2>6 DEF ids
<1> QED
    BY <1>7, <1>8

RecallHangsOnLinks ==
    \A agent : \A k \in DOMAIN entries : k[1] = agent =>
        (entries[k] \in Range(Recallable(agent)) <=> k[2] \notin Superseded(agent))

\* In every reachable state, recall is decided by the links alone.
LEMMA RecallFollowsLinks == RecordsInv => RecallHangsOnLinks
    BY RecallableEntries DEF RecallHangsOnLinks

\* An entry that was superseded or recanted never comes back, whatever is said of
\* it later (journal_recall): links are only ever added.  In what order they were made
\* is not asked; of two entries that supersede each other both stay hidden.
THEOREM SupersededNeverReturns == RecordsSpec => SupersededStaysHidden
<1> DEFINE Hides == \A agent \in Agents : \A k \in DOMAIN entries :
                        k[1] = agent /\ entries[k] \notin Range(Recallable(agent)) =>
                            entries[k] \notin Range(Recallable(agent)')
<1>1. RecordsInv /\ RecordsInv' /\ [RecordsNext]_recordVars => [Hides]_recordVars
  <2> SUFFICES ASSUME RecordsInv, RecordsInv', RecordsNext,
                      NEW agent \in Agents, NEW k \in DOMAIN entries, k[1] = agent,
                      entries[k] \notin Range(Recallable(agent))
               PROVE  entries[k] \notin Range(Recallable(agent)')
      OBVIOUS
  <2>1. k \in DOMAIN entries' /\ entries'[k] = entries[k]
    <3>1. ASSUME UNCHANGED entries PROVE k \in DOMAIN entries' /\ entries'[k] = entries[k]
        BY <3>1
    <3>2. ASSUME NEW a, NEW content, NEW after, JournalWrite(a, content, after)
          PROVE  k \in DOMAIN entries' /\ entries'[k] = entries[k]
      <4>1. NextId \notin Ids /\ k[2] \in Ids
          BY NextIdIsNew DEF RecordsInv, Ids
      <4>2. <<a, NextId>>[2] = NextId
          OBVIOUS
      <4>3. k # <<a, NextId>>
          BY <4>1, <4>2
      <4> QED
          BY <3>2, <4>3 DEF JournalWrite, Put
    <3> QED
        BY <3>1, <3>2
           DEF RecordsNext, JournalSupersede, EvaluateAction, RememberAudited, AppendAudit, Remark,
               SubmitEthicsFeedback, ResolveEthicsFeedback, TickRecords, RestartRecords
  <2>2. superseding \subseteq superseding'
      BY DEF RecordsNext, JournalWrite, JournalSupersede, EvaluateAction, RememberAudited,
             AppendAudit, Remark, SubmitEthicsFeedback, ResolveEthicsFeedback, TickRecords,
             RestartRecords
  <2>3. Superseded(agent) \subseteq Superseded(agent)'
      BY <2>2 DEF Superseded
  <2>4. k[2] \in Superseded(agent)'
      BY <2>3, RecallableEntries
  <2>5. RecordsInv' => RecallHangsOnLinks'
      BY RecallFollowsLinks, PTL
  <2> QED
      BY <2>1, <2>4, <2>5 DEF RecallHangsOnLinks
<1> QED
    BY <1>1, RecordsInvariant, PTL DEF RecordsSpec, SupersededStaysHidden

\* A chain whose verification finds nothing, of entries with different ids.
Sound(chain) ==
    /\ chain \in Seq(Range(chain)) /\ Broken(chain) = {}
    /\ \A i \in 1 .. Len(chain) :
           JournalEntry(chain[i]) /\ chain[i].id \in Nat /\ chain[i].id > 0
    /\ \A i, j \in 1 .. Len(chain) : i # j => chain[i].id # chain[j].id

\* What an entry that verifies says of its predecessor.
LEMMA EntryVerifies ==
    ASSUME NEW chain, Broken(chain) = {}, NEW i \in DOMAIN chain
    PROVE  /\ chain[i].prev = HashBefore(chain, i)
           /\ chain[i].hash = <<chain[i].id, chain[i].agent, chain[i].content, chain[i].at,
                                HashBefore(chain, i)>>
    BY DEF Broken, JournalHash

\* The elements of a sequence without one of them, and with one more.
LEMMA RemovedFrom ==
    ASSUME NEW T, NEW s \in Seq(T), NEW i \in 1 .. Len(s)
    PROVE  /\ RemoveAt(s, i) \in Seq(T) /\ Len(RemoveAt(s, i)) = Len(s) - 1
           /\ \A k \in 1 .. Len(s) - 1 :
                  RemoveAt(s, i)[k] = IF k < i THEN s[k] ELSE s[k + 1]
<1> DEFINE a == SubSeq(s, 1, i - 1)
           b == SubSeq(s, i + 1, Len(s))
<1>1. a \in Seq(T) /\ Len(a) = i - 1 /\ \A k \in 1 .. i - 1 : a[k] = s[k]
    OBVIOUS
<1>2. b \in Seq(T) /\ Len(b) = Len(s) - i /\ \A k \in 1 .. Len(s) - i : b[k] = s[i + k]
    OBVIOUS
<1>3. RemoveAt(s, i) = a \o b
    BY DEF RemoveAt
<1> HIDE DEF a, b
<1>4. a \o b \in Seq(T) /\ Len(a \o b) = Len(s) - 1
    BY <1>1, <1>2
<1>5. ASSUME NEW k \in 1 .. Len(s) - 1 PROVE (a \o b)[k] = IF k < i THEN s[k] ELSE s[k + 1]
  <2>1. CASE k < i
      BY <1>1, <1>2, <2>1
  <2>2. CASE ~(k < i)
    <3>1. (a \o b)[k] = b[k - (i - 1)]
        BY <1>1, <1>2, <2>2
    <3>2. k - (i - 1) \in 1 .. Len(s) - i /\ i + (k - (i - 1)) = k + 1
        BY <2>2
    <3> QED
        BY <1>2, <2>2, <3>1, <3>2
  <2> QED
      BY <2>1, <2>2
<1> QED
    BY <1>3, <1>4, <1>5

\* What a sequence holds after an element was inserted.
LEMMA InsertedInto ==
    ASSUME NEW T, NEW s \in Seq(T), NEW i \in 1 .. Len(s) + 1, NEW e \in T
    PROVE  /\ InsertAt(s, i, e) \in Seq(T) /\ Len(InsertAt(s, i, e)) = Len(s) + 1
           /\ InsertAt(s, i, e)[i] = e
           /\ \A k \in 1 .. Len(s) + 1 : k < i => InsertAt(s, i, e)[k] = s[k]
           /\ \A k \in 1 .. Len(s) + 1 : i < k => InsertAt(s, i, e)[k] = s[k - 1]
<1> DEFINE a == SubSeq(s, 1, i - 1) \o <<e>>
           b == SubSeq(s, i, Len(s))
<1>1. a \in Seq(T) /\ Len(a) = i /\ a[i] = e /\ \A k \in 1 .. i - 1 : a[k] = s[k]
  <2> DEFINE c == SubSeq(s, 1, i - 1)
  <2>1. c \in Seq(T) /\ Len(c) = i - 1 /\ \A k \in 1 .. i - 1 : c[k] = s[k]
      OBVIOUS
  <2> HIDE DEF c
  <2>2. /\ c \o <<e>> \in Seq(T) /\ Len(c \o <<e>>) = i /\ (c \o <<e>>)[i] = e
        /\ \A k \in 1 .. i - 1 : (c \o <<e>>)[k] = c[k]
      BY <2>1
  <2> QED
      BY <2>1, <2>2 DEF c
<1>2. /\ b \in Seq(T) /\ Len(b) = Len(s) - i + 1
      /\ \A k \in 1 .. Len(s) - i + 1 : b[k] = s[i + k - 1]
    OBVIOUS
<1>3. InsertAt(s, i, e) = a \o b
    BY DEF InsertAt
<1> HIDE DEF a, b
<1>4. a \o b \in Seq(T) /\ Len(a \o b) = Len(s) + 1
  <2>1. a \o b \in Seq(T) /\ Len(a \o b) = Len(a) + Len(b)
    <3>1. a \in Seq(T) /\ b \in Seq(T)
        BY <1>1, <1>2
    <3> QED
        BY <3>1
  <2>2. i \in Int /\ Len(s) \in Nat
      OBVIOUS
  <2> QED
      BY <1>1, <1>2, <2>1, <2>2
<1>5. ASSUME NEW k \in 1 .. Len(s) + 1, k <= i PROVE (a \o b)[k] = a[k]
    BY <1>1, <1>2, <1>5
<1>6. ASSUME NEW k \in 1 .. Len(s) + 1, i < k PROVE (a \o b)[k] = s[k - 1]
  <2>1. (a \o b)[k] = b[k - i]
      BY <1>1, <1>2, <1>6
  <2>2. k - i \in 1 .. Len(s) - i + 1 /\ i + (k - i) - 1 = k - 1
      BY <1>6
  <2> QED
      BY <1>2, <2>1, <2>2
<1>7. ASSUME NEW k \in 1 .. Len(s) + 1, k < i PROVE (a \o b)[k] = s[k]
    BY <1>1, <1>5, <1>7
<1>8. (a \o b)[i] = e
    BY <1>1, <1>5
<1> QED
    BY <1>3, <1>4, <1>6, <1>7, <1>8

\* An entry that is gone is missed by the one after it.
LEMMA RemovalIsFound ==
    ASSUME NEW chain, Sound(chain), NEW i \in 1 .. Len(chain), Broken(RemoveAt(chain, i)) = {}
    PROVE  IsPrefix(RemoveAt(chain, i), chain)
<1> DEFINE n == Len(chain)
           d == RemoveAt(chain, i)
<1>1. n \in Nat /\ chain \in Seq(Range(chain)) /\ DOMAIN chain = 1 .. n
    BY DEF Sound
<1>2. /\ Len(d) = n - 1 /\ DOMAIN d = 1 .. n - 1 /\ d \in Seq(Range(chain))
      /\ \A k \in 1 .. n - 1 : d[k] = IF k < i THEN chain[k] ELSE chain[k + 1]
  <2> DEFINE T == Range(chain)
  <2>1. chain \in Seq(T)
      BY <1>1
  <2> HIDE DEF T
  <2>2. /\ RemoveAt(chain, i) \in Seq(T) /\ Len(RemoveAt(chain, i)) = Len(chain) - 1
        /\ \A k \in 1 .. Len(chain) - 1 :
               RemoveAt(chain, i)[k] = IF k < i THEN chain[k] ELSE chain[k + 1]
      BY <2>1, RemovedFrom
  <2>3. DOMAIN RemoveAt(chain, i) = 1 .. Len(RemoveAt(chain, i))
      BY <2>2
  <2> QED
      BY <2>2, <2>3 DEF T
<1>3. CASE i = n
    BY <1>1, <1>2, <1>3 DEF IsPrefix
<1>4. CASE i < n
  <2>1. i \in 1 .. n - 1 /\ i + 1 \in 1 .. n /\ i + 1 # 1 /\ d[i] = chain[i + 1]
      BY <1>1, <1>2, <1>4
  <2>2. chain[i + 1].prev = chain[i].hash
    <3>1. chain[i + 1].prev = HashBefore(chain, i + 1)
        BY <1>1, <2>1, EntryVerifies DEF Sound
    <3> QED
        BY <1>1, <2>1, <3>1 DEF HashBefore
  <2>3. d[i].prev = HashBefore(d, i)
      BY <1>2, <2>1, EntryVerifies
  <2>4. chain[i].hash = <<chain[i].id, chain[i].agent, chain[i].content, chain[i].at,
                          HashBefore(chain, i)>>
      BY <1>1, EntryVerifies DEF Sound
  <2>5. CASE i = 1
    <3>1. chain[i].hash = <<>>
        BY <2>1, <2>2, <2>3, <2>5 DEF HashBefore, NoHash
    <3>2. \A u, v, w, x, y : <<u, v, w, x, y>> # <<>>
        OBVIOUS
    <3> QED
        BY <2>4, <3>1, <3>2, Zenon
  <2>6. CASE i # 1
    <3>1. i - 1 \in 1 .. n - 1 /\ i - 1 \in 1 .. n /\ d[i - 1] = chain[i - 1] /\ i - 1 # i
        BY <1>1, <1>2, <2>1, <2>6
    <3>2. chain[i].hash = chain[i - 1].hash
        BY <2>1, <2>2, <2>3, <2>6, <3>1 DEF HashBefore
    <3>3. chain[i - 1].hash = <<chain[i - 1].id, chain[i - 1].agent, chain[i - 1].content,
                                chain[i - 1].at, HashBefore(chain, i - 1)>>
        BY <1>1, <3>1, EntryVerifies DEF Sound
    <3>4. chain[i].id = chain[i - 1].id
        BY <2>4, <3>2, <3>3
    <3> QED
        BY <3>1, <3>4 DEF Sound
  <2> QED
      BY <2>5, <2>6
<1>5. i = n \/ i < n
  <2>1. i \in 1 .. n /\ n \in Nat
      BY <1>1
  <2> HIDE DEF n
  <2> QED
      BY <2>1
<1> QED
    BY <1>3, <1>4, <1>5

\* An entry with another content does not have the hash of what it says.
LEMMA AlterationIsFound ==
    ASSUME NEW chain, Sound(chain), NEW i \in 1 .. Len(chain), NEW text,
           Broken([chain EXCEPT ![i].content = text]) = {}
    PROVE  [chain EXCEPT ![i].content = text] = chain
<1> DEFINE n == Len(chain)
           d == [chain EXCEPT ![i].content = text]
<1>1. n \in Nat /\ DOMAIN chain = 1 .. n /\ chain = [k \in 1 .. n |-> chain[k]]
    BY DEF Sound
<1>2. DOMAIN d = 1 .. n /\ d[i] = [chain[i] EXCEPT !.content = text]
      /\ \A k \in 1 .. n : k # i => d[k] = chain[k]
    BY <1>1
<1>3. /\ d[i].hash = chain[i].hash /\ d[i].content = text
      /\ (text = chain[i].content => d[i] = chain[i])
    BY <1>2 DEF Sound, JournalEntry
<1>9. Broken(d) = {}
    OBVIOUS
<1> HIDE DEF d
<1>4. d[i].hash = <<d[i].id, d[i].agent, d[i].content, d[i].at, HashBefore(d, i)>>
    BY <1>1, <1>2, <1>9, EntryVerifies
<1>5. chain[i].hash = <<chain[i].id, chain[i].agent, chain[i].content, chain[i].at,
                        HashBefore(chain, i)>>
    BY <1>1, EntryVerifies DEF Sound
<1>6. d[i] = chain[i]
  <2>1. d[i].hash[3] = d[i].content
      BY <1>4
  <2>2. chain[i].hash[3] = chain[i].content
      BY <1>5
  <2> QED
      BY <1>3, <2>1, <2>2
<1>7. \A k \in 1 .. n : d[k] = chain[k]
    BY <1>2, <1>6
<1>8. d = [k \in 1 .. n |-> d[k]]
    BY <1>1 DEF d
<1> QED
    BY <1>1, <1>7, <1>8 DEF d

\* An entry that was chained elsewhere is not what the next one follows.
LEMMA InsertionIsFound ==
    ASSUME NEW chain, Sound(chain), NEW i \in 1 .. Len(chain) + 1, NEW stray \in Strays(chain),
           Broken(InsertAt(chain, i, stray)) = {}
    PROVE  IsPrefix(chain, InsertAt(chain, i, stray))
<1> DEFINE n == Len(chain)
           d == InsertAt(chain, i, stray)
           T == Range(chain) \cup {stray}
<1>1. n \in Nat /\ chain \in Seq(Range(chain)) /\ DOMAIN chain = 1 .. n /\ chain \in Seq(T)
    BY DEF Sound
<1>2. /\ Len(d) = n + 1 /\ DOMAIN d = 1 .. n + 1 /\ d \in Seq(T) /\ d[i] = stray
      /\ \A k \in 1 .. n + 1 : k < i => d[k] = chain[k]
      /\ \A k \in 1 .. n + 1 : i < k => d[k] = chain[k - 1]
  <2>1. stray \in T
      OBVIOUS
  <2>2. chain \in Seq(T)
      BY <1>1
  <2> HIDE DEF T
  <2>3. /\ InsertAt(chain, i, stray) \in Seq(T) /\ Len(InsertAt(chain, i, stray)) = Len(chain) + 1
        /\ InsertAt(chain, i, stray)[i] = stray
        /\ \A k \in 1 .. Len(chain) + 1 : k < i => InsertAt(chain, i, stray)[k] = chain[k]
        /\ \A k \in 1 .. Len(chain) + 1 : i < k => InsertAt(chain, i, stray)[k] = chain[k - 1]
      BY <2>1, <2>2, InsertedInto
  <2>4. DOMAIN InsertAt(chain, i, stray) = 1 .. Len(InsertAt(chain, i, stray))
      BY <2>3
  <2> QED
      BY <2>3, <2>4 DEF T
<1>3. stray.id = 0 /\ \E a, b, c, e : stray.hash = <<0, a, b, c, e>>
    BY DEF Strays
<1>4. CASE i = n + 1
    BY <1>1, <1>2, <1>4 DEF IsPrefix
<1>5. CASE i < n + 1
  <2>1. i \in 1 .. n /\ i + 1 \in 1 .. n + 1 /\ i + 1 # 1 /\ d[i + 1] = chain[i]
      BY <1>1, <1>2, <1>5
  <2>2. chain[i].prev = stray.hash
    <3>1. d[i + 1].prev = HashBefore(d, i + 1)
        BY <1>2, <2>1, EntryVerifies
    <3> QED
        BY <1>1, <1>2, <2>1, <3>1 DEF HashBefore
  <2>3. chain[i].prev = HashBefore(chain, i)
      BY <1>1, <2>1, EntryVerifies DEF Sound
  <2>4. CASE i = 1
    <3>1. stray.hash = <<>>
        BY <2>2, <2>3, <2>4 DEF HashBefore, NoHash
    <3>2. PICK a, b, c, e : stray.hash = <<0, a, b, c, e>>
        BY <1>3
    <3>3. Len(stray.hash) = 0
        BY <3>1
    <3>4. Len(stray.hash) = 5
        BY <3>2
    <3> QED
        BY <3>3, <3>4
  <2>5. CASE i # 1
    <3>1. i - 1 \in 1 .. n /\ stray.hash = chain[i - 1].hash
        BY <1>1, <2>1, <2>2, <2>3, <2>5 DEF HashBefore
    <3>2. chain[i - 1].hash = <<chain[i - 1].id, chain[i - 1].agent, chain[i - 1].content,
                                chain[i - 1].at, HashBefore(chain, i - 1)>>
        BY <1>1, <3>1, EntryVerifies DEF Sound
    <3>3. chain[i - 1].id = 0
        BY <1>3, <3>1, <3>2
    <3> QED
        BY <3>1, <3>3 DEF Sound
  <2> QED
      BY <2>4, <2>5
<1> QED
    BY <1>1, <1>4, <1>5

\* "detects insertion, deletion and content tampering per entry"
\* (journal_verify_chain).
LEMMA DamageShows ==
    ASSUME NEW chain, Sound(chain), NEW damaged \in Damaged(chain), Broken(damaged) = {}
    PROVE  IsPrefix(damaged, chain) \/ IsPrefix(chain, damaged)
<1>1. DOMAIN chain = 1 .. Len(chain)
    BY DEF Sound
<1>2. CASE \E i \in DOMAIN chain : damaged = RemoveAt(chain, i)
    BY <1>1, <1>2, RemovalIsFound
<1>3. CASE \E i \in DOMAIN chain : \E text \in Texts : damaged = [chain EXCEPT ![i].content = text]
  <2>1. PICK i \in DOMAIN chain : \E text \in Texts : damaged = [chain EXCEPT ![i].content = text]
      BY <1>3
  <2>2. PICK text \in Texts : damaged = [chain EXCEPT ![i].content = text]
      BY <2>1
  <2>3. damaged = chain
      BY <1>1, <2>2, AlterationIsFound
  <2> QED
      BY <2>3 DEF IsPrefix, Sound
<1>4. CASE \E i \in 1 .. Len(chain) + 1 : \E stray \in Strays(chain) : damaged = InsertAt(chain, i, stray)
    BY <1>4, InsertionIsFound
<1> QED
    BY <1>2, <1>3, <1>4 DEF Damaged

\* A journal of an agent, found to be without a break, is a sound chain.
LEMMA JournalIsSound ==
    ASSUME RecordsInv, NEW agent, Broken(Journal(agent)) = {}
    PROVE  Sound(Journal(agent))
<1> DEFINE S == JournalIds(agent)
           n == Cardinality(S)
           chain == Journal(agent)
<1>1. /\ S \in SUBSET Int /\ IsFiniteSet(S) /\ n \in Nat
      /\ \A id \in S : id \in Nat /\ id > 0
    BY JournalIdsAreIds DEF RecordsInv
<1>2. ASSUME NEW id \in S PROVE JournalEntry(entries[agent, id]) /\ entries[agent, id].id = id
  <2>1. PICK k \in DOMAIN entries : k[1] = agent /\ k[2] = id
      BY DEF JournalIds
  <2>2. k = <<agent, id>> /\ JournalEntry(entries[k]) /\ entries[k].id = k[2]
      BY <2>1 DEF RecordsInv, EntriesAreSound
  <2> QED
      BY <2>1, <2>2
<1>3. chain = [i \in 1 .. n |-> entries[agent, InOrder(S)[i]]]
  <2>1. DOMAIN InOrder(S) = 1 .. n
      BY DEF InOrder
  <2> QED
      BY <2>1 DEF Journal, Scan
<1> HIDE DEF S
<1>4. \A i \in 1 .. n : /\ InOrder(S)[i] \in S
                        /\ Cardinality(Below(S, InOrder(S)[i])) = i - 1
    BY <1>1, KeyAtPlace
<1>5. \A i \in 1 .. n : JournalEntry(chain[i]) /\ chain[i].id = InOrder(S)[i]
    BY <1>2, <1>3, <1>4
<1>6. chain = [i \in 1 .. n |-> chain[i]]
    BY <1>3
<1> HIDE DEF n, chain
<1>7. Len(chain) = n /\ DOMAIN chain = 1 .. n
    BY <1>1, <1>6, FunctionIsSequence
<1>8. chain \in Seq(Range(chain))
  <2>1. \A i \in 1 .. n : chain[i] \in Range(chain)
      BY <1>7 DEF Range
  <2> QED
      BY <1>1, <1>6, <2>1
<1>9. \A i \in 1 .. n : chain[i].id \in Nat /\ chain[i].id > 0
    BY <1>1, <1>4, <1>5
<1>10. ASSUME NEW i \in 1 .. n, NEW j \in 1 .. n, i # j PROVE chain[i].id # chain[j].id
  <2>1. i - 1 # j - 1
      BY <1>1, <1>10
  <2> QED
      BY <1>4, <1>5, <2>1
<1> QED
    BY <1>5, <1>7, <1>8, <1>9, <1>10 DEF Sound, chain

\* Whatever the next record is, no chain is broken by it.
LEMMA StepKeepsHonest ==
    ASSUME RecordsInv, IdsGrow, HonestChainsVerify, RecordsNext
    PROVE  HonestChainsVerify'
<1>1. \A id \in Ids : id < NextId
  <2>1. ASSUME NEW id \in Ids PROVE id < NextId
    <3>1. id \in Nat /\ id <= Reached /\ Reached \in Nat /\ NextId \in Nat /\ Reached < NextId
        BY NextIdIsNew DEF IdsGrow, RecordsInv, RecordsTyped
    <3> QED
        BY <3>1
  <2> QED
      BY <2>1
<1>2. ASSUME UNCHANGED audits PROVE BrokenAudit(Audit)' = {}
    BY <1>2 DEF HonestChainsVerify, Audit, BrokenAudit, HashBefore
<1>3. ASSUME UNCHANGED entries, NEW agent \in Agents PROVE Broken(Journal(agent))' = {}
  <2>1. Journal(agent)' = Journal(agent)
      BY <1>3 DEF Journal, Scan, JournalIds
  <2> QED
      BY <2>1 DEF HonestChainsVerify
<1>4. ASSUME NEW a, NEW content, NEW after, JournalWrite(a, content, after),
             NEW agent \in Agents
      PROVE  Broken(Journal(agent))' = {}
  <2> DEFINE c == Journal(agent)
             d == Journal(agent)'
             m == Len(c)
  <2>1. CASE agent # a
    <3>1. d = c
        BY <1>1, <1>4, <2>1, WriteContinues DEF RecordsInv
    <3> QED
        BY <3>1 DEF HonestChainsVerify
  <2>2. CASE agent = a
    <3>1. /\ DOMAIN c = 1 .. m /\ m \in Nat /\ DOMAIN d = 1 .. m + 1
          /\ \A i \in 1 .. m : d[i] = c[i]
          /\ d[m + 1] = entries'[a, NextId]
        BY <1>1, <1>4, <2>2, WriteContinues DEF RecordsInv
    <3>2. /\ d[m + 1].prev = HashBefore(c, m + 1)
          /\ d[m + 1].hash = JournalHash(d[m + 1], HashBefore(c, m + 1))
        BY <1>4, <2>2, <3>1, WriteSeals DEF LastHash
    <3>3. Broken(c) = {}
        BY DEF HonestChainsVerify
    <3> HIDE DEF c, d, m
    <3>4. Broken(d) = {}
        BY <3>1, <3>2, <3>3, LongerChainIsHonest
    <3> QED
        BY <3>4 DEF d
  <2> QED
      BY <2>1, <2>2
<1>5. ASSUME NEW operation, NEW subject, NEW decision, AppendAudit(operation, subject, decision)
      PROVE  BrokenAudit(Audit)' = {}
  <2> DEFINE c == Audit
             d == Audit'
             m == Len(c)
  <2>1. /\ DOMAIN c = 1 .. m /\ m \in Nat /\ DOMAIN d = 1 .. m + 1
        /\ \A i \in 1 .. m : d[i] = c[i]
        /\ d[m + 1] = audits'[NextId]
      BY <1>1, <1>5, AuditContinues DEF RecordsInv
  <2>2. d[m + 1].prev = HashBefore(c, m + 1) /\ d[m + 1].hash = AuditHash(d[m + 1])
      BY <1>5, <2>1, AppendSeals DEF LastAudit
  <2>3. BrokenAudit(c) = {}
      BY DEF HonestChainsVerify
  <2> HIDE DEF c, d, m
  <2>4. BrokenAudit(d) = {}
      BY <2>1, <2>2, <2>3, LongerAuditIsHonest
  <2> QED
      BY <2>4 DEF d
<1> QED
    BY <1>2, <1>3, <1>4, <1>5
       DEF RecordsNext, JournalWrite, JournalSupersede, EvaluateAction, RememberAudited,
           AppendAudit, Remark, SubmitEthicsFeedback, ResolveEthicsFeedback, TickRecords,
           RestartRecords, HonestChainsVerify

\* Where the clock is not set back, what the verification of a chain answers is
\* the truth in both directions: chains of nothing but the engine's own records
\* are found intact, and damage that does more than cut or continue the end of a
\* journal is found (journal_verify_chain, audit_verify_chain).
THEOREM VerificationIsTrue ==
    ASSUME ~ClockStepsBack
    PROVE  RecordsSpec => []VerifyTellsTheTruth
<1>1. RecordsInit => IdsGrow /\ HonestChainsVerify
  <2> SUFFICES ASSUME RecordsInit PROVE IdsGrow /\ HonestChainsVerify
      OBVIOUS
  <2>1. /\ DOMAIN entries = {} /\ superseding = {} /\ DOMAIN audits = {} /\ remarks = {}
        /\ minted = 0 /\ clock = 0
      BY DEF RecordsInit
  <2>2. Cardinality({}) = 0 /\ Stretch \in Nat
      BY FS_EmptySet, RecordsAssumption DEF Stretch
  <2>3. IdsGrow
      BY <2>1, <2>2 DEF IdsGrow, Ids, Reached, Records
  <2>4. \A agent : JournalIds(agent) = {}
      BY <2>1 DEF JournalIds
  <2>5. InOrder({}) = <<>>
      BY <2>2 DEF InOrder
  <2>6. (\A agent : DOMAIN Journal(agent) = {}) /\ DOMAIN Audit = {}
    <3>1. (\A agent : InOrder(JournalIds(agent)) = <<>>) /\ InOrder(DOMAIN audits) = <<>>
        BY <2>1, <2>4, <2>5
    <3>2. DOMAIN <<>> = {}
        OBVIOUS
    <3> QED
        BY <3>1, <3>2 DEF Journal, Scan, Audit
  <2>7. HonestChainsVerify
      BY <2>6 DEF HonestChainsVerify, Broken, BrokenAudit
  <2> QED
      BY <2>3, <2>7
<1>2. /\ RecordsInv /\ IdsGrow /\ HonestChainsVerify /\ [RecordsNext]_recordVars
      => (IdsGrow /\ HonestChainsVerify)'
  <2> SUFFICES ASSUME RecordsInv, IdsGrow, HonestChainsVerify, [RecordsNext]_recordVars
               PROVE  IdsGrow' /\ HonestChainsVerify'
      OBVIOUS
  <2>1. CASE RecordsNext
      BY <2>1, StepKeepsIdsGrowing, StepKeepsHonest DEF RecordsInv
  <2>2. CASE UNCHANGED recordVars
    <3>1. UNCHANGED <<entries, superseding, audits, remarks, minted, clock>>
        BY <2>2 DEF recordVars
    <3>2. IdsGrow'
        BY <3>1 DEF IdsGrow, Ids, Reached, Records, Stretch
    <3>3. (\A agent : Journal(agent)' = Journal(agent)) /\ Audit' = Audit
        BY <3>1 DEF Journal, Scan, JournalIds, Audit
    <3> QED
        BY <3>2, <3>3 DEF HonestChainsVerify
  <2> QED
      BY <2>1, <2>2
<1>3. RecordsInv /\ HonestChainsVerify => VerifyTellsTheTruth
    BY JournalIsSound, DamageShows DEF VerifyTellsTheTruth, HonestChainsVerify, DamageIsFound
<1> QED
    BY <1>1, <1>2, <1>3, RecordsInvariant, PTL DEF RecordsSpec

-----------------------------------------------------------------------------
\* Recall, over the stored memories.

\* A result cites memories that were scored, and a response is made of results.
LEMMA CitedAreScored ==
    ASSUME NEW q, NEW found, NEW response \in Responses(q, found), NEW m \in Cited(response)
    PROVE  m \in Scored(q, found)
<1>1. PICK i \in DOMAIN response : m \in response[i].cites
    BY DEF Cited
<1>2. response[i] \in Merged(q, found)
    BY DEF Responses, SetToSeqs
<1>3. ASSUME NEW r \in Merged(q, found) PROVE r.cites \subseteq Scored(q, found)
    BY <1>3 DEF Merged, Result
<1> QED
    BY <1>1, <1>2, <1>3

\* Every branch looks in the corpus.
LEMMA HitsAreOfTheCorpus == \A q : Hits(Found(q)) \subseteq Corpus(q)
    BY DEF Hits, Found, TextHits, SemanticHits, LexicalHits, GraphHits, TemporalHits

\* Nobody is shown more than get_memory() would show, whatever the memories, the
\* claims, the graph and the bindings are when recall() reads them: no branch and
\* no result leads out of the corpus of the caller (authorized_recall_records()).
THEOREM NobodyIsShownMore == CorpusSpec => []RecallIsAuthorized
<1>1. RecallIsAuthorized
  <2> SUFFICES ASSUME NEW q \in RecallRequests, NEW response \in Responses(q, Found(q)),
                      NEW m \in Cited(response)
               PROVE  /\ MemoryVisible(m, q.scope) /\ m \in q.filter
                      /\ memories[m].state # "archived" /\ Content[m].treatment # "quarantined"
                      /\ \A c \in Mentioned(q) :
                             Content[m].event \in ActiveEvidence(c) =>
                                 \E d \in CurrentlyHeld(q) : Content[m].event \in ActiveEvidence(d)
      BY DEF RecallIsAuthorized
  <2>1. m \in Corpus(q)
      BY CitedAreScored, HitsAreOfTheCorpus DEF Scored, Retained
  <2>2. m \in Authorized(q) /\ Content[m].event \notin RetiredEvents(q)
      BY <2>1 DEF Corpus
  <2>3. ASSUME NEW c \in Mentioned(q), Content[m].event \in ActiveEvidence(c)
        PROVE  \E d \in CurrentlyHeld(q) : Content[m].event \in ActiveEvidence(d)
      BY <2>2, <2>3 DEF RetiredEvents, EvidenceOf
  <2> QED
      BY <2>2, <2>3 DEF Authorized, Gettable
<1> QED
    BY <1>1, PTL

\* The best that a branch says of a memory is a number.
LEMMA BestIsANumber ==
    ASSUME NEW q \in RecallRequests, NEW found, NEW m \in Memories
    PROVE  Best(q, found, m) \in Nat
<1> DEFINE p == Point(m, found.graph \cup found.temporal)
           S == {q.semantic[m], q.lexical[m], p}
<1>1. q.semantic[m] \in Nat /\ q.lexical[m] \in Nat
    BY RecallAssumption
<1>2. p \in Nat
    BY DEF Point
<1>3. ASSUME NEW a \in Nat, NEW b \in Nat, NEW c \in Nat
      PROVE  \E x \in {a, b, c} : \A y \in {a, b, c} : x >= y
  <2>1. CASE a >= b /\ a >= c
      BY <2>1
  <2>2. CASE b >= a /\ b >= c
      BY <2>2
  <2>3. CASE c >= a /\ c >= b
      BY <2>3
  <2> QED
      BY <2>1, <2>2, <2>3
<1>4. \E x \in S : \A y \in S : x >= y
    BY <1>1, <1>2, <1>3
<1>5. Max(S) \in S
    BY <1>4, Zenon DEF Max
<1> QED
    BY <1>1, <1>2, <1>5 DEF Best

\* Whose best branch is better, or whose id is first where that is equal.
Before(q, found, k, m) ==
    \/ Best(q, found, k) > Best(q, found, m)
    \/ Best(q, found, k) = Best(q, found, m) /\ k < m

\* The candidates before a candidate are fewer than all, and before the one that
\* has the fewest before it there is none.
LEMMA CandidatesAreRanked ==
    ASSUME NEW q \in RecallRequests, NEW found, Hits(found) \subseteq Memories,
           Memories \subseteq Nat, IsFiniteSet(Hits(found))
    PROVE  /\ Cardinality(Hits(found)) <= q.union => Retained(q, found) = Hits(found)
           /\ Hits(found) # {} => Retained(q, found) # {}
<1> DEFINE hits == Hits(found)
           ahead(m) == {k \in hits : Before(q, found, k, m)}
<1>1. \A m \in hits : m \in Nat /\ Best(q, found, m) \in Nat
    BY BestIsANumber
<1>2. /\ \A m \in hits : ~Before(q, found, m, m)
      /\ \A j, k, m \in hits :
             Before(q, found, j, k) /\ Before(q, found, k, m) => Before(q, found, j, m)
  <2> HIDE DEF hits
  <2> QED
      BY <1>1 DEF Before
<1>3. Retained(q, found) = {m \in hits : Cardinality(ahead(m)) < q.union}
    BY DEF Retained, Before
<1>4. q.union \in Nat /\ q.union > 0
    BY RecallAssumption
<1>5. Cardinality(hits) \in Nat
    BY FS_CardinalityType
<1>6. ASSUME NEW m \in hits PROVE Cardinality(ahead(m)) \in Nat /\ Cardinality(ahead(m)) < Cardinality(hits)
  <2>1. ahead(m) \subseteq hits /\ ahead(m) # hits
      BY <1>2
  <2>2. /\ Cardinality(ahead(m)) <= Cardinality(hits)
        /\ Cardinality(ahead(m)) # Cardinality(hits) /\ IsFiniteSet(ahead(m))
      BY <2>1, FS_Subset
  <2>3. Cardinality(ahead(m)) \in Nat
      BY <2>2, FS_CardinalityType
  <2> HIDE DEF hits, ahead
  <2> QED
      BY <1>5, <2>2, <2>3
<1>7. Cardinality(hits) <= q.union => Retained(q, found) = hits
  <2> HIDE DEF hits, ahead
  <2> QED
      BY <1>3, <1>4, <1>5, <1>6
<1>8. ASSUME hits # {} PROVE Retained(q, found) # {}
  <2> DEFINE ranks == {Cardinality(ahead(m)) : m \in hits}
  <2>1. ranks \in SUBSET Nat /\ ranks # {}
      BY <1>6, <1>8
  <2>2. PICK least \in ranks : \A r \in ranks : least <= r
    <3> HIDE DEF ranks
    <3> QED
        BY <2>1, MinIsLeast, Zenon
  <2>3. PICK m \in hits : least = Cardinality(ahead(m))
      BY <2>2
  <2>4. ahead(m) = {}
    <3> SUFFICES ASSUME NEW k \in ahead(m) PROVE FALSE
        OBVIOUS
    <3>1. ahead(k) \subseteq ahead(m) /\ ahead(k) # ahead(m) /\ k \in hits
        BY <1>2
    <3>2. IsFiniteSet(ahead(m))
        BY FS_Subset
    <3>3. Cardinality(ahead(k)) <= Cardinality(ahead(m)) /\ Cardinality(ahead(k)) # Cardinality(ahead(m))
        BY <3>1, <3>2, FS_Subset
    <3>4. Cardinality(ahead(m)) <= Cardinality(ahead(k))
        BY <2>2, <2>3, <3>1
    <3>5. Cardinality(ahead(k)) \in Nat /\ Cardinality(ahead(m)) \in Nat
        BY <1>6, <3>1
    <3> HIDE DEF ahead, hits
    <3> QED
        BY <3>3, <3>4, <3>5
  <2>5. Cardinality(ahead(m)) = 0
      BY <2>4, FS_EmptySet
  <2>6. m \in Retained(q, found)
      BY <1>3, <1>4, <2>5
  <2> QED
      BY <2>6
<1> QED
    BY <1>7, <1>8

\* No more results than memories that were scored.
LEMMA ResultsAreFinite ==
    ASSUME NEW q, NEW found, IsFiniteSet(Scored(q, found))
    PROVE  IsFiniteSet(Merged(q, found))
<1> DEFINE scored == Scored(q, found)
           group(m) == {k \in scored : Disclosed(k) = Disclosed(m)}
           result(g) == Result(CHOOSE m \in g : \A k \in g \ {m} : Better(q, found, m, k), g, found)
           f == [m \in scored |-> result(group(m))]
<1>1. Merged(q, found) = {f[m] : m \in scored}
  <2>1. Merged(q, found) = {result(g) : g \in {group(m) : m \in scored}}
      BY DEF Merged
  <2> HIDE DEF result, group, scored
  <2>2. \A m \in scored : f[m] = result(group(m))
      OBVIOUS
  <2> HIDE DEF f
  <2> QED
      BY <2>1, <2>2
<1>2. DOMAIN f = scored /\ f = [m \in scored |-> f[m]]
    OBVIOUS
<1> HIDE DEF f, scored
<1>3. IsFiniteSet({f[m] : m \in scored})
    BY <1>2, ImageIsNoLarger DEF scored
<1> QED
    BY <1>1, <1>3

\* Where there was room for more results, every memory that was scored is cited.
LEMMA ResponseWithRoomIsComplete ==
    ASSUME NEW q \in RecallRequests, NEW found, IsFiniteSet(Scored(q, found)),
           NEW response \in Responses(q, found), Len(response) < Target(q)
    PROVE  Scored(q, found) \subseteq Cited(response)
<1> DEFINE merged == Merged(q, found)
           n == Min({Target(q), Cardinality(merged)})
<1>1. IsFiniteSet(merged) /\ Cardinality(merged) \in Nat
    BY ResultsAreFinite, FS_CardinalityType
<1>2. Target(q) \in Nat
  <2>1. {MaxResults, q.limit} \in SUBSET Nat /\ {MaxResults, q.limit} # {}
      BY RecallAssumption
  <2> DEFINE S == {MaxResults, q.limit}
  <2> HIDE DEF S
  <2>2. Min(S) \in S
      BY <2>1, MinIsLeast DEF S
  <2> QED
      BY <2>1, <2>2 DEF Target, S
<1>3. n \in {Target(q), Cardinality(merged)}
  <2> DEFINE S == {Target(q), Cardinality(merged)}
  <2>1. S \in SUBSET Nat /\ S # {}
      BY <1>1, <1>2
  <2> HIDE DEF S
  <2>2. Min(S) \in S
      BY <2>1, MinIsLeast
  <2> QED
      BY <2>2 DEF S
<1>4. PICK set \in SUBSET merged : Cardinality(set) = n /\ response \in SetToSeqs(set)
    BY DEF Responses
<1>5. /\ IsFiniteSet(set) /\ Cardinality(set) \in Nat
      /\ response \in [1 .. Cardinality(set) -> set]
      /\ \A i, j \in 1 .. Cardinality(set) : i # j => response[i] # response[j]
    BY <1>1, <1>4, FS_Subset, FS_CardinalityType DEF SetToSeqs
<1>6. Len(response) = Cardinality(set)
    BY <1>5
<1>7. Cardinality(set) = Cardinality(merged)
    BY <1>2, <1>3, <1>4, <1>6
<1>8. set = merged
    BY <1>1, <1>7, FS_Subset
<1>9. response \in Surjection(1 .. Cardinality(set), set)
  <2>1. response \in Injection(1 .. Cardinality(set), set)
      BY <1>5 DEF Injection, IsInjective
  <2>2. Cardinality(1 .. Cardinality(set)) = Cardinality(set)
      BY <1>5, FS_Interval
  <2> QED
      BY <1>5, <2>1, <2>2, FS_Injection
<1>10. \A r \in merged : \E i \in DOMAIN response : response[i] = r
    BY <1>8, <1>9 DEF Surjection
<1>11. ASSUME NEW m \in Scored(q, found) PROVE m \in Cited(response)
  <2>1. PICK r \in merged : m \in r.cites
    <3> DEFINE groups == {{k \in Scored(q, found) : Disclosed(k) = Disclosed(j)} : j \in Scored(q, found)}
               group == {k \in Scored(q, found) : Disclosed(k) = Disclosed(m)}
               result(g) == Result(CHOOSE k \in g : \A l \in g \ {k} : Better(q, found, k, l), g, found)
    <3>1. result(group) \in merged
      <4>1. group \in groups
          BY <1>11
      <4>2. merged = {result(g) : g \in groups}
          BY DEF Merged
      <4> HIDE DEF result, group, groups, merged
      <4> QED
          BY <4>1, <4>2
    <3>2. \A g : result(g).cites = g
        BY DEF Result
    <3>3. m \in group
        BY <1>11
    <3> HIDE DEF result, group, merged
    <3> QED
        BY <3>1, <3>2, <3>3
  <2> QED
      BY <1>10, <2>1 DEF Cited
<1> QED
    BY <1>11

\* What recall() leaves out it leaves out for a reason that it gives: a memory that
\* a branch found and the threshold lets through is cited unless a budget was
\* exhausted, and an empty answer says why it is empty.
THEOREM NothingDueIsLeftOut == CorpusSpec => []RecallIsComplete
<1>1. ASSUME CorpusInv PROVE RecallIsComplete
  <2> SUFFICES ASSUME NEW q \in RecallRequests
               PROVE  LET found == Found(q)
                          due == {m \in Hits(found) : FinalScore(q, found, m) >= Threshold}
                      IN  /\ Cardinality(Hits(found)) <= q.union =>
                                 \A response \in Responses(q, found) :
                                     Len(response) < Target(q) => due \subseteq Cited(response)
                          /\ Abstention(q, found) = "no_visible_candidates" <=> Hits(found) = {}
                          /\ Abstention(q, found) # "policy_restricted"
      BY DEF RecallIsComplete
  <2> DEFINE found == Found(q)
  <2>1. Hits(found) \subseteq Memories /\ Hits(found) \subseteq Authorized(q)
      BY <1>1, HitsAreOfTheCorpus DEF Corpus, Authorized, Gettable, CorpusInv, CorpusTypeOK
  <2>2. Memories \subseteq Nat /\ IsFiniteSet(Hits(found))
    <3>1. Memories \subseteq Nat /\ IsFiniteSet(Memories)
        BY CorpusAssumption, FS_CardinalityType
    <3> QED
        BY <2>1, <3>1, FS_Subset
  <2>3. \A m \in Hits(found) : Policy(m) # "abstain"
      BY <2>1, CorpusAssumption, RecallAssumption DEF Policy, Authorized
  <2> HIDE DEF found
  <2>4. Retained(q, found) \subseteq Hits(found)
      BY DEF Retained
  <2>5. /\ Cardinality(Hits(found)) <= q.union => Retained(q, found) = Hits(found)
        /\ Retained(q, found) = {} <=> Hits(found) = {}
      BY <2>1, <2>2, <2>4, CandidatesAreRanked
  <2>6. Scored(q, found) \subseteq Hits(found) /\ IsFiniteSet(Scored(q, found))
      BY <2>2, <2>4, FS_Subset DEF Scored
  <2>7. ASSUME Cardinality(Hits(found)) <= q.union, NEW response \in Responses(q, found),
               Len(response) < Target(q)
        PROVE  {m \in Hits(found) : FinalScore(q, found, m) >= Threshold} \subseteq Cited(response)
    <3>1. {m \in Hits(found) : FinalScore(q, found, m) >= Threshold} \subseteq Scored(q, found)
        BY <2>3, <2>5, <2>7 DEF Scored
    <3> QED
        BY <2>6, <2>7, <3>1, ResponseWithRoomIsComplete
  <2>8. /\ Abstention(q, found) = "no_visible_candidates" <=> Hits(found) = {}
        /\ Abstention(q, found) # "policy_restricted"
      BY <2>3, <2>4, <2>5, <2>6, RecallAssumption DEF Abstention
  <2> QED
      BY <2>7, <2>8 DEF found
<1> QED
    BY <1>1, CorpusInvariant, PTL

-----------------------------------------------------------------------------
\* Loops.

\* What holds before the first round and is kept by each, holds after any.
LEMMA EveryRound ==
    ASSUME NEW n \in Nat, NEW S, 0 \in S, \A i \in 1 .. n : i - 1 \in S => i \in S
    PROVE  \A i \in 0 .. n : i \in S
<1> SUFFICES ASSUME NEW j \in 0 .. n, j \notin S PROVE FALSE
    OBVIOUS
<1> DEFINE T == (0 .. n) \ S
<1>1. T \in SUBSET Nat /\ T # {}
    OBVIOUS
<1>2. PICK m \in T : \A i \in T : m <= i
    BY <1>1, MinIsLeast
<1>3. m \in 1 .. n /\ m - 1 \in 0 .. n /\ ~(m <= m - 1)
    BY <1>2
<1>4. m - 1 \in S
    BY <1>2, <1>3
<1> QED
    BY <1>2, <1>3, <1>4

\* The states a loop goes through.
LoopStates(f, n, X, start, round) ==
    /\ f \in [0 .. n -> X]
    /\ f[0] = start /\ \A i \in 1 .. n : f[i] = round[i][f[i - 1]]

\* There are some when each round leads from a state to a state.
LEMMA LoopHasStates ==
    ASSUME NEW n \in Nat, NEW X, NEW start \in X, NEW round \in [1 .. n -> [X -> X]]
    PROVE  \E f : LoopStates(f, n, X, start, round)
<1> DEFINE passes(k, f) == f[0] = start /\ \A i \in 1 .. k : f[i] = round[i][f[i - 1]]
           can(k) == \E f \in [0 .. k -> X] : passes(k, f)
           S == {k \in 0 .. n : can(k)}
<1>1. can(0)
  <2> DEFINE f == [i \in 0 .. 0 |-> start]
  <2>1. f \in [0 .. 0 -> X] /\ passes(0, f)
      OBVIOUS
  <2> HIDE DEF f
  <2> QED
      BY <2>1
<1>2. ASSUME NEW k \in 1 .. n, can(k - 1) PROVE can(k)
  <2>1. PICK f \in [0 .. k - 1 -> X] : passes(k - 1, f)
      BY <1>2
  <2> DEFINE g == [i \in 0 .. k |-> IF i = k THEN round[k][f[k - 1]] ELSE f[i]]
  <2>2. f[k - 1] \in X /\ round[k] \in [X -> X]
      OBVIOUS
  <2>3. g \in [0 .. k -> X]
      BY <2>2
  <2>4. \A i \in 1 .. k : i - 1 \in 0 .. k - 1 /\ g[i - 1] = f[i - 1]
      OBVIOUS
  <2>5. passes(k, g)
    <3>1. g[0] = start /\ g[k] = round[k][g[k - 1]]
        BY <2>1, <2>4
    <3>2. \A i \in 1 .. k : i = k \/ (i \in 1 .. k - 1 /\ g[i] = f[i])
        OBVIOUS
    <3> HIDE DEF g
    <3>3. ASSUME NEW i \in 1 .. k PROVE g[i] = round[i][g[i - 1]]
        BY <2>1, <2>4, <3>1, <3>2
    <3> QED
        BY <3>1, <3>3
  <2> HIDE DEF g
  <2> QED
      BY <2>3, <2>5
<1> HIDE DEF can
<1>3. can(n)
  <2>1. 0 \in S /\ \A k \in 1 .. n : k - 1 \in S => k \in S
      BY <1>1, <1>2
  <2> HIDE DEF S
  <2>2. \A k \in 0 .. n : k \in S
      BY <2>1, EveryRound, Zenon
  <2> QED
      BY <2>2 DEF S
<1> QED
    BY <1>3 DEF can, LoopStates

-----------------------------------------------------------------------------
\* Traversal of the relations R between the entities E.

Reasons == {"depth", "edges", "entities"}

Walks(E, R) ==
    [entities : SUBSET E, edges : SUBSET R, reason : Reasons \cup {None},
     cut : BOOLEAN, queue : Seq(E \X Nat)]

\* Whom the queue holds.
Queued(queue) == {queue[i][1] : i \in DOMAIN queue}
Waiting(path) == Queued(path.queue)

Leads(relation, entity, set) == Touches(relation, entity) => Neighbour(relation, entity) \in set

\* What is so of a walk that has taken some entities out of the queue, the
\* current one among them.
HonestWalk(path, taken, current, R, request) ==
    /\ IsFiniteSet(path.edges) /\ Cardinality(path.edges) <= request.edges
    /\ IsFiniteSet(path.entities) /\ Cardinality(path.entities) <= request.entities
    /\ Cardinality(path.entities) = taken + Len(path.queue)
    /\ request.seeds \cup Waiting(path) \subseteq path.entities
    /\ \A set : request.seeds \subseteq set /\ Within1(set, R) => path.entities \subseteq set
    /\ path.cut => path.reason # None
    /\ path.reason = None =>
           \A e \in path.entities \ (Waiting(path) \cup current) :
               \A r \in R : Leads(r, e, path.entities)

\* A relation leads from an entity of the graph to another.
LEMMA NeighbourIsThere ==
    ASSUME NEW E, NEW r, {r.source, r.target} \subseteq E, NEW e
    PROVE  Neighbour(r, e) \in E
    BY DEF Neighbour

\* A step of the inner loop leads from a walk to a walk.
LEMMA InspectIsTyped ==
    ASSUME NEW E, NEW R, NEW path \in Walks(E, R), NEW e \in E, NEW depth \in Nat,
           NEW r \in R, {r.source, r.target} \subseteq E, NEW request \in Requests
    PROVE  Inspect(path, e, depth, r, request) \in Walks(E, R)
<1> DEFINE other == Neighbour(r, e)
           crossed == [path EXCEPT !.edges = @ \cup {r}]
<1>1. \A w \in Walks(E, R), reason \in Reasons :
          /\ Because(w, reason) \in Walks(E, R)
          /\ [Because(w, reason) EXCEPT !.cut = TRUE] \in Walks(E, R)
    BY DEF Because, Walks
<1>2. crossed \in Walks(E, R)
    BY DEF Walks
<1>3. [crossed EXCEPT !.entities = @ \cup {other}, !.queue = Append(@, <<other, depth + 1>>)]
          \in Walks(E, R)
  <2>1. other \in E /\ <<other, depth + 1>> \in E \X Nat
      BY NeighbourIsThere
  <2> HIDE DEF other, crossed
  <2>2. /\ crossed.entities \cup {other} \in SUBSET E
        /\ Append(crossed.queue, <<other, depth + 1>>) \in Seq(E \X Nat)
      BY <1>2, <2>1 DEF Walks
  <2> QED
      BY <1>2, <2>2 DEF Walks
<1> QED
    BY <1>1, <1>2, <1>3 DEF Inspect, Reasons

\* The walks of an inner loop.
Inspections(after, E, R, path, e, depth, request, order) ==
    /\ after \in [0 .. Len(order) -> Walks(E, R)]
    /\ after[0] = path
    /\ \A i \in 1 .. Len(order) : after[i] = Inspect(after[i - 1], e, depth, order[i], request)
    /\ Inspected(path, e, depth, request, order) = after[Len(order)]

\* There is one for each of the relations, and the last is where the loop ends.
LEMMA InspectedHasRounds ==
    ASSUME NEW E, NEW R, NEW path \in Walks(E, R), NEW e \in E, NEW depth \in Nat,
           NEW request \in Requests, NEW order \in Seq(R),
           \A r \in R : {r.source, r.target} \subseteq E
    PROVE  \E after : Inspections(after, E, R, path, e, depth, request, order)
<1> DEFINE n == Len(order)
           X == Walks(E, R)
           body(w, i) == Inspect(w, e, depth, order[i], request)
           round == [i \in 1 .. n |-> [w \in X |-> body(w, i)]]
           loop(f) == [i \in 0 .. n |-> IF i = 0 THEN path ELSE body(f[i - 1], i)]
           after == CHOOSE f : f = loop(f)
<1>1. n \in Nat /\ \A i \in 1 .. n : order[i] \in R
    OBVIOUS
<1>2. \A w \in X, i \in 1 .. n : body(w, i) \in X
    BY <1>1, InspectIsTyped
<1>3. Inspected(path, e, depth, request, order) = after[n]
    BY DEF Inspected
<1> HIDE DEF X, body, n
<1>4. round \in [1 .. n -> [X -> X]]
    BY <1>2
<1>5. PICK f : LoopStates(f, n, X, path, round)
  <2>1. path \in X
      BY DEF X
  <2> HIDE DEF round
  <2> QED
      BY <1>1, <1>4, <2>1, LoopHasStates
<1>6. f = loop(f)
  <2>1. \A i \in 1 .. n : i \in 0 .. n /\ i - 1 \in 0 .. n
      BY <1>1
  <2>2. \A i \in 1 .. n : round[i][f[i - 1]] = body(f[i - 1], i)
      BY <1>5, <2>1 DEF LoopStates
  <2> HIDE DEF round
  <2>3. \A i \in 0 .. n : f[i] = IF i = 0 THEN path ELSE body(f[i - 1], i)
      BY <1>1, <1>5, <2>1, <2>2 DEF LoopStates
  <2> QED
      BY <1>5, <2>3 DEF LoopStates
<1> HIDE DEF round
<1>7. after = loop(after)
  <2> HIDE DEF loop
  <2> QED
      BY <1>6, Zenon DEF after
<1> HIDE DEF after
<1>8. after[0] = path /\ \A i \in 1 .. n : after[i] = body(after[i - 1], i)
    BY <1>1, <1>7
<1>9. after \in [0 .. n -> X]
  <2> DEFINE S == {i \in 0 .. n : after[i] \in X}
  <2>1. 0 \in S /\ \A i \in 1 .. n : i - 1 \in S => i \in S
      BY <1>1, <1>2, <1>8 DEF X
  <2> HIDE DEF S
  <2>2. \A i \in 0 .. n : i \in S
      BY <1>1, <2>1, EveryRound, Zenon
  <2>3. \A i \in 0 .. n : after[i] \in X
      BY <2>2 DEF S
  <2> QED
      BY <1>7, <2>3
<1> QED
    BY <1>3, <1>8, <1>9 DEF n, X, body, Inspections

\* An entity that is crossed to is new, and is queued.
LEMMA AppendWaits ==
    ASSUME NEW T, NEW queue \in Seq(T), NEW x \in T
    PROVE  /\ Len(Append(queue, x)) = Len(queue) + 1
           /\ Queued(Append(queue, x)) = Queued(queue) \cup {x[1]}
<1> DEFINE longer == Append(queue, x)
<1>1. /\ Len(longer) = Len(queue) + 1 /\ longer[Len(queue) + 1] = x
      /\ DOMAIN queue = 1 .. Len(queue) /\ DOMAIN longer = 1 .. Len(queue) + 1
      /\ \A i \in DOMAIN queue : longer[i] = queue[i]
      /\ Len(queue) \in Nat
    OBVIOUS
<1> HIDE DEF longer
<1>2. DOMAIN longer = DOMAIN queue \cup {Len(queue) + 1}
    BY <1>1
<1>3. {longer[i][1] : i \in DOMAIN longer} = {queue[i][1] : i \in DOMAIN queue} \cup {x[1]}
    BY <1>1, <1>2
<1> QED
    BY <1>1, <1>3 DEF longer, Queued

\* What one relation does to the walk.
Follows(next, path, e, r, taken, R, request) ==
    /\ HonestWalk(next, taken, {e}, R, request)
    /\ path.entities \subseteq next.entities
    /\ next.reason = None => path.reason = None /\ Leads(r, e, next.entities)

LEMMA InspectIsHonest ==
    ASSUME NEW E, NEW R, NEW path \in Walks(E, R), NEW e \in path.entities, NEW depth \in Nat,
           NEW r \in R, {r.source, r.target} \subseteq E, NEW request \in Requests,
           NEW taken \in Nat, HonestWalk(path, taken, {e}, R, request),
           NEW next, next = Inspect(path, e, depth, r, request)
    PROVE  Follows(next, path, e, r, taken, R, request)
<1> USE DEF Follows
<1> DEFINE other == Neighbour(r, e)
           crossed == [path EXCEPT !.edges = @ \cup {r}]
<1>1. /\ path.entities \subseteq E /\ path.edges \subseteq R /\ path.queue \in Seq(E \X Nat)
      /\ path.reason \in Reasons \cup {None} /\ path.cut \in BOOLEAN
      /\ None \notin Reasons
      /\ request.edges \in Nat /\ request.entities \in Nat
    BY GraphAssumption DEF Walks, Reasons
<1>2. ASSUME path.cut \/ ~Touches(r, e) PROVE next = path
    BY <1>2 DEF Inspect
<1>3. ASSUME NEW w, NEW v, HonestWalk(w, taken, {e}, R, request),
             v.entities = w.entities, v.edges = w.edges, v.queue = w.queue, v.reason # None
      PROVE  HonestWalk(v, taken, {e}, R, request)
    BY <1>3 DEF HonestWalk, Waiting
<1>4. ASSUME NEW w \in Walks(E, R), NEW reason \in Reasons
      PROVE  /\ Because(w, reason).reason # None
             /\ Because(w, reason).entities = w.entities
             /\ Because(w, reason).edges = w.edges
             /\ Because(w, reason).queue = w.queue
             /\ [Because(w, reason) EXCEPT !.cut = TRUE].reason # None
             /\ [Because(w, reason) EXCEPT !.cut = TRUE].entities = w.entities
             /\ [Because(w, reason) EXCEPT !.cut = TRUE].edges = w.edges
             /\ [Because(w, reason) EXCEPT !.cut = TRUE].queue = w.queue
    BY <1>1, <1>4 DEF Because, Walks
<1>5. /\ crossed \in Walks(E, R)
      /\ crossed.entities = path.entities /\ crossed.queue = path.queue
      /\ crossed.reason = path.reason /\ crossed.cut = path.cut
      /\ crossed.edges = path.edges \cup {r}
    BY DEF Walks
<1> HIDE DEF crossed
<1>6. ASSUME Cardinality(path.edges) < request.edges
      PROVE  HonestWalk(crossed, taken, {e}, R, request)
  <2>1. IsFiniteSet(path.edges) /\ Cardinality(path.edges) \in Nat
      BY FS_CardinalityType DEF HonestWalk
  <2>2. /\ IsFiniteSet(crossed.edges)
        /\ Cardinality(crossed.edges) <= request.edges
    <3>1. /\ IsFiniteSet(path.edges \cup {r})
          /\ Cardinality(path.edges \cup {r}) \in
                 {Cardinality(path.edges), Cardinality(path.edges) + 1}
        BY <2>1, FS_AddElement
    <3> QED
        BY <1>1, <1>5, <1>6, <2>1, <3>1
  <2> QED
      BY <1>5, <2>2 DEF HonestWalk, Waiting
<1>7. CASE path.cut \/ ~Touches(r, e)
    BY <1>2, <1>7 DEF HonestWalk, Leads
<1>8. CASE ~path.cut /\ Touches(r, e) /\ depth >= request.depth
  <2>1. other \notin path.entities => next = Because(path, "depth")
      BY <1>8 DEF Inspect
  <2>2. other \in path.entities => next = path
      BY <1>8 DEF Inspect
  <2>3. CASE other \notin path.entities
      BY <1>3, <1>4, <2>1, <2>3 DEF Reasons
  <2>4. CASE other \in path.entities
      BY <2>2, <2>4 DEF Leads
  <2> QED
      BY <2>3, <2>4
<1>9. CASE ~path.cut /\ Touches(r, e) /\ ~(depth >= request.depth)
              /\ Cardinality(path.edges) >= request.edges
  <2>1. next = [Because(path, "edges") EXCEPT !.cut = TRUE]
      BY <1>9 DEF Inspect
  <2>2. "edges" \in Reasons
      BY DEF Reasons
  <2>3. /\ next.reason # None /\ next.entities = path.entities
        /\ next.edges = path.edges /\ next.queue = path.queue
    <3> DEFINE v == [Because(path, "edges") EXCEPT !.cut = TRUE]
    <3>1. /\ v.reason # None /\ v.entities = path.entities
          /\ v.edges = path.edges /\ v.queue = path.queue
        BY <1>4, <2>2
    <3> HIDE DEF v
    <3> QED
        BY <2>1, <3>1 DEF v
  <2>4. HonestWalk(next, taken, {e}, R, request)
      BY <1>3, <2>3
  <2> QED
      BY <2>3, <2>4
<1>10. CASE ~path.cut /\ Touches(r, e) /\ ~(depth >= request.depth)
              /\ ~(Cardinality(path.edges) >= request.edges)
  <2>1. HonestWalk(crossed, taken, {e}, R, request)
    <3>1. Cardinality(path.edges) \in Nat
        BY FS_CardinalityType DEF HonestWalk
    <3> QED
        BY <1>1, <1>6, <1>10, <3>1
  <2>2. CASE other \in path.entities
    <3>1. next = crossed
        BY <1>10, <2>2 DEF Inspect, crossed
    <3> QED
        BY <1>5, <2>1, <2>2, <3>1 DEF Leads
  <2>3. CASE other \notin path.entities /\ Cardinality(path.entities) >= request.entities
    <3>1. next = Because(crossed, "entities")
        BY <1>10, <2>3 DEF Inspect, crossed
    <3> QED
        BY <1>3, <1>4, <1>5, <2>1, <3>1 DEF Reasons
  <2>4. CASE other \notin path.entities /\ ~(Cardinality(path.entities) >= request.entities)
    <3> DEFINE v == [crossed EXCEPT !.entities = @ \cup {other},
                                    !.queue = Append(@, <<other, depth + 1>>)]
    <3>1. next = v
        BY <1>10, <2>4 DEF Inspect, crossed
    <3>2. /\ v.entities = path.entities \cup {other} /\ v.edges = crossed.edges
          /\ v.queue = Append(path.queue, <<other, depth + 1>>)
          /\ v.reason = path.reason /\ v.cut = path.cut
        BY <1>5 DEF Walks
    <3> HIDE DEF v
    <3>3. other \in E /\ <<other, depth + 1>> \in E \X Nat /\ <<other, depth + 1>>[1] = other
      <4>1. other \in E
          BY NeighbourIsThere
      <4>2. depth + 1 \in Nat
          OBVIOUS
      <4> HIDE DEF other
      <4> QED
          BY <4>1, <4>2
    <3>4. Len(v.queue) = Len(path.queue) + 1 /\ Waiting(v) = Waiting(path) \cup {other}
      <4> DEFINE x == <<other, depth + 1>>
      <4>1. x \in E \X Nat /\ x[1] = other
          BY <3>3
      <4> HIDE DEF x
      <4>2. /\ Len(Append(path.queue, x)) = Len(path.queue) + 1
            /\ Queued(Append(path.queue, x)) = Queued(path.queue) \cup {x[1]}
          BY <1>1, <4>1, AppendWaits
      <4>3. v.queue = Append(path.queue, x)
          BY <3>2 DEF x
      <4> QED
          BY <4>1, <4>2, <4>3 DEF Waiting
    <3>5. /\ IsFiniteSet(path.entities) /\ Cardinality(path.entities) \in Nat
          /\ Len(path.queue) \in Nat /\ IsFiniteSet(v.entities)
          /\ Cardinality(v.entities) = Cardinality(path.entities) + 1
      <4>1. IsFiniteSet(path.entities) /\ Len(path.queue) \in Nat
          BY <1>1 DEF HonestWalk
      <4>2. /\ Cardinality(path.entities) \in Nat /\ IsFiniteSet(path.entities \cup {other})
            /\ Cardinality(path.entities \cup {other}) = Cardinality(path.entities) + 1
          BY <2>4, <4>1, FS_CardinalityType, FS_AddElement
      <4> QED
          BY <3>2, <4>1, <4>2
    <3>6. /\ Cardinality(v.entities) <= request.entities
          /\ Cardinality(v.entities) = taken + Len(v.queue)
        BY <1>1, <2>4, <3>4, <3>5 DEF HonestWalk
    <3>7. ASSUME NEW set, request.seeds \subseteq set, Within1(set, R)
          PROVE  v.entities \subseteq set
      <4>1. e \in set /\ path.entities \subseteq set
          BY <3>7 DEF HonestWalk
      <4>2. other \in set
          BY <1>10, <3>7, <4>1 DEF Within1
      <4> QED
          BY <3>2, <4>1, <4>2
    <3>8. ASSUME v.reason = None, NEW x \in v.entities \ (Waiting(v) \cup {e}), NEW s \in R
          PROVE  Leads(s, x, v.entities)
      <4>1. x \in path.entities \ (Waiting(path) \cup {e})
          BY <3>2, <3>4, <3>8
      <4>2. Leads(s, x, path.entities)
          BY <3>2, <3>8, <4>1 DEF HonestWalk
      <4> QED
          BY <3>2, <4>2 DEF Leads
    <3>9. /\ IsFiniteSet(v.edges) /\ Cardinality(v.edges) <= request.edges
          /\ request.seeds \cup Waiting(v) \subseteq v.entities
          /\ v.cut => v.reason # None
        BY <1>5, <2>1, <3>2, <3>4 DEF HonestWalk
    <3>10. HonestWalk(v, taken, {e}, R, request)
        BY <3>5, <3>6, <3>7, <3>8, <3>9 DEF HonestWalk
    <3> QED
        BY <3>1, <3>2, <3>10 DEF Leads
  <2> QED
      BY <2>2, <2>3, <2>4
<1> QED
    BY <1>7, <1>8, <1>9, <1>10

\* The first of the queue is taken out of it.
LEMMA TailWaits ==
    ASSUME NEW T, NEW queue \in Seq(T), queue # <<>>
    PROVE  /\ queue[1] \in T /\ Tail(queue) \in Seq(T) /\ Len(Tail(queue)) + 1 = Len(queue)
           /\ Queued(queue) = {queue[1][1]} \cup Queued(Tail(queue))
<1> DEFINE rest == Tail(queue)
<1>1. /\ queue[1] \in T /\ rest \in Seq(T) /\ Len(rest) + 1 = Len(queue)
      /\ Len(rest) \in Nat /\ DOMAIN queue = 1 .. Len(queue) /\ DOMAIN rest = 1 .. Len(rest)
      /\ \A i \in DOMAIN rest : rest[i] = queue[i + 1]
    OBVIOUS
<1> HIDE DEF rest
<1>2. ASSUME NEW i \in DOMAIN queue PROVE queue[i][1] \in {queue[1][1]} \cup Queued(rest)
  <2>1. i = 1 \/ (i - 1 \in DOMAIN rest /\ rest[i - 1] = queue[i])
      BY <1>1
  <2> QED
      BY <2>1 DEF Queued
<1>3. ASSUME NEW i \in DOMAIN rest PROVE rest[i][1] \in Queued(queue)
  <2>1. i + 1 \in DOMAIN queue /\ rest[i] = queue[i + 1]
      BY <1>1
  <2> QED
      BY <2>1 DEF Queued
<1>4. queue[1][1] \in Queued(queue)
    BY <1>1 DEF Queued
<1>5. Queued(queue) = {queue[1][1]} \cup Queued(rest)
    BY <1>2, <1>3, <1>4 DEF Queued
<1> QED
    BY <1>1, <1>5 DEF rest

\* All of the relations, in an order of theirs, leave nothing about the entity
\* that is not followed or given a reason for.
LEMMA InspectedIsHonest ==
    ASSUME NEW E, NEW R, NEW path \in Walks(E, R), NEW e \in path.entities, NEW depth \in Nat,
           NEW request \in Requests, NEW order \in Seq(R),
           \A r \in R : {r.source, r.target} \subseteq E,
           \A r \in R : \E i \in 1 .. Len(order) : order[i] = r,
           NEW taken \in Nat, HonestWalk(path, taken, {e}, R, request)
    PROVE  /\ Inspected(path, e, depth, request, order) \in Walks(E, R)
           /\ HonestWalk(Inspected(path, e, depth, request, order), taken, {}, R, request)
<1>1. e \in E
    BY DEF Walks
<1>2. PICK after : Inspections(after, E, R, path, e, depth, request, order)
    BY <1>1, InspectedHasRounds
<1> DEFINE n == Len(order)
           sound(i) == /\ HonestWalk(after[i], taken, {e}, R, request) /\ e \in after[i].entities
                       /\ after[i].reason = None =>
                              \A j \in 1 .. i : Leads(order[j], e, after[i].entities)
           S == {i \in 0 .. n : sound(i)}
<1>3. n \in Nat /\ \A i \in 1 .. n : order[i] \in R /\ i - 1 \in 0 .. n /\ i \in 0 .. n
    OBVIOUS
<1>4. sound(0)
    BY <1>2 DEF Inspections
<1>5. ASSUME NEW i \in 1 .. n, sound(i - 1) PROVE sound(i)
  <2>1. after[i - 1] \in Walks(E, R) /\ order[i] \in R
        /\ after[i] = Inspect(after[i - 1], e, depth, order[i], request)
      BY <1>2, <1>3 DEF Inspections
  <2>2. /\ HonestWalk(after[i], taken, {e}, R, request)
        /\ after[i - 1].entities \subseteq after[i].entities
        /\ after[i].reason = None =>
               after[i - 1].reason = None /\ Leads(order[i], e, after[i].entities)
    <3> DEFINE w == after[i - 1]
               r == order[i]
               next == after[i]
    <3>1. /\ w \in Walks(E, R) /\ r \in R /\ {r.source, r.target} \subseteq E
          /\ HonestWalk(w, taken, {e}, R, request) /\ e \in w.entities
          /\ next = Inspect(w, e, depth, r, request)
        BY <1>5, <2>1
    <3> HIDE DEF w, r, next
    <3>2. Follows(next, w, e, r, taken, R, request)
        BY <3>1, InspectIsHonest
    <3> QED
        BY <3>2 DEF w, r, next, Follows
  <2>3. ASSUME after[i].reason = None, NEW j \in 1 .. i
        PROVE  Leads(order[j], e, after[i].entities)
    <3>1. j = i \/ j \in 1 .. i - 1
        OBVIOUS
    <3> QED
        BY <1>5, <2>2, <2>3, <3>1 DEF Leads
  <2> QED
      BY <1>5, <2>2, <2>3
<1> HIDE DEF sound, n
<1>6. sound(n)
  <2>1. 0 \in S /\ \A i \in 1 .. n : i - 1 \in S => i \in S
      BY <1>3, <1>4, <1>5
  <2> HIDE DEF S
  <2>2. \A i \in 0 .. n : i \in S
      BY <1>3, <2>1, EveryRound, Zenon
  <2> QED
      BY <1>3, <2>2 DEF S
<1> DEFINE last == after[n]
<1>7. Inspected(path, e, depth, request, order) = last /\ last \in Walks(E, R)
  <2>1. /\ after \in [0 .. n -> Walks(E, R)]
        /\ Inspected(path, e, depth, request, order) = after[n]
      BY <1>2, Zenon DEF n, Inspections
  <2>2. n \in 0 .. n
      BY <1>3
  <2> QED
      BY <2>1, <2>2
<1>8. HonestWalk(last, taken, {e}, R, request) /\ e \in last.entities
    BY <1>6 DEF sound
<1>9. last.reason = None => \A r \in R : Leads(r, e, last.entities)
    BY <1>6 DEF sound, n
<1> HIDE DEF last
<1>10. HonestWalk(last, taken, {}, R, request)
    BY <1>8, <1>9 DEF HonestWalk
<1> QED
    BY <1>7, <1>10

\* A round of the outer loop, until the queue is empty or the edges are too many.
LEMMA AdvanceIsHonest ==
    ASSUME NEW E, NEW R, NEW path \in Walks(E, R), NEW request \in Requests,
           NEW order \in Seq(R), \A r \in R : {r.source, r.target} \subseteq E,
           \A r \in R : \E i \in 1 .. Len(order) : order[i] = r,
           NEW taken \in Nat, HonestWalk(path, taken, {}, R, request),
           path.queue # <<>>, path.reason # "edges"
    PROVE  HonestWalk(Advance(path, request, order), taken + 1, {}, R, request)
<1> DEFINE e == path.queue[1][1]
           depth == path.queue[1][2]
           v == [path EXCEPT !.queue = Tail(@), !.cut = FALSE]
<1>1. /\ path.queue \in Seq(E \X Nat)
      /\ path.queue[1] \in E \X Nat /\ Tail(path.queue) \in Seq(E \X Nat)
      /\ Len(Tail(path.queue)) + 1 = Len(path.queue)
      /\ Waiting(path) = {e} \cup Queued(Tail(path.queue))
    BY TailWaits DEF Walks, Waiting
<1>2. e \in path.entities /\ depth \in Nat
    BY <1>1 DEF HonestWalk
<1>3. /\ v \in Walks(E, R)
      /\ v.entities = path.entities /\ v.edges = path.edges /\ v.reason = path.reason
      /\ v.cut = FALSE /\ v.queue = Tail(path.queue)
    BY <1>1 DEF Walks
<1>4. Advance(path, request, order) = Inspected(v, e, depth, request, order)
    BY DEF Advance
<1> HIDE DEF v, e, depth
<1>5. Cardinality(v.entities) = (taken + 1) + Len(v.queue)
  <2> DEFINE rest == Len(Tail(path.queue))
             size == Cardinality(v.entities)
             full == Len(path.queue)
  <2>1. rest \in Nat /\ rest + 1 = full /\ size = taken + full
      BY <1>1, <1>3 DEF HonestWalk
  <2>2. Len(v.queue) = rest
      BY <1>3
  <2> HIDE DEF rest, size, full
  <2>3. size = (taken + 1) + rest
      BY <2>1
  <2> QED
      BY <2>2, <2>3 DEF size
<1>6. Waiting(v) = Queued(Tail(path.queue))
    BY <1>3 DEF Waiting
<1>7. HonestWalk(v, taken + 1, {e}, R, request)
    BY <1>1, <1>3, <1>5, <1>6 DEF HonestWalk
<1> QED
    BY <1>2, <1>3, <1>4, <1>7, InspectedIsHonest

\* A round of the outer loop leads from a walk to a walk.
LEMMA AdvanceIsTyped ==
    ASSUME NEW E, NEW R, NEW path \in Walks(E, R), NEW request \in Requests,
           NEW order \in Seq(R), \A r \in R : {r.source, r.target} \subseteq E
    PROVE  Advance(path, request, order) \in Walks(E, R)
<1>1. CASE path.queue = <<>> \/ path.reason = "edges"
    BY <1>1 DEF Advance
<1>2. CASE path.queue # <<>> /\ path.reason # "edges"
  <2> DEFINE e == path.queue[1][1]
             depth == path.queue[1][2]
             v == [path EXCEPT !.queue = Tail(@), !.cut = FALSE]
  <2>1. path.queue[1] \in E \X Nat /\ Tail(path.queue) \in Seq(E \X Nat)
      BY <1>2, TailWaits DEF Walks
  <2>2. v \in Walks(E, R) /\ e \in E /\ depth \in Nat
      BY <2>1 DEF Walks
  <2>3. Advance(path, request, order) = Inspected(v, e, depth, request, order)
      BY <1>2 DEF Advance
  <2> HIDE DEF v, e, depth
  <2>4. PICK after : Inspections(after, E, R, v, e, depth, request, order)
      BY <2>2, InspectedHasRounds
  <2> QED
      BY <2>3, <2>4 DEF Inspections
<1> QED
    BY <1>1, <1>2

\* An order of a finite set has all of it.
LEMMA OrderHasAll ==
    ASSUME NEW S, IsFiniteSet(S), NEW order \in SetToSeqs(S)
    PROVE  /\ order \in Seq(S) /\ Len(order) = Cardinality(S) /\ Cardinality(S) \in Nat
           /\ \A x \in S : \E i \in 1 .. Len(order) : order[i] = x
<1>1. /\ Cardinality(S) \in Nat /\ order \in [1 .. Cardinality(S) -> S]
      /\ \A i, j \in 1 .. Cardinality(S) : i # j => order[i] # order[j]
    BY FS_CardinalityType DEF SetToSeqs
<1>2. order \in Seq(S) /\ Len(order) = Cardinality(S)
    BY <1>1
<1>3. order \in Surjection(1 .. Cardinality(S), S)
  <2>1. order \in Injection(1 .. Cardinality(S), S)
      BY <1>1 DEF Injection, IsInjective
  <2>2. Cardinality(1 .. Cardinality(S)) = Cardinality(S) /\ IsFiniteSet(1 .. Cardinality(S))
      BY <1>1, FS_Interval
  <2> QED
      BY <1>1, <2>1, <2>2, FS_Injection
<1>4. \A x \in S : \E i \in 1 .. Cardinality(S) : order[i] = x
    BY <1>1, <1>3 DEF Surjection
<1> QED
    BY <1>1, <1>2, <1>4

\* SetToSeq() gives one.
LEMMA SetToSeqIsAnOrder ==
    ASSUME NEW S, IsFiniteSet(S)
    PROVE  SetToSeq(S) \in SetToSeqs(S)
<1>1. PICK f : f \in Bijection(1 .. Cardinality(S), S)
    BY FS_CardinalityType DEF ExistsBijection
<1>2. f \in [1 .. Cardinality(S) -> S] /\ IsInjective(f)
    BY <1>1 DEF Bijection, Injection, IsInjective
<1>3. SetToSeq(S) \in [1 .. Cardinality(S) -> S] /\ IsInjective(SetToSeq(S))
    BY <1>2, Zenon DEF SetToSeq
<1> QED
    BY <1>3 DEF SetToSeqs, IsInjective

\* Where traverse_graph() starts: with the seeds in the queue.
WalkFrom(request) ==
    [entities |-> request.seeds, edges |-> {}, reason |-> None, cut |-> FALSE,
     queue |-> SetToSeq({<<s, 0>> : s \in request.seeds})]

\* The seeds are all in the queue, and nothing has been taken out of it.
LEMMA StartIsHonest ==
    ASSUME NEW E, NEW R, NEW request \in Requests, request.seeds \subseteq E,
           IsFiniteSet(request.seeds), Cardinality(request.seeds) <= request.entities
    PROVE  /\ WalkFrom(request) \in Walks(E, R)
           /\ HonestWalk(WalkFrom(request), 0, {}, R, request)
<1> DEFINE seeds == request.seeds
           starts == {<<s, 0>> : s \in seeds}
           queue == SetToSeq(starts)
           path == WalkFrom(request)
<1>1. IsFiniteSet(starts) /\ Cardinality(starts) = Cardinality(seeds)
  <2> DEFINE f == [s \in seeds |-> <<s, 0>>]
  <2>1. f \in Bijection(seeds, starts)
    <3>1. f \in [seeds -> starts] /\ \A s, t \in seeds : f[s] = f[t] => s = t
        OBVIOUS
    <3>2. \A x \in starts : \E s \in seeds : f[s] = x
        OBVIOUS
    <3> HIDE DEF f, starts
    <3> QED
        BY <3>1, <3>2 DEF Bijection, Injection, Surjection, IsInjective
  <2>2. ExistsBijection(seeds, starts)
      BY <2>1, Zenon DEF ExistsBijection
  <2> HIDE DEF starts
  <2> QED
      BY <2>2, FS_Bijection
<1>2. /\ queue \in Seq(starts) /\ Len(queue) = Cardinality(seeds) /\ Cardinality(seeds) \in Nat
      /\ \A x \in starts : \E i \in 1 .. Len(queue) : queue[i] = x
  <2> HIDE DEF starts, queue
  <2>1. queue \in SetToSeqs(starts)
      BY <1>1, SetToSeqIsAnOrder DEF queue
  <2> QED
      BY <1>1, <2>1, OrderHasAll
<1>3. starts \subseteq E \X Nat /\ \A x \in starts : x[1] \in seeds
    OBVIOUS
<1>4. \A s \in seeds : <<s, 0>> \in starts /\ <<s, 0>>[1] = s
    OBVIOUS
<1>5. /\ path.entities = seeds /\ path.edges = {} /\ path.reason = None /\ path.cut = FALSE
      /\ path.queue = queue
      /\ path = [entities |-> seeds, edges |-> {}, reason |-> None, cut |-> FALSE, queue |-> queue]
    BY DEF WalkFrom
<1> HIDE DEF starts, queue, path
<1>6. queue \in Seq(E \X Nat)
    BY <1>2, <1>3
<1>7. Queued(queue) = seeds
  <2>1. ASSUME NEW s \in seeds PROVE s \in Queued(queue)
    <3>1. PICK i \in 1 .. Len(queue) : queue[i] = <<s, 0>>
        BY <1>2, <1>4
    <3> QED
        BY <1>2, <1>4, <3>1 DEF Queued
  <2>2. \A i \in DOMAIN queue : queue[i][1] \in seeds
      BY <1>2, <1>3
  <2> QED
      BY <2>1, <2>2 DEF Queued
<1>8. path \in Walks(E, R)
    BY <1>5, <1>6 DEF Walks, Reasons
<1>9. HonestWalk(path, 0, {}, R, request)
  <2>1. IsFiniteSet({}) /\ Cardinality({}) = 0 /\ request.edges \in Nat
      BY FS_EmptySet, GraphAssumption
  <2>2. Waiting(path) = seeds
      BY <1>5, <1>7 DEF Waiting
  <2>3. Cardinality(path.entities) = 0 + Len(path.queue)
      BY <1>2, <1>5
  <2>4. IsFiniteSet(path.edges) /\ Cardinality(path.edges) <= request.edges
      BY <1>5, <2>1
  <2>5. \A e \in path.entities \ (Waiting(path) \cup {}) : \A r \in R : Leads(r, e, path.entities)
      BY <1>5, <2>2
  <2>6. path.entities = request.seeds /\ path.cut = FALSE
      BY <1>5
  <2> HIDE DEF seeds
  <2> QED
      BY <1>5, <2>2, <2>3, <2>4, <2>5, <2>6 DEF HonestWalk
<1> QED
    BY <1>8, <1>9 DEF path

\* The walks of the outer loop.
Rounds(after, n, E, R, request, order) ==
    /\ after \in [0 .. n -> Walks(E, R)]
    /\ after[0] = WalkFrom(request)
    /\ \A i \in 1 .. n : after[i] = Advance(after[i - 1], request, order)

\* There are as many of them as entities, and the last is the answer.
LEMMA TraverseHasRounds ==
    ASSUME NEW E, NEW R, NEW request \in Requests, WalkFrom(request) \in Walks(E, R),
           NEW order \in Seq(R), \A r \in R : {r.source, r.target} \subseteq E,
           Cardinality(entities) \in Nat, ~(Cardinality(request.seeds) > request.entities)
    PROVE  \E after :
               /\ Rounds(after, Cardinality(entities), E, R, request, order)
               /\ Traverse(request, order) = after[Cardinality(entities)]
<1> DEFINE n == Cardinality(entities)
           X == Walks(E, R)
           start == WalkFrom(request)
           body(w) == Advance(w, request, order)
           round == [i \in 1 .. n |-> [w \in X |-> body(w)]]
           loop(f) == [i \in 0 .. n |-> IF i = 0 THEN start ELSE body(f[i - 1])]
           after == CHOOSE f : f = loop(f)
<1>1. n \in Nat /\ start \in X
    OBVIOUS
<1>2. \A w \in X : body(w) \in X
    BY AdvanceIsTyped
<1>3. Traverse(request, order) = after[n]
    BY DEF Traverse, WalkFrom
<1> HIDE DEF X, body, n, start
<1>4. round \in [1 .. n -> [X -> X]]
    BY <1>2
<1>5. PICK f : LoopStates(f, n, X, start, round)
  <2> HIDE DEF round
  <2> QED
      BY <1>1, <1>4, LoopHasStates
<1>6. f = loop(f)
  <2>1. \A i \in 1 .. n : i \in 0 .. n /\ i - 1 \in 0 .. n
      BY <1>1
  <2>2. \A i \in 1 .. n : round[i][f[i - 1]] = body(f[i - 1])
      BY <1>5, <2>1 DEF LoopStates
  <2> HIDE DEF round
  <2>3. \A i \in 0 .. n : f[i] = IF i = 0 THEN start ELSE body(f[i - 1])
      BY <1>1, <1>5, <2>1, <2>2 DEF LoopStates
  <2> QED
      BY <1>5, <2>3 DEF LoopStates
<1> HIDE DEF round
<1>7. after = loop(after)
  <2> HIDE DEF loop
  <2> QED
      BY <1>6, Zenon DEF after
<1> HIDE DEF after
<1>8. after[0] = start /\ \A i \in 1 .. n : after[i] = body(after[i - 1])
    BY <1>1, <1>7
<1>9. after \in [0 .. n -> X]
  <2> DEFINE S == {i \in 0 .. n : after[i] \in X}
  <2>1. 0 \in S /\ \A i \in 1 .. n : i - 1 \in S => i \in S
      BY <1>1, <1>2, <1>8
  <2> HIDE DEF S
  <2>2. \A i \in 0 .. n : i \in S
      BY <1>1, <2>1, EveryRound, Zenon
  <2>3. \A i \in 0 .. n : after[i] \in X
      BY <2>2 DEF S
  <2> QED
      BY <1>7, <2>3
<1>10. Rounds(after, n, E, R, request, order)
    BY <1>8, <1>9 DEF X, body, start, Rounds
<1> QED
    BY <1>3, <1>10 DEF n

\* There are finitely many entities and relations at any time.
GraphIsFinite == IsFiniteSet(entities) /\ IsFiniteSet(DOMAIN relations)

HonestResult(found, request, R) ==
    /\ Cardinality(found.edges) <= request.edges
    /\ Cardinality(found.entities) <= request.entities
    /\ \A set \in SUBSET entities :
           request.seeds \subseteq set /\ Within1(set, R) => found.entities \subseteq set
    /\ found.reason = None =>
           /\ found.entities \in SUBSET entities /\ request.seeds \subseteq found.entities
           /\ Within1(found.entities, R)

\* Of a finite set, any fewer.
LEMMA SomeAreAsMany ==
    ASSUME NEW S, IsFiniteSet(S), NEW k \in Nat, k <= Cardinality(S)
    PROVE  \E T \in SUBSET S : Cardinality(T) = k
<1> DEFINE n == Cardinality(S)
<1>1. n \in Nat /\ ExistsBijection(1 .. n, S)
    BY FS_CardinalityType
<1>2. PICK f \in Bijection(1 .. n, S) : TRUE
    BY <1>1 DEF ExistsBijection
<1> DEFINE T == {f[i] : i \in 1 .. k}
           g == [i \in 1 .. k |-> f[i]]
<1>3. \A i \in 1 .. k : i \in 1 .. n
    BY <1>1
<1>4. /\ f \in [1 .. n -> S]
      /\ \A i, j \in 1 .. n : f[i] = f[j] => i = j
    BY <1>2 DEF Bijection, Injection, IsInjective
<1>5. g \in Surjection(1 .. k, T) /\ g \in Injection(1 .. k, T)
    BY <1>3, <1>4 DEF Surjection, Injection, IsInjective
<1>6. IsFiniteSet(1 .. k) /\ Cardinality(1 .. k) = k
    BY FS_Interval
<1>7. T \in SUBSET S
    BY <1>3, <1>4
<1> HIDE DEF T, g
<1>8. Cardinality(T) = k
    BY <1>5, <1>6, FS_Surjection
<1> QED
    BY <1>7, <1>8

\* The rounds suffice: every one takes an entity out of the queue, and there are
\* no more entities than rounds.
LEMMA TraverseIsHonest ==
    ASSUME GraphIsFinite, RelationRecords, NEW request \in Requests,
           request.seeds \subseteq entities, NEW order \in SetToSeqs(Walkable(request))
    PROVE  HonestResult(Traverse(request, order), request, Walkable(request))
<1> DEFINE E == entities
           R == Walkable(request)
           n == Cardinality(E)
           found == Traverse(request, order)
<1>1. /\ IsFiniteSet(E) /\ n \in Nat /\ IsFiniteSet(request.seeds)
      /\ Cardinality(request.seeds) \in Nat /\ request.entities \in Nat /\ request.edges \in Nat
    BY FS_CardinalityType, FS_Subset, GraphAssumption DEF GraphIsFinite
<1>2. IsFiniteSet(R) /\ \A r \in R : {r.source, r.target} \subseteq E
    BY FS_Subset DEF Walkable, GraphIsFinite, RelationRecords
<1> HIDE DEF R
<1>3. order \in Seq(R) /\ \A r \in R : \E i \in 1 .. Len(order) : order[i] = r
    BY <1>2, OrderHasAll DEF R
<1>4. CASE Cardinality(request.seeds) > request.entities
  <2> DEFINE k == request.entities
             first == CHOOSE T \in SUBSET request.seeds : Cardinality(T) = k
  <2>1. /\ found.entities = first /\ found.edges = {} /\ found.reason = "entities"
        /\ None # "entities"
      BY <1>4, GraphAssumption DEF Traverse
  <2>2. first \subseteq request.seeds /\ Cardinality(first) = k
    <3>1. \E T \in SUBSET request.seeds : Cardinality(T) = k
        BY <1>1, <1>4, SomeAreAsMany
    <3> HIDE DEF k
    <3> QED
        BY <3>1, Zenon
  <2>3. Cardinality({}) = 0
      BY FS_EmptySet
  <2> HIDE DEF found, first
  <2> QED
      BY <1>1, <2>1, <2>2, <2>3 DEF HonestResult, found, R
<1>5. CASE ~(Cardinality(request.seeds) > request.entities)
  <2>1. Cardinality(request.seeds) <= request.entities
      BY <1>1, <1>5
  <2>2. WalkFrom(request) \in Walks(E, R) /\ HonestWalk(WalkFrom(request), 0, {}, R, request)
      BY <1>1, <2>1, StartIsHonest
  <2>3. PICK after : Rounds(after, n, E, R, request, order) /\ found = after[n]
      BY <1>1, <1>2, <1>3, <1>5, <2>2, TraverseHasRounds
  <2> DEFINE over(w) == w.queue = <<>> \/ w.reason = "edges"
             sound(i) ==
                 \E taken \in Nat :
                     /\ HonestWalk(after[i], taken, {}, R, request)
                     /\ taken = i \/ over(after[i])
             S == {i \in 0 .. n : sound(i)}
  <2>4. \A i \in 1 .. n : /\ i - 1 \in 0 .. n /\ i \in 0 .. n
                         /\ after[i - 1] \in Walks(E, R)
                         /\ after[i] = Advance(after[i - 1], request, order)
      BY <1>1, <2>3 DEF Rounds
  <2>5. sound(0)
      BY <2>2, <2>3 DEF Rounds
  <2>6. ASSUME NEW i \in 1 .. n, sound(i - 1) PROVE sound(i)
    <3> DEFINE w == after[i - 1]
    <3>1. PICK taken \in Nat :
              HonestWalk(w, taken, {}, R, request) /\ (taken = i - 1 \/ over(w))
        BY <2>6
    <3>2. CASE over(w)
      <4>1. after[i] = w
          BY <2>4, <3>2 DEF Advance
      <4> QED
          BY <3>1, <3>2, <4>1
    <3>3. CASE ~over(w)
      <4>1. w \in Walks(E, R) /\ after[i] = Advance(w, request, order)
          BY <2>4
      <4> HIDE DEF w
      <4>2. w.queue # <<>> /\ w.reason # "edges"
          BY <3>3
      <4>3. HonestWalk(Advance(w, request, order), taken + 1, {}, R, request)
          BY <1>2, <1>3, <3>1, <4>1, <4>2, AdvanceIsHonest
      <4>4. taken + 1 = i /\ taken + 1 \in Nat
          BY <3>1, <3>3
      <4> QED
          BY <4>1, <4>3, <4>4
    <3> QED
        BY <3>2, <3>3
  <2> HIDE DEF sound
  <2>7. sound(n)
    <3>1. 0 \in S /\ \A i \in 1 .. n : i - 1 \in S => i \in S
        BY <1>1, <2>4, <2>5, <2>6
    <3> HIDE DEF S
    <3>2. \A i \in 0 .. n : i \in S
        BY <1>1, <3>1, EveryRound, Zenon
    <3> QED
        BY <1>1, <3>2 DEF S
  <2>8. PICK taken \in Nat : HonestWalk(found, taken, {}, R, request) /\ (taken = n \/ over(found))
      BY <2>3, <2>7 DEF sound
  <2>9. found \in Walks(E, R)
      BY <1>1, <2>3 DEF Rounds
  <2> HIDE DEF found
  <2>10. found.reason # None \/ found.queue = <<>>
    <3>1. CASE over(found)
        BY <3>1, GraphAssumption
    <3>2. CASE taken = n
      <4> DEFINE size == Cardinality(found.entities)
                 length == Len(found.queue)
      <4>1. size <= n /\ size \in Nat
          BY <1>1, <2>9, FS_Subset, FS_CardinalityType DEF Walks
      <4>2. length \in Nat /\ size = taken + length /\ found.queue \in Seq(E \X Nat)
          BY <2>8, <2>9 DEF Walks, HonestWalk
      <4> HIDE DEF size, length, n
      <4>3. length = 0
          BY <3>2, <4>1, <4>2
      <4> QED
          BY <4>2, <4>3 DEF length
    <3> QED
        BY <2>8, <3>1, <3>2
  <2>11. ASSUME found.reason = None PROVE Within1(found.entities, R)
    <3>1. Waiting(found) = {}
        BY <2>10, <2>11 DEF Waiting, Queued
    <3>2. \A e \in found.entities : \A r \in R : Leads(r, e, found.entities)
        BY <2>8, <2>11, <3>1 DEF HonestWalk
    <3> QED
        BY <3>2 DEF Leads, Within1
  <2>12. /\ Cardinality(found.edges) <= request.edges
         /\ Cardinality(found.entities) <= request.entities
         /\ request.seeds \subseteq found.entities /\ found.entities \subseteq E
         /\ \A set : request.seeds \subseteq set /\ Within1(set, R) => found.entities \subseteq set
      BY <2>8, <2>9 DEF HonestWalk, Walks
  <2>13. HonestResult(found, request, R)
      BY <2>11, <2>12 DEF HonestResult
  <2> QED
      BY <2>13 DEF found, R
<1> QED
    BY <1>4, <1>5

\* An entity or a relation is added at a time.
LEMMA GraphStepKeepsFinite ==
    ASSUME GraphIsFinite, GraphNext
    PROVE  GraphIsFinite'
<1>1. ASSUME UNCHANGED <<entities, relations>> PROVE GraphIsFinite'
    BY <1>1 DEF GraphIsFinite
<1>2. ASSUME NEW e \in Entities, CreateEntity(e) PROVE GraphIsFinite'
    BY <1>2, FS_AddElement DEF CreateEntity, GraphIsFinite
<1>3. ASSUME NEW e \in Entities, NEW t \in Entities, NEW name, NEW v,
             CreateEntityRelation(e, name, t, v)
      PROVE  GraphIsFinite'
  <2>1. PICK id, edge : relations' = With(relations, id, edge)
      BY <1>3 DEF CreateEntityRelation
  <2>2. DOMAIN relations' = DOMAIN relations \cup {id} /\ entities' = entities
      BY <1>3, <2>1 DEF With, CreateEntityRelation
  <2> QED
      BY <2>2, FS_AddElement DEF GraphIsFinite
<1>4. CASE \E s \in Scopes, t \in {e.type : e \in Entities} \ BuiltIn : DefineEntityType(s, t)
    BY <1>1, <1>4 DEF DefineEntityType
<1>5. CASE \E d \in Definitions : DefineRelationType(d)
    BY <1>1, <1>5 DEF DefineRelationType
<1>6. CASE \E e \in Entities, l \in Labels, v \in Validities : AddEntityAlias(e, l, v)
    BY <1>1, <1>6 DEF AddEntityAlias
<1>7. CASE \E e \in Entities, targets \in SUBSET Entities, time \in Times :
               RecordEntityLineage(e, targets, time)
    BY <1>1, <1>7 DEF RecordEntityLineage
<1> QED
    BY <1>2, <1>3, <1>4, <1>5, <1>6, <1>7 DEF GraphNext

\* Whatever the graph, the order of its relations and the budgets: traverse_graph()
\* keeps them, reports what the seeds reach and nothing else, and leaves nothing out
\* without a reason that it gives.
THEOREM TraversalsAreHonest == KnowledgeSpec => []TraversalIsHonest
<1>1. KnowledgeInit => GraphIsFinite
    BY FS_EmptySet DEF KnowledgeInit, GraphInit, GraphIsFinite
<1>2. GraphIsFinite /\ [KnowledgeNext]_<<vars, graphVars>> => GraphIsFinite'
  <2>1. GraphIsFinite /\ UNCHANGED graphVars => GraphIsFinite'
      BY DEF graphVars, GraphIsFinite
  <2> QED
      BY <2>1, GraphStepKeepsFinite DEF KnowledgeNext
<1>3. GraphIsFinite /\ GraphTypeOK => TraversalIsHonest
  <2> SUFFICES ASSUME GraphIsFinite, GraphTypeOK, NEW request \in Requests,
                      request.seeds \subseteq entities,
                      NEW order \in SetToSeqs(Walkable(request))
               PROVE  LET walkable == Walkable(request)
                          closed == {set \in SUBSET entities :
                                        request.seeds \subseteq set /\ Within1(set, walkable)}
                          found == Traverse(request, order)
                      IN  /\ Cardinality(found.edges) <= request.edges
                          /\ Cardinality(found.entities) <= request.entities
                          /\ \A set \in closed : found.entities \subseteq set
                          /\ found.reason = None => found.entities \in closed
      BY DEF TraversalIsHonest
  <2>1. HonestResult(Traverse(request, order), request, Walkable(request))
      BY TraverseIsHonest DEF GraphTypeOK
  <2> QED
      BY <2>1 DEF HonestResult
<1> QED
    BY <1>1, <1>2, <1>3, GraphTypeCorrect, PTL DEF KnowledgeSpec

-----------------------------------------------------------------------------
\* Contexts, as they are composed of the results of a recall.

\* The sums that estimate_tokens() goes through.
Sums(sum, words) ==
    /\ sum \in [0 .. Len(words) -> Nat]
    /\ sum[0] = 0 /\ \A i \in 1 .. Len(words) : sum[i] = sum[i - 1] + words[i]
    /\ Tokens(words) = sum[Len(words)]

\* There are some.
LEMMA TokensHasSums ==
    ASSUME NEW words \in Seq(Nat)
    PROVE  \E sum : Sums(sum, words)
<1> DEFINE n == Len(words)
           round == [i \in 1 .. n |-> [x \in Nat |-> x + words[i]]]
           loop(f) == [i \in 0 .. n |-> IF i = 0 THEN 0 ELSE f[i - 1] + words[i]]
           sum == CHOOSE f : f = loop(f)
<1>1. n \in Nat /\ \A i \in 1 .. n : words[i] \in Nat
    OBVIOUS
<1>2. Tokens(words) = sum[n]
    BY DEF Tokens
<1> HIDE DEF n
<1>3. round \in [1 .. n -> [Nat -> Nat]]
    BY <1>1
<1>4. PICK f : LoopStates(f, n, Nat, 0, round)
  <2> HIDE DEF round
  <2> QED
      BY <1>1, <1>3, LoopHasStates
<1>5. f = loop(f)
  <2>1. \A i \in 1 .. n : i \in 0 .. n /\ i - 1 \in 0 .. n /\ f[i - 1] \in Nat
      BY <1>1, <1>4 DEF LoopStates
  <2>2. \A i \in 1 .. n : round[i][f[i - 1]] = f[i - 1] + words[i]
      BY <2>1
  <2> HIDE DEF round
  <2>3. \A i \in 0 .. n : f[i] = IF i = 0 THEN 0 ELSE f[i - 1] + words[i]
      BY <1>1, <1>4, <2>1, <2>2 DEF LoopStates
  <2> QED
      BY <1>4, <2>3 DEF LoopStates
<1> HIDE DEF round
<1>6. sum = loop(sum)
  <2> HIDE DEF loop
  <2> QED
      BY <1>5, Zenon DEF sum
<1> HIDE DEF sum
<1>7. sum[0] = 0 /\ \A i \in 1 .. n : sum[i] = sum[i - 1] + words[i]
    BY <1>1, <1>6
<1>8. sum \in [0 .. n -> Nat]
  <2> DEFINE S == {i \in 0 .. n : sum[i] \in Nat}
  <2>1. 0 \in S /\ \A i \in 1 .. n : i - 1 \in S => i \in S
    <3>1. 0 \in S
        BY <1>1, <1>7
    <3>2. ASSUME NEW i \in 1 .. n, i - 1 \in S PROVE i \in S
      <4>1. sum[i - 1] \in Nat /\ words[i] \in Nat /\ sum[i] = sum[i - 1] + words[i]
          BY <1>1, <1>7, <3>2
      <4> QED
          BY <4>1
    <3> QED
        BY <3>1, <3>2
  <2> HIDE DEF S
  <2>2. \A i \in 0 .. n : i \in S
      BY <1>1, <2>1, EveryRound, Zenon
  <2>3. \A i \in 0 .. n : sum[i] \in Nat
      BY <2>2 DEF S
  <2> QED
      BY <1>6, <2>3
<1> QED
    BY <1>2, <1>7, <1>8 DEF n, Sums

\* A text without words costs nothing, and a word more costs what it costs.
LEMMA TokensAreSummed ==
    /\ Tokens(<<>>) = 0
    /\ \A words \in Seq(Nat) : Tokens(words) \in Nat
    /\ \A words \in Seq(Nat), x \in Nat : Tokens(Append(words, x)) = Tokens(words) + x
<1>1. Tokens(<<>>) = 0
  <2>1. <<>> \in Seq(Nat) /\ Len(<<>>) = 0
      OBVIOUS
  <2>2. PICK sum : Sums(sum, <<>>)
      BY <2>1, TokensHasSums
  <2> QED
      BY <2>1, <2>2 DEF Sums
<1>2. ASSUME NEW words \in Seq(Nat) PROVE Tokens(words) \in Nat
  <2>1. PICK sum : Sums(sum, words)
      BY TokensHasSums
  <2>2. Len(words) \in 0 .. Len(words)
      OBVIOUS
  <2> QED
      BY <2>1, <2>2 DEF Sums
<1>3. ASSUME NEW words \in Seq(Nat), NEW x \in Nat
      PROVE  Tokens(Append(words, x)) = Tokens(words) + x
  <2> DEFINE longer == Append(words, x)
             n == Len(words)
  <2>1. /\ longer \in Seq(Nat) /\ Len(longer) = n + 1 /\ n \in Nat
        /\ longer[n + 1] = x /\ \A i \in 1 .. n : longer[i] = words[i]
      OBVIOUS
  <2> HIDE DEF longer
  <2>2. PICK f : Sums(f, words)
      BY TokensHasSums
  <2>3. PICK g : Sums(g, longer)
      BY <2>1, TokensHasSums
  <2> HIDE DEF n
  <2>4. /\ f[0] = 0 /\ \A i \in 1 .. n : f[i] = f[i - 1] + words[i]
        /\ g[0] = 0 /\ \A i \in 1 .. n + 1 : g[i] = g[i - 1] + longer[i]
        /\ Tokens(words) = f[n] /\ Tokens(longer) = g[n + 1]
      BY <2>1, <2>2, <2>3 DEF Sums, n
  <2> DEFINE S == {i \in 0 .. n : f[i] = g[i]}
  <2>5. 0 \in S /\ \A i \in 1 .. n : i - 1 \in S => i \in S
      BY <2>1, <2>4
  <2> HIDE DEF S
  <2>6. \A i \in 0 .. n : i \in S
      BY <2>1, <2>5, EveryRound, Zenon
  <2>7. f[n] = g[n]
      BY <2>1, <2>6 DEF S
  <2>8. g[n + 1] = g[n] + x
    <3>1. n + 1 \in 1 .. n + 1 /\ (n + 1) - 1 = n
        BY <2>1
    <3> QED
        BY <2>1, <2>4, <3>1
  <2> QED
      BY <2>4, <2>7, <2>8 DEF longer
<1> QED
    BY <1>1, <1>2, <1>3

\* The greatest of some numbers up to n.
LEMMA MaxIsGreatest ==
    ASSUME NEW n \in Nat, NEW S \in SUBSET (0 .. n), S # {}
    PROVE  Max(S) \in S /\ \A i \in S : i <= Max(S)
<1> DEFINE T == {n - i : i \in S}
<1>1. T \in SUBSET Nat /\ T # {}
  <2>1. \A i \in S : i \in 0 .. n
      OBVIOUS
  <2>2. \A i \in S : n - i \in Nat
      BY <2>1
  <2> QED
      BY <2>2
<1> HIDE DEF T
<1>2. PICK least \in T : \A t \in T : least <= t
    BY <1>1, MinIsLeast, Zenon
<1>3. PICK m \in S : least = n - m
    BY <1>2 DEF T
<1>4. \A i \in S : n - i \in T
    BY DEF T
<1>5. \A i \in S : n - m <= n - i
    BY <1>2, <1>3, <1>4
<1>6. \A i \in S : m >= i
    BY <1>5
<1>7. Max(S) \in S /\ \A i \in S : Max(S) >= i
    BY <1>6, Zenon DEF Max
<1> QED
    BY <1>7

\* What fits costs no more than is left.
LEMMA FittingFits ==
    ASSUME NEW words \in Seq(Nat), NEW budget \in Nat
    PROVE  /\ Fitting(words, budget) \in Seq(Nat)
           /\ Tokens(Fitting(words, budget)) \in 0 .. budget
<1> DEFINE n == Len(words)
           fits(k) == Tokens(SubSeq(words, 1, k)) <= budget
           N == {k \in 0 .. n : \A j \in 0 .. k : fits(j)}
<1>1. n \in Nat
    OBVIOUS
<1>2. fits(0)
  <2>1. SubSeq(words, 1, 0) = <<>>
      OBVIOUS
  <2>2. Tokens(SubSeq(words, 1, 0)) = 0
      BY <2>1, TokensAreSummed, Zenon
  <2> QED
      BY <2>2
<1>3. Fitting(words, budget) = SubSeq(words, 1, Max(N))
    BY DEF Fitting
<1>4. N \in SUBSET (0 .. n) /\ N # {}
  <2> HIDE DEF fits
  <2>1. \A j \in 0 .. 0 : j = 0
      OBVIOUS
  <2>2. 0 \in N
      BY <1>1, <1>2, <2>1
  <2> QED
      BY <2>2
<1>5. Max(N) \in N
  <2> HIDE DEF N, n
  <2> QED
      BY <1>1, <1>4, MaxIsGreatest
<1>6. Max(N) \in 0 .. n /\ fits(Max(N))
  <2> HIDE DEF fits
  <2> DEFINE k == Max(N)
  <2>1. k \in N
      BY <1>5
  <2> HIDE DEF k
  <2>2. k \in 0 .. n /\ fits(k)
      BY <1>1, <2>1
  <2> QED
      BY <2>2 DEF k
<1>7. SubSeq(words, 1, Max(N)) \in Seq(Nat)
  <2> HIDE DEF N
  <2> QED
      BY <1>6
<1> HIDE DEF N
<1>8. Tokens(Fitting(words, budget)) \in Nat
    BY <1>3, <1>7, TokensAreSummed, Zenon
<1>9. Tokens(Fitting(words, budget)) <= budget
    BY <1>3, <1>6
<1> QED
    BY <1>3, <1>7, <1>8, <1>9

\* A number for each place below n, and no number twice: there are n.
LEMMA KeysAreCounted ==
    ASSUME NEW n \in Nat, NEW f \in [1 .. n -> Nat], \A i, j \in 1 .. n : f[i] = f[j] => i = j
    PROVE  /\ IsFiniteSet({f[i] : i \in 1 .. n})
           /\ Cardinality({f[i] : i \in 1 .. n}) = n
<1> DEFINE T == {f[i] : i \in 1 .. n}
<1>1. f \in Surjection(1 .. n, T) /\ f \in Injection(1 .. n, T)
    BY DEF Surjection, Injection, IsInjective
<1>2. IsFiniteSet(1 .. n) /\ Cardinality(1 .. n) = n
    BY FS_Interval
<1> HIDE DEF T
<1>3. IsFiniteSet(T) /\ Cardinality(T) = n
    BY <1>1, <1>2, FS_Surjection
<1> QED
    BY <1>3 DEF T

\* The sections are of the results, and as many.
LEMMA SectionsAreResults ==
    ASSUME NEW X, NEW response \in Seq(X)
    PROVE  /\ Sections(response) \in Seq(X)
           /\ Len(Sections(response)) = Len(response)
<1> DEFINE n == Len(response)
           rank == [i \in 1 .. n |-> Rank(response[i])]
           key(i) == Rank(response[i]) * Len(response) + i
           f == [i \in 1 .. n |-> rank[i] * n + i]
           S == {f[i] : i \in 1 .. n}
           order == InOrder(S)
           at(k) == CHOOSE i \in DOMAIN response : key(i) = order[k]
<1>1. n \in Nat /\ DOMAIN response = 1 .. n
    OBVIOUS
<1>2. rank \in [1 .. n -> {0, 1, 2}]
    BY DEF Rank
<1>3. Sections(response) = [k \in 1 .. n |-> response[at(k)]]
  <2>1. \A i \in 1 .. n : f[i] = key(i)
      OBVIOUS
  <2>2. {key(i) : i \in DOMAIN response} = S
      BY <1>1, <2>1
  <2> DEFINE T == {key(i) : i \in DOMAIN response}
  <2>3. Sections(response) =
            [k \in DOMAIN response |->
                response[CHOOSE i \in DOMAIN response : key(i) = InOrder(T)[k]]]
      BY DEF Sections
  <2>4. T = S
      BY <2>2
  <2> HIDE DEF T, key, S
  <2> QED
      BY <1>1, <2>3, <2>4
<1>4. f \in [1 .. n -> Nat] /\ \A i, j \in 1 .. n : f[i] = f[j] => i = j
  <2> HIDE DEF n, rank
  <2>1. \A i \in 1 .. n : rank[i] * n \in {0, n, 2 * n}
      BY <1>1, <1>2
  <2>2. \A i \in 1 .. n : f[i] = rank[i] * n + i
      OBVIOUS
  <2>3. \A i, j \in 1 .. n : f[i] = f[j] => i = j
      BY <1>1, <2>1, <2>2
  <2>4. \A i \in 1 .. n : rank[i] * n + i \in Nat
      BY <1>1, <2>1
  <2> QED
      BY <2>3, <2>4
<1>5. \A i \in 1 .. n : f[i] = key(i)
    OBVIOUS
<1> HIDE DEF n, rank, f
<1>6. IsFiniteSet(S) /\ Cardinality(S) = n
    BY <1>1, <1>4, KeysAreCounted
<1>7. S \in SUBSET Int
    BY <1>4
<1> HIDE DEF S
<1>8. ASSUME NEW k \in 1 .. n PROVE at(k) \in 1 .. n
  <2>1. order[k] \in S
      BY <1>6, <1>7, KeyAtPlace
  <2>2. \E i \in DOMAIN response : key(i) = order[k]
      BY <1>1, <1>5, <2>1 DEF S
  <2> HIDE DEF key, order
  <2> QED
      BY <1>1, <2>2, Zenon
<1> HIDE DEF at
<1>9. [k \in 1 .. n |-> response[at(k)]] \in [1 .. n -> X]
    BY <1>1, <1>8
<1> QED
    BY <1>1, <1>3, <1>9 DEF n

\* The context at some point of its composition.
Contexts(budget) == [left : 0 .. budget, sections : Seq(Seq(Nat)), cut : BOOLEAN]

\* The words that stand for a result.
Words(result) == Cost[Disclosed(result.memory)]

\* What is so of a context after k of the results.
HonestContext(made, k, results, budget) ==
    /\ made \in Contexts(budget)
    /\ Spent(made.sections) = budget - made.left
    /\ Len(made.sections) <= k
    /\ ~made.cut /\ Len(made.sections) = k =>
           \A i \in 1 .. k : made.sections[i] = Words(results[i])

\* A section more costs what it costs.
LEMMA SpentIsSummed ==
    ASSUME NEW sections \in Seq(Seq(Nat)), NEW kept \in Seq(Nat)
    PROVE  Spent(Append(sections, kept)) = Spent(sections) + Tokens(kept)
<1> DEFINE n == Len(sections)
           longer == Append(sections, kept)
           costs == [i \in 1 .. n |-> Tokens(sections[i])]
           more == [i \in 1 .. n + 1 |-> Tokens(longer[i])]
<1>1. /\ n \in Nat /\ DOMAIN sections = 1 .. n /\ DOMAIN longer = 1 .. n + 1
      /\ longer[n + 1] = kept /\ \A i \in 1 .. n : longer[i] = sections[i]
      /\ \A i \in 1 .. n : sections[i] \in Seq(Nat)
    OBVIOUS
<1> HIDE DEF longer
<1>2. costs \in Seq(Nat) /\ Len(costs) = n
  <2>1. \A i \in 1 .. n : Tokens(sections[i]) \in Nat
      BY <1>1, TokensAreSummed
  <2> QED
      BY <1>1, <2>1
<1>3. Tokens(kept) \in Nat
    BY TokensAreSummed
<1>4. more = Append(costs, Tokens(kept))
  <2>1. Append(costs, Tokens(kept)) = [i \in 1 .. n + 1 |-> IF i = n + 1 THEN Tokens(kept) ELSE costs[i]]
      BY <1>1, <1>2, <1>3
  <2>2. \A i \in 1 .. n + 1 : Tokens(longer[i]) = IF i = n + 1 THEN Tokens(kept) ELSE costs[i]
      BY <1>1
  <2> QED
      BY <2>1, <2>2
<1>5. Spent(sections) = Tokens(costs) /\ Spent(longer) = Tokens(more)
    BY <1>1 DEF Spent
<1> HIDE DEF costs, more
<1> QED
    BY <1>2, <1>3, <1>4, <1>5, TokensAreSummed DEF longer

\* A result is passed over, or becomes a section of what is left.
LEMMA AddIsHonest ==
    ASSUME NEW budget \in Nat, NEW k \in Nat \ {0}, NEW results, NEW made,
           HonestContext(made, k - 1, results, budget), Words(results[k]) \in Seq(Nat)
    PROVE  HonestContext(Add(made, results[k]), k, results, budget)
<1> DEFINE kept == Fitting(Words(results[k]), made.left)
           sections == made.sections
           longer == Append(sections, kept)
<1>1. /\ made \in Contexts(budget) /\ Spent(sections) = budget - made.left
      /\ made.left \in 0 .. budget /\ made.left \in Nat
      /\ sections \in Seq(Seq(Nat)) /\ Len(sections) \in Nat /\ Len(sections) <= k - 1
    BY DEF HonestContext, Contexts
<1>2. kept \in Seq(Nat) /\ Tokens(kept) \in 0 .. made.left
    BY <1>1, FittingFits
<1> HIDE DEF kept
<1>3. CASE made.cut \/ made.left = 0 \/ Tokens(kept) = 0
  <2>1. Add(made, results[k]) = made
      BY <1>3 DEF Add, kept, Words
  <2> QED
      BY <1>1, <2>1 DEF HonestContext
<1>4. CASE ~(made.cut \/ made.left = 0 \/ Tokens(kept) = 0)
  <2> DEFINE next == [left |-> made.left - Tokens(kept), sections |-> longer,
                      cut |-> kept # Words(results[k])]
  <2>1. Add(made, results[k]) = next
      BY <1>4 DEF Add, kept, Words
  <2>2. /\ longer \in Seq(Seq(Nat)) /\ Len(longer) = Len(sections) + 1
        /\ longer[Len(sections) + 1] = kept
        /\ \A i \in 1 .. Len(sections) : longer[i] = sections[i]
      BY <1>1, <1>2
  <2>3. Spent(longer) = Spent(sections) + Tokens(kept)
      BY <1>1, <1>2, SpentIsSummed
  <2> HIDE DEF longer
  <2>4. made.left - Tokens(kept) \in 0 .. budget
      BY <1>1, <1>2
  <2>5. next \in Contexts(budget)
      BY <2>2, <2>4 DEF Contexts
  <2>6. Spent(longer) = budget - next.left
      BY <1>1, <1>2, <2>3
  <2>7. ASSUME ~next.cut, Len(longer) = k, NEW i \in 1 .. k
        PROVE  longer[i] = Words(results[i])
    <3>1. ~made.cut /\ Len(sections) = k - 1 /\ kept = Words(results[k])
      <4>1. ~made.cut
          BY <1>4
      <4>2. kept = Words(results[k])
          BY <2>7
      <4>3. Len(sections) = k - 1
        <5> HIDE DEF sections
        <5> QED
            BY <1>1, <2>2, <2>7
      <4> QED
          BY <4>1, <4>2, <4>3
    <3>2. CASE i = k
        BY <2>2, <3>1, <3>2
    <3>3. CASE i # k
      <4>1. i \in 1 .. k - 1
          BY <3>3
      <4>2. sections[i] = Words(results[i])
          BY <3>1, <4>1 DEF HonestContext
      <4> QED
          BY <2>2, <3>1, <4>1, <4>2
    <3> QED
        BY <3>2, <3>3
  <2>8. next.sections = longer /\ Len(longer) <= k
      BY <1>1, <2>2
  <2> HIDE DEF next
  <2> QED
      BY <2>1, <2>5, <2>6, <2>7, <2>8 DEF HonestContext
<1> QED
    BY <1>3, <1>4

\* The contexts that a composition goes through.
Composing(after, results, budget) ==
    /\ after \in [0 .. Len(results) -> Contexts(budget)]
    /\ after[0] = [left |-> budget, sections |-> <<>>, cut |-> FALSE]
    /\ \A i \in 1 .. Len(results) : after[i] = Add(after[i - 1], results[i])

\* There are some, and the last is what is composed.
LEMMA CompositionHasRounds ==
    ASSUME NEW budget \in Nat, NEW response,
           NEW X, Sections(response) \in Seq(X), \A r \in X : Words(r) \in Seq(Nat)
    PROVE  \E after : /\ Composing(after, Sections(response), budget)
                      /\ Compose(response, budget) = after[Len(Sections(response))]
<1> DEFINE results == Sections(response)
           n == Len(results)
           start == [left |-> budget, sections |-> <<>>, cut |-> FALSE]
           C == Contexts(budget)
           round == [i \in 1 .. n |-> [c \in C |-> Add(c, results[i])]]
           loop(f) == [i \in 0 .. n |-> IF i = 0 THEN start ELSE Add(f[i - 1], results[i])]
           after == CHOOSE f : f = loop(f)
<1>1. n \in Nat /\ \A i \in 1 .. n : results[i] \in X
    OBVIOUS
<1>2. ASSUME NEW c \in C, NEW i \in 1 .. n PROVE Add(c, results[i]) \in C
  <2> DEFINE kept == Fitting(Words(results[i]), c.left)
             longer == Append(c.sections, kept)
  <2>1. Words(results[i]) \in Seq(Nat)
      BY <1>1
  <2>2. c.left \in 0 .. budget /\ c.left \in Nat /\ c.sections \in Seq(Seq(Nat))
      BY DEF Contexts
  <2>3. kept \in Seq(Nat) /\ Tokens(kept) \in 0 .. c.left
      BY <2>1, <2>2, FittingFits
  <2> HIDE DEF kept, results
  <2>4. longer \in Seq(Seq(Nat)) /\ c.left - Tokens(kept) \in 0 .. budget
      BY <2>2, <2>3
  <2> HIDE DEF longer
  <2>5. [left |-> c.left - Tokens(kept), sections |-> longer, cut |-> kept # Words(results[i])] \in C
      BY <2>4 DEF Contexts
  <2> QED
      BY <2>5 DEF Add, Words, kept, longer
<1>3. Compose(response, budget) = after[n]
    BY DEF Compose
<1>4. start \in C
    BY DEF Contexts
<1> HIDE DEF n, results, C, start
<1>5. round \in [1 .. n -> [C -> C]]
    BY <1>2
<1>6. PICK f : LoopStates(f, n, C, start, round)
  <2> HIDE DEF round
  <2> QED
      BY <1>1, <1>4, <1>5, LoopHasStates
<1>7. f = loop(f)
  <2>1. \A i \in 1 .. n : i \in 0 .. n /\ i - 1 \in 0 .. n
      BY <1>1
  <2>2. \A i \in 1 .. n : round[i][f[i - 1]] = Add(f[i - 1], results[i])
      BY <1>6, <2>1 DEF LoopStates
  <2> HIDE DEF round
  <2>3. \A i \in 0 .. n : f[i] = IF i = 0 THEN start ELSE Add(f[i - 1], results[i])
      BY <1>1, <1>6, <2>1, <2>2 DEF LoopStates
  <2> QED
      BY <1>6, <2>3 DEF LoopStates
<1> HIDE DEF round
<1>8. after = loop(after)
  <2> HIDE DEF loop
  <2> QED
      BY <1>7, Zenon DEF after
<1> HIDE DEF after
<1>9. after[0] = start /\ \A i \in 1 .. n : after[i] = Add(after[i - 1], results[i])
    BY <1>1, <1>8
<1>10. after \in [0 .. n -> C]
  <2> DEFINE S == {i \in 0 .. n : after[i] \in C}
  <2>1. 0 \in S /\ \A i \in 1 .. n : i - 1 \in S => i \in S
      BY <1>1, <1>2, <1>4, <1>9
  <2> HIDE DEF S
  <2>2. \A i \in 0 .. n : i \in S
      BY <1>1, <2>1, EveryRound, Zenon
  <2>3. \A i \in 0 .. n : after[i] \in C
      BY <2>2 DEF S
  <2> QED
      BY <1>8, <2>3
<1>11. Composing(after, results, budget)
    BY <1>9, <1>10 DEF n, C, start, Composing
<1> QED
    BY <1>3, <1>11 DEF results, n

\* A composition of results that cost words is honest.
LEMMA CompositionIsHonest ==
    ASSUME NEW budget \in Nat, NEW response,
           NEW X, Sections(response) \in Seq(X), \A r \in X : Words(r) \in Seq(Nat)
    PROVE  HonestContext(Compose(response, budget), Len(Sections(response)),
                         Sections(response), budget)
<1> DEFINE results == Sections(response)
           n == Len(results)
<1>1. PICK after : /\ Composing(after, results, budget)
                   /\ Compose(response, budget) = after[n]
    BY CompositionHasRounds
<1>2. n \in Nat /\ \A i \in 1 .. n : Words(results[i]) \in Seq(Nat)
    OBVIOUS
<1> HIDE DEF results, n
<1> DEFINE S == {k \in 0 .. n : HonestContext(after[k], k, results, budget)}
<1>3. HonestContext(after[0], 0, results, budget)
  <2>1. after[0] = [left |-> budget, sections |-> <<>>, cut |-> FALSE]
      BY <1>1 DEF Composing
  <2>2. Spent(<<>>) = 0
    <3>1. [i \in DOMAIN <<>> |-> Tokens(<<>>[i])] = <<>>
        OBVIOUS
    <3> QED
        BY <3>1, TokensAreSummed DEF Spent
  <2>3. after[0] \in Contexts(budget)
      BY <2>1 DEF Contexts
  <2>4. Len(<<>>) = 0
      OBVIOUS
  <2> QED
      BY <2>1, <2>2, <2>3, <2>4 DEF HonestContext
<1>4. ASSUME NEW k \in 1 .. n, k - 1 \in S PROVE k \in S
  <2>1. after[k] = Add(after[k - 1], results[k])
      BY <1>1 DEF Composing, n
  <2>2. HonestContext(after[k - 1], k - 1, results, budget)
      BY <1>4
  <2>3. k \in Nat \ {0} /\ Words(results[k]) \in Seq(Nat)
      BY <1>2
  <2>4. HonestContext(Add(after[k - 1], results[k]), k, results, budget)
      BY <2>2, <2>3, AddIsHonest
  <2> QED
      BY <1>2, <2>1, <2>4
<1>5. 0 \in S /\ \A k \in 1 .. n : k - 1 \in S => k \in S
    BY <1>2, <1>3, <1>4
<1> HIDE DEF S
<1>6. \A k \in 0 .. n : k \in S
    BY <1>2, <1>5, EveryRound, Zenon
<1>7. n \in S
    BY <1>2, <1>6
<1> QED
    BY <1>1, <1>7 DEF S, results, n

\* Among finitely many memories one is better than the others.
LEMMA OneIsBest ==
    ASSUME NEW q, NEW found, NEW group, group \subseteq Memories, Memories \subseteq Nat,
           group # {}, IsFiniteSet(group), \A m \in group : FinalScore(q, found, m) \in Nat
    PROVE  \E m \in group : \A k \in group \ {m} : Better(q, found, m, k)
<1> DEFINE ahead(m) == {k \in group : Better(q, found, k, m)}
           ranks == {Cardinality(ahead(m)) : m \in group}
<1>1. /\ \A m \in group : ~Better(q, found, m, m)
      /\ \A j, k, m \in group : Better(q, found, j, k) /\ Better(q, found, k, m) => Better(q, found, j, m)
      /\ \A k, m \in group : k = m \/ Better(q, found, k, m) \/ Better(q, found, m, k)
    BY DEF Better
<1>2. ASSUME NEW m \in group PROVE IsFiniteSet(ahead(m)) /\ Cardinality(ahead(m)) \in Nat
  <2>1. ahead(m) \subseteq group
      OBVIOUS
  <2> HIDE DEF ahead
  <2> QED
      BY <2>1, FS_Subset, FS_CardinalityType
<1>3. ranks \in SUBSET Nat /\ ranks # {}
    BY <1>2
<1>4. PICK least \in ranks : \A r \in ranks : least <= r
  <2> HIDE DEF ranks
  <2> QED
      BY <1>3, MinIsLeast, Zenon
<1>5. PICK m \in group : least = Cardinality(ahead(m))
    BY <1>4
<1>6. ahead(m) = {}
  <2> SUFFICES ASSUME NEW k \in ahead(m) PROVE FALSE
      OBVIOUS
  <2>1. ahead(k) \subseteq ahead(m) /\ ahead(k) # ahead(m) /\ k \in group
      BY <1>1
  <2>2. Cardinality(ahead(k)) <= Cardinality(ahead(m)) /\ Cardinality(ahead(k)) # Cardinality(ahead(m))
      BY <1>2, <2>1, FS_Subset
  <2>3. Cardinality(ahead(m)) <= Cardinality(ahead(k))
      BY <1>4, <1>5, <2>1
  <2>4. Cardinality(ahead(k)) \in Nat /\ Cardinality(ahead(m)) \in Nat
      BY <1>2, <2>1
  <2> HIDE DEF ahead
  <2> QED
      BY <2>2, <2>3, <2>4
<1> QED
    BY <1>1, <1>6

\* A result is of a memory that was scored, and a response is made of results.
Results(scored) == [memory : scored, cites : SUBSET scored, temporal : BOOLEAN, graph : BOOLEAN]

LEMMA ResponseIsOfResults ==
    ASSUME NEW q, NEW found, NEW response \in Responses(q, found), Memories \subseteq Nat,
           Scored(q, found) \subseteq Memories, IsFiniteSet(Scored(q, found)),
           \A m \in Scored(q, found) : FinalScore(q, found, m) \in Nat
    PROVE  response \in Seq(Results(Scored(q, found)))
<1> DEFINE scored == Scored(q, found)
<1>1. ASSUME NEW r \in Merged(q, found) PROVE r \in Results(scored)
  <2> DEFINE best(g) == CHOOSE m \in g : \A k \in g \ {m} : Better(q, found, m, k)
  <2>1. PICK j \in scored : r = Result(best({k \in scored : Disclosed(k) = Disclosed(j)}),
                                       {k \in scored : Disclosed(k) = Disclosed(j)}, found)
    <3>1. PICK group \in {{k \in scored : Disclosed(k) = Disclosed(m)} : m \in scored} :
              r = Result(best(group), group, found)
        BY <1>1, Zenon DEF Merged
    <3> HIDE DEF scored, best
    <3>2. PICK j \in scored : group = {k \in scored : Disclosed(k) = Disclosed(j)}
        BY <3>1
    <3> QED
        BY <3>1, <3>2
  <2> DEFINE group == {k \in scored : Disclosed(k) = Disclosed(j)}
  <2>2. group \subseteq scored /\ group # {} /\ IsFiniteSet(group)
      BY FS_Subset
  <2> HIDE DEF group
  <2>3. \E m \in group : \A k \in group \ {m} : Better(q, found, m, k)
      BY <2>2, OneIsBest
  <2>4. best(group) \in group
      BY <2>3, Zenon
  <2>5. r = Result(best(group), group, found)
      BY <2>1 DEF group
  <2> HIDE DEF best, scored
  <2> QED
      BY <2>2, <2>4, <2>5 DEF Result, Results
<1>2. IsFiniteSet(Merged(q, found))
    BY ResultsAreFinite
<1>3. PICK set \in SUBSET Merged(q, found) : response \in SetToSeqs(set)
    BY DEF Responses
<1>4. Cardinality(set) \in Nat /\ response \in [1 .. Cardinality(set) -> set]
    BY <1>2, <1>3, FS_Subset, FS_CardinalityType DEF SetToSeqs
<1> HIDE DEF scored
<1>5. response \in [1 .. Cardinality(set) -> Results(scored)]
    BY <1>1, <1>3, <1>4
<1> QED
    BY <1>4, <1>5 DEF scored

\* What compose_context() hands to a model: it costs what it reports, never more
\* than the budget it was asked for, and where it is not called truncated it holds
\* every result of the recall in full.
THEOREM ContextsAreHonest == CorpusSpec => []ContextIsHonest
<1>1. ASSUME CorpusInv PROVE ContextIsHonest
  <2> SUFFICES ASSUME NEW q \in RecallRequests, NEW response \in Responses(q, Found(q))
               PROVE  LET context == Compose(response, q.tokens)
                          results == Sections(response)
                      IN  /\ context.left \in 0 .. q.tokens
                          /\ Spent(context.sections) = q.tokens - context.left
                          /\ ~Truncated(response, context) =>
                                 context.sections =
                                     [i \in DOMAIN results |-> Cost[Disclosed(results[i].memory)]]
      BY DEF ContextIsHonest
  <2> DEFINE found == Found(q)
             scored == Scored(q, found)
             X == Results(scored)
             made == Compose(response, q.tokens)
             list == Sections(response)
  <2>1. Hits(found) \subseteq Memories /\ Hits(found) \subseteq DOMAIN memories
      BY <1>1, HitsAreOfTheCorpus DEF Corpus, Authorized, Gettable, CorpusInv, CorpusTypeOK
  <2>2. Memories \subseteq Nat /\ IsFiniteSet(Hits(found))
    <3>1. Memories \subseteq Nat /\ IsFiniteSet(Memories)
        BY CorpusAssumption, FS_CardinalityType
    <3> QED
        BY <2>1, <3>1, FS_Subset
  <2>3. scored \subseteq Hits(found)
      BY DEF Scored, Retained
  <2>4. scored \subseteq Memories /\ IsFiniteSet(scored)
      BY <2>1, <2>2, <2>3, FS_Subset
  <2>5. ASSUME NEW m \in scored PROVE FinalScore(q, found, m) \in Nat
    <3>1. m \in DOMAIN memories /\ m \in Memories
        BY <2>1, <2>3
    <3>2. memories[m].importance \in Nat
        BY <1>1, <3>1, CorpusAssumption DEF CorpusInv, CorpusTypeOK, MemoryRecord
    <3>3. q.semantic[m] \in Nat /\ q.lexical[m] \in Nat
      <4>1. q.semantic \in [Memories -> Nat] /\ q.lexical \in [Memories -> Nat]
          BY RecallAssumption
      <4> QED
          BY <3>1, <4>1
    <3> QED
        BY <3>2, <3>3 DEF FinalScore, Point
  <2>6. response \in Seq(X)
      BY <2>2, <2>4, <2>5, ResponseIsOfResults
  <2>7. list \in Seq(X) /\ Len(list) = Len(response)
      BY <2>6, SectionsAreResults
  <2>8. \A r \in X : Words(r) \in Seq(Nat)
    <3> SUFFICES ASSUME NEW m \in Memories PROVE Cost[Disclosed(m)] \in Seq(Nat)
        BY <2>4 DEF Results, Words
    <3>1. Disclosed(m) \in DOMAIN Cost
      <4>1. /\ "restricted summary" \in DOMAIN Cost /\ "redacted" \in DOMAIN Cost
            /\ Content[m].text \in DOMAIN Cost
        <5>1. {"restricted summary", "redacted"} \cup {Content[k].text : k \in Memories}
                  \subseteq DOMAIN Cost
            BY CostAssumption
        <5>2. Content[m].text \in {Content[k].text : k \in Memories}
            OBVIOUS
        <5> QED
            BY <5>1, <5>2
      <4> QED
          BY <4>1 DEF Disclosed
    <3>2. Cost[Disclosed(m)] \in Seq(Nat \ {0})
        BY <3>1, CostAssumption
    <3> QED
        BY <3>2
  <2>9. q.tokens \in Nat
      BY RecallAssumption
  <2>10. HonestContext(made, Len(list), list, q.tokens)
      BY <2>7, <2>8, <2>9, CompositionIsHonest
  <2>11. made.left \in 0 .. q.tokens /\ Spent(made.sections) = q.tokens - made.left
      BY <2>10 DEF HonestContext, Contexts
  <2>12. ASSUME ~Truncated(response, made)
         PROVE  made.sections = [i \in DOMAIN list |-> Cost[Disclosed(list[i].memory)]]
    <3>1. made.sections \in Seq(Seq(Nat)) /\ Len(made.sections) \in Nat /\ Len(list) \in Nat
        BY <2>7, <2>10 DEF HonestContext, Contexts
    <3>2. ~made.cut /\ Len(made.sections) = Len(list)
        BY <2>7, <2>10, <2>12, <3>1 DEF Truncated, HonestContext
    <3>3. \A i \in 1 .. Len(list) : made.sections[i] = Words(list[i])
        BY <2>10, <3>2 DEF HonestContext
    <3>4. made.sections = [i \in 1 .. Len(list) |-> made.sections[i]]
        BY <3>1, <3>2
    <3>5. DOMAIN list = 1 .. Len(list)
        BY <2>7
    <3> HIDE DEF made, list
    <3> QED
        BY <3>3, <3>4, <3>5 DEF Words
  <2> QED
      BY <2>11, <2>12
<1> QED
    BY <1>1, CorpusInvariant, PTL
=============================================================================
