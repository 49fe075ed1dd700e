----------------------------- MODULE MCKnowledge -----------------------------
(***************************************************************************)
(* Instances of what the engine knows: claims, derived memories, the       *)
(* entity graph and the hash chains.  A behaviour is about one topic; the  *)
(* topics share the ledger of events, their forget markers and the clock,  *)
(* and write none of each other's records.                                 *)
(***************************************************************************)
EXTENDS DerivedMemories, EntityGraph, AgentRecords

CONSTANTS p1, s1, s2, e1, e2, e3, t1, t2, red, blue

VARIABLE about
mcvars == <<vars, graphVars, recordVars, about>>

S1 == [project |-> p1, session |-> s1]
Whole == [project |-> p1, session |-> None]
MCScopes == {S1, Whole}

\* Two events of session s1 in one turn, and one of the whole project.
MCSource ==
    [e \in {e1, e2, e3} |->
        [kind |-> IF e = e3 THEN "project" ELSE "session",
         scope |-> S1,
         turn |-> IF e = e2 THEN t2 ELSE t1]]

Claim(value, from, to, evidence) ==
    [scope |-> S1, property |-> "colour", value |-> value,
     from |-> from, to |-> to, evidence |-> evidence, supports |-> evidence]

\* Two values whose validity overlaps, and the first again on other evidence.
MCCandidates ==
    {Claim(red, None, 2, {e1}), Claim(blue, 1, None, {e1, e3}), Claim(red, None, None, {e3})}

MCPeriods == {[from |-> 0, to |-> 1]}

Entity(type, label) == [scope |-> S1, type |-> type, label |-> label]
Ann == Entity("person", "Ann")
Bea == Entity("person", "Bea")
Cas == Entity("person", "Cas")
Crew == Entity("team", "Crew")
MCEntities == {Ann, Bea, Cas, Crew}

Knows(version, directed) ==
    [scope |-> S1, name |-> "knows", version |-> version, sources |-> {"person", "team"},
     targets |-> {"person", "team"}, traversable |-> TRUE, directed |-> directed]

\* A relation that a later version turns around.
MCDefinitions == {Knows(1, FALSE), Knows(2, TRUE)}

MCValidities == {[from |-> None, to |-> None], [from |-> 1, to |-> None]}

\* Traversals from Ann that are at the limit of each budget in turn.
MCRequests ==
    {[scope |-> S1, seeds |-> {Ann}, names |-> {}, depth |-> budget[1], edges |-> budget[2],
      entities |-> budget[3], valid |-> 1, known |-> 1] :
         budget \in {<<1, 3, 3>>, <<3, 1, 3>>, <<3, 3, 2>>, <<3, 3, 3>>}}
    \cup {[scope |-> S1, seeds |-> {Ann, Bea}, names |-> {}, depth |-> 1, edges |-> 1,
           entities |-> 1, valid |-> 1, known |-> 1]}

MCInit ==
    /\ Init /\ GraphInit /\ RecordsInit
    /\ about \in {"links", "aggregates", "rollback", "forgetting",
                 "aliases", "lineages", "relations", "journal", "audit"}
    /\ ingested = IF about \in {"rollback", "forgetting"} THEN {e1, e3} ELSE Events

\* What a behaviour is not about stays as it is.
MCNext ==
    \/ /\ about \in {"links", "aggregates", "rollback", "forgetting"}
       /\ Next
       /\ UNCHANGED <<graphVars, recordVars, about>>
       /\ about = "links" => /\ UNCHANGED derivedVars
                             /\ \A e \in Events : forgotten'[e] # "erasure"
                             /\ forgotten'[e2] = None
                             /\ Cardinality({e \in Events : forgotten'[e] # None}) <= 1
                             /\ \A l \in DOMAIN links' : l.relation # "reaffirms"
                             /\ \A l \in DOMAIN links' : l.relation = "qualifies" => l.effective = 0
       /\ about = "aggregates" => UNCHANGED <<links, now, derived, runs>>
       /\ about = "rollback" =>
              /\ UNCHANGED <<claims, links, aggregates, forgotten>>
              /\ now' # now => Cardinality(DOMAIN derived) = 1
       /\ about = "forgetting" => UNCHANGED <<claims, links, aggregates, runs, now>>
    \/ /\ about \in {"aliases", "lineages", "relations"}
       /\ \/ GraphNext /\ UNCHANGED vars
          \/ Tick /\ UNCHANGED <<graphVars, derivedVars>>
       /\ UNCHANGED <<recordVars, about>>
       /\ about # "aliases" => \A a \in DOMAIN aliases' : a.label = a.entity.label
       /\ about # "lineages" => UNCHANGED lineages /\ Cas \notin entities'
       /\ about = "lineages" => UNCHANGED now /\ Crew \notin entities'
       /\ about = "relations" => \A r \in DOMAIN relations' : r.source # r.target /\ r.from = None
       /\ about = "relations" =>
              /\ now = 1 => UNCHANGED <<types, entities>>
              /\ \A t \in types' : t.scope = S1
              /\ entities' \in {{}, {Ann}, {Ann, Bea}, {Ann, Bea, Crew}}
              /\ Cardinality(DOMAIN relations') <= 2 \/ now = 0
       /\ about # "relations" =>
              UNCHANGED <<types, relationTypes, relations>> /\ Crew \notin entities'
    \/ /\ about \in {"journal", "audit"}
       /\ RecordsNext
       /\ UNCHANGED <<vars, graphVars, about>>
       /\ about = "journal" => UNCHANGED <<audits, remarks>>
       /\ about = "audit" => UNCHANGED <<entries, superseding>>
       /\ \A k \in DOMAIN entries' :
              entries'[k].after # {} => Cardinality(DOMAIN entries') = 2
       /\ \A l \in superseding' : l.relation \in {"superseded", "nuanced"}

MCSpec == MCInit /\ [][MCNext]_mcvars
=============================================================================
