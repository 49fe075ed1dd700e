---------------------------- MODULE AgentRecords ----------------------------
(***************************************************************************)
(* The hash chains of the engine: each agent's journal                     *)
(* (rust/crates/celiums-memory-engine/src/journal.rs, engine.rs) and the   *)
(* tenant's ethics audit (governance_audit.rs), which remember() and       *)
(* evaluate_action() extend.                                               *)
(*                                                                         *)
(* Records have UUIDv7 keys: the time they were made, then a counter that  *)
(* keeps the ids of one process growing.  Nothing else says in which order *)
(* a chain is read.  Hashes are modelled by what they cover: no two inputs *)
(* have the same.  Every operation ends in one commit, so a crash leaves   *)
(* all of it or nothing.                                                   *)
(***************************************************************************)
EXTENDS KeyOrder, SequencesExt

CONSTANTS
    Agents,
    Texts,         \* journal contents, memories and proposed actions
    LastMinute,    \* bound on the clock
    MaxRecords,    \* bound on the records of a chain
    MaxRemarks,    \* bound on supersessions, feedback and resolutions
    ClockStepsBack

ASSUME RecordsAssumption ==
    /\ {LastMinute, MaxRecords, MaxRemarks} \subseteq Nat
    /\ ClockStepsBack \in BOOLEAN

VARIABLES
    entries,      \* journal entries, by agent and id
    superseding,  \* links between entries of one agent
    audits,       \* audit entries, by id
    remarks,      \* feedback on audit entries and resolutions of feedback
    minted,       \* the last id this process made
    clock

recordVars == <<entries, superseding, audits, remarks, minted, clock>>

\* What the first entry of a chain follows; a hash of nothing.
NoHash == <<>>

Relations == {"superseded", "recanted", "nuanced", "reaffirmed"}
Decisions == {"allow", "restrict"}

\* A record gets another field, or the store another record.
Put(f, x, y) == [z \in DOMAIN f \cup {x} |-> IF z = x THEN y ELSE f[z]]

RecordsInit ==
    /\ entries = [k \in {} |-> NoHash]
    /\ superseding = {}
    /\ audits = [i \in {} |-> NoHash]
    /\ remarks = {}
    /\ minted = 0
    /\ clock = 0

Ids == {k[2] : k \in DOMAIN entries} \cup {l.id : l \in superseding}
           \cup DOMAIN audits \cup {r.id : r \in remarks}

\* Uuid::now_v7(): the time, or what this process had reached already, and a
\* counter that makes it new.
NextId ==
    LET most == 2 * MaxRecords + 2 * MaxRemarks + 1
        reached == IF minted > clock * most THEN minted ELSE clock * most IN
    Min(((reached + 1)..(reached + most)) \ Ids)

-----------------------------------------------------------------------------
\* Chains, in the order of their keys.

\* agent_journal_entries(), audit_entries(): what scan_prefix() pages through.
JournalIds(agent) == {k[2] : k \in {k \in DOMAIN entries : k[1] = agent}}
Scan(agent, ids) ==
    LET sorted == InOrder(ids) IN [i \in DOMAIN sorted |-> entries[agent, sorted[i]]]
Journal(agent) == Scan(agent, JournalIds(agent))
Audit ==
    LET sorted == InOrder(DOMAIN audits) IN [i \in DOMAIN sorted |-> audits[sorted[i]]]

\* chain_hash(), compute_hash(): what an entry's hash covers.
JournalHash(entry, prev) == <<entry.id, entry.agent, entry.content, entry.at, prev>>
AuditHash(entry) ==
    <<entry.id, entry.operation, entry.subject, entry.decision, entry.at, entry.prev>>

HashBefore(chain, i) == IF i = 1 THEN NoHash ELSE chain[i - 1].hash

\* Mutant: the entry is verified on its own.
BrokenAlone(chain) == {i \in DOMAIN chain : chain[i].hash # JournalHash(chain[i], chain[i].prev)}

\* journal_verify_chain(): where the walk finds another predecessor or another
\* hash than the entry has.
Broken(chain) ==
    {i \in DOMAIN chain :
        \/ chain[i].prev # HashBefore(chain, i)
        \/ chain[i].hash # JournalHash(chain[i], HashBefore(chain, i))}

\* verify_audit_chain() hashes the entry as it stands.
BrokenAudit(chain) ==
    {i \in DOMAIN chain :
        \/ chain[i].prev # HashBefore(chain, i)
        \/ chain[i].hash # AuditHash(chain[i])}

\* last_journal_entry(), then its hash.
LastHash(agent) == HashBefore(Journal(agent), Len(Journal(agent)) + 1)
LastAudit == HashBefore(Audit, Len(Audit) + 1)

-----------------------------------------------------------------------------
\* Journal.

\* journal_write(): refused when a predecessor is not an entry of the agent.
JournalWrite(agent, content, predecessors) ==
    LET entry == [id |-> NextId, agent |-> agent, content |-> content, at |-> clock,
                  after |-> predecessors, prev |-> LastHash(agent)] IN
    /\ Cardinality(DOMAIN entries) < MaxRecords
    /\ \A p \in predecessors : <<agent, p>> \in DOMAIN entries
    /\ entries' = Put(entries, <<agent, NextId>>,
                      Put(entry, "hash", JournalHash(entry, entry.prev)))
    /\ minted' = NextId
    /\ UNCHANGED <<superseding, audits, remarks, clock>>

\* journal_supersede(): both must be entries of the agent; nothing asks whether
\* one of them supersedes the other already.
JournalSupersede(agent, original, new, relation) ==
    /\ {<<agent, original>>, <<agent, new>>} \subseteq DOMAIN entries
    /\ Cardinality(superseding) < MaxRemarks
    /\ superseding' = superseding \cup {[id |-> NextId, agent |-> agent, original |-> original,
                                         new |-> new, relation |-> relation]}
    /\ minted' = NextId
    /\ UNCHANGED <<entries, audits, remarks, clock>>

\* Mutant: the newest link about an entry decides.
SupersededLast(agent) ==
    {l.original : l \in {l \in superseding :
        /\ l.agent = agent /\ l.relation \in {"superseded", "recanted"}
        /\ \A o \in superseding : o.agent = agent /\ o.original = l.original => o.id <= l.id}}

\* superseded_entry_ids().
Superseded(agent) ==
    {l.original : l \in {l \in superseding :
        l.agent = agent /\ l.relation \in {"superseded", "recanted"}}}

\* journal_recall() with an empty query and no limit: newest first.
Recallable(agent) == Reverse(Scan(agent, JournalIds(agent) \ Superseded(agent)))

-----------------------------------------------------------------------------
\* Audit.

\* append_audit(), the last commit of remember() and the only one of
\* evaluate_action().
AppendAudit(operation, subject, decision) ==
    LET entry == [id |-> NextId, operation |-> operation, subject |-> subject,
                  decision |-> decision, at |-> clock, prev |-> LastAudit] IN
    /\ Cardinality(DOMAIN audits) < MaxRecords
    /\ audits' = Put(audits, NextId, Put(entry, "hash", AuditHash(entry)))
    /\ minted' = NextId
    /\ UNCHANGED <<entries, superseding, remarks, clock>>

RememberAudited(memory, decision) == AppendAudit("store", memory, decision)
EvaluateAction(decision) == AppendAudit("ingest", "action", decision)

\* submit_ethics_feedback(), resolve_ethics_feedback(): a record of its own,
\* whatever it refers to.
Remark(kind, about) ==
    /\ Cardinality(remarks) < MaxRemarks
    /\ remarks' = remarks \cup {[id |-> NextId, kind |-> kind, about |-> about]}
    /\ minted' = NextId
    /\ UNCHANGED <<entries, superseding, audits, clock>>

SubmitEthicsFeedback(audit) == Remark("feedback", audit)
ResolveEthicsFeedback(feedback) == Remark("resolution", feedback)

-----------------------------------------------------------------------------
\* Time passes; the clock of the machine may be set back.
TickRecords ==
    /\ clock' \in 0..LastMinute
    /\ clock' = clock + 1 \/ (ClockStepsBack /\ clock' < clock)
    /\ UNCHANGED <<entries, superseding, audits, remarks, minted>>

\* Another process opens the directory; it takes longer than a millisecond.
RestartRecords ==
    /\ clock' \in 0..LastMinute
    /\ clock' = clock + 1 \/ (ClockStepsBack /\ clock' < clock)
    /\ minted > 0
    /\ minted' = 0
    /\ UNCHANGED <<entries, superseding, audits, remarks>>

RecordsNext ==
    \/ \E agent \in Agents :
          \/ \E content \in Texts, after \in {{}} \cup {{k[2]} : k \in DOMAIN entries} :
                 JournalWrite(agent, content, after)
          \/ \E original, new \in DOMAIN entries, relation \in Relations :
                 JournalSupersede(agent, original[2], new[2], relation)
    \/ \E decision \in Decisions :
          \/ EvaluateAction(decision)
          \/ \E memory \in Texts : RememberAudited(memory, decision)
    \/ \E audit \in DOMAIN audits : SubmitEthicsFeedback(audit)
    \/ \E r \in remarks : ResolveEthicsFeedback(r.id)
    \/ TickRecords
    \/ RestartRecords

-----------------------------------------------------------------------------
\* Chains of nothing but journal_write(), remember() and evaluate_action() are
\* found intact, however agents take turns and processes end
\* (journal_verify_chain, audit_verify_chain).
HonestChainsVerify ==
    /\ \A agent \in Agents : Broken(Journal(agent)) = {}
    /\ BrokenAudit(Audit) = {}

\* What can happen to one record of a chain in the store: it is gone, its
\* content is another one, or one that was chained elsewhere is there too.
Strays(chain) ==
    {[id |-> 0, agent |-> agent, content |-> text, at |-> 0, after |-> {}, prev |-> prev,
      hash |-> <<0, agent, text, 0, prev>>] :
        agent \in Agents, text \in Texts, prev \in {NoHash} \cup {e.hash : e \in Range(chain)}}
Damaged(chain) ==
    {RemoveAt(chain, i) : i \in DOMAIN chain}
        \cup {[chain EXCEPT ![i].content = text] : i \in DOMAIN chain, text \in Texts}
        \cup {InsertAt(chain, i, stray) : i \in 1..Len(chain) + 1, stray \in Strays(chain)}

\* No such damage goes unnoticed, but for one that only cuts or continues the
\* end of the chain (journal_verify_chain: "detects insertion, deletion and
\* content tampering per entry").
DamageIsFound ==
    \A agent \in Agents : LET chain == Journal(agent) IN
        \A damaged \in Damaged(chain) :
            Broken(damaged) = {} => IsPrefix(damaged, chain) \/ IsPrefix(chain, damaged)

\* What the verification answers is the truth in both directions.
VerifyTellsTheTruth == HonestChainsVerify /\ DamageIsFound

\* An entry that was superseded or recanted never comes back, whatever is said of
\* it later (journal_recall).
SupersededStaysHidden ==
    [][\A agent \in Agents :
          \A k \in DOMAIN entries :
              k[1] = agent /\ entries[k] \notin Range(Recallable(agent)) =>
                  entries[k] \notin Range(Recallable(agent)')]_recordVars
=============================================================================
