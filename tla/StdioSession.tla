---------------------------- MODULE StdioSession ----------------------------
(***************************************************************************)
(* One MCP session over standard input and output, which owns its engine:  *)
(* the handshake, the tools that change memories, the confirmations that   *)
(* destructive tools ask for, and the resources that a client lists page   *)
(* by page and subscribes to                                               *)
(* (rust/crates/celiums-memory-cli/src/mcp.rs).                            *)
(*                                                                         *)
(* A message is one action: run() writes the notifications that a message  *)
(* caused right after its response, so that `told' holds what the client   *)
(* has just been told.  A tool that fails halfway, on an error of the      *)
(* storage, leaves what its engine call has done and notifies nobody.      *)
(* recall, the journal and the snapshot tools change nothing here; a       *)
(* conversation given to consolidate is one line.                          *)
(***************************************************************************)
EXTENDS Recall, KeyOrder

CONSTANTS
    PageSize,               \* of resources/list (200)
    MaxSubscriptions,       \* (1,000)
    ConfirmationLifetime,   \* in ticks of the clock (five minutes)
    MaxTickets              \* bound on the confirmations issued

ASSUME SessionAssumption ==
    /\ PageSize \in Nat \ {0} /\ MaxSubscriptions \in Nat
    /\ ConfirmationLifetime \in Nat /\ MaxTickets \in Nat

VARIABLES
    phase,           \* of the handshake
    subscriptions,   \* resources: [memory, scope]
    confirmations,   \* those of the tickets that are in the map
    tickets,         \* what each confirmation was issued for, and when
    carried,         \* the destructive calls that were carried out
    told,            \* the notifications after the last response
    walk             \* a client's way through the pages of a listing, or None

handshakeVars == <<phase, tickets, confirmations, carried>>
sessionVars == <<handshakeVars, subscriptions, told, walk>>

Destructive == {"memory_delete", "consolidate", "run_lifecycle"}

\* The resource that consolidate and run_lifecycle are confirmed for; others
\* are memories.
Tenant == 0

\* memory_resource_uri(): a memory as it is seen from a scope.
Uris == [memory : Memories, scope : Scopes]

Silence == [list |-> FALSE, uris |-> {}]

SessionTypeOK ==
    /\ phase \in {"new", "greeted", "ready"}
    /\ subscriptions \subseteq Uris /\ Cardinality(subscriptions) <= MaxSubscriptions
    /\ Len(tickets) <= MaxTickets /\ confirmations \subseteq DOMAIN tickets
    /\ told.uris \subseteq Uris /\ told.list \in BOOLEAN
    /\ walk # None => walk.scope \in Scopes

SessionInit ==
    /\ phase = "new" /\ subscriptions = {}
    /\ confirmations = {} /\ tickets = <<>> /\ carried = <<>>
    /\ told = Silence /\ walk = None

-----------------------------------------------------------------------------
\* The handshake.

Initialize ==
    /\ phase = "new"
    /\ phase' = "greeted" /\ told' = Silence
    /\ UNCHANGED <<tickets, confirmations, carried, subscriptions, walk, corpusVars>>

\* notifications/initialized; it is ignored before initialize().
Initialized ==
    /\ phase = "greeted"
    /\ phase' = "ready" /\ told' = Silence
    /\ UNCHANGED <<tickets, confirmations, carried, subscriptions, walk, corpusVars>>

\* The process ends and another one opens the engine.
Restart ==
    /\ phase = "ready"
    /\ phase' = "new" /\ subscriptions' = {} /\ told' = Silence /\ walk' = None
    /\ confirmations' = {} /\ tickets' = <<>> /\ carried' = <<>>
    /\ UNCHANGED corpusVars

Ready == phase = "ready"

-----------------------------------------------------------------------------
\* Notifications.

\* Mutant: a resource is subscribed to as one scope writes it.
SameUri(changed, subscribed) == changed = subscribed

\* same_resource_uri(): whatever scope it is written with.
SameResource(changed, subscribed) == changed.memory = subscribed.memory

\* notify_resource_changes()
Told(change) ==
    [list |-> change.list,
     uris |-> {s \in subscriptions :
                  change.all \/ \E u \in change.updated : SameResource(u, s)}]

ListChange == [list |-> TRUE, updated |-> {}, all |-> FALSE]

\* What a message tells; the client's walk goes on undisturbed as long as it is
\* not told that the list changed, and every change was announced.
Announce(change) ==
    /\ told' = Told(change)
    /\ walk' = IF walk = None THEN None ELSE [walk EXCEPT !.quiet = @ /\ ~change.list]
    /\ UNCHANGED <<phase, subscriptions>>

Unannounced ==
    /\ told' = Silence
    /\ walk' = IF walk = None THEN None ELSE [walk EXCEPT !.quiet = FALSE]
    /\ UNCHANGED <<phase, subscriptions>>

-----------------------------------------------------------------------------
\* Confirmations.

\* tool_confirm_destructive(): what has expired is dropped.
Fresher(t) == now <= tickets[t].at + ConfirmationLifetime

Confirm(operation, resource) ==
    /\ Ready /\ Len(tickets) < MaxTickets
    /\ operation \in Destructive
    /\ tickets' = Append(tickets, [operation |-> operation, resource |-> resource, at |-> now])
    /\ confirmations' = {t \in confirmations : Fresher(t)} \cup {Len(tickets) + 1}
    /\ told' = Silence
    /\ UNCHANGED <<phase, carried, subscriptions, walk, corpusVars>>

Matches(t, operation, resource) ==
    /\ Fresher(t)
    /\ tickets[t].operation = operation /\ tickets[t].resource = resource

\* Mutant: a confirmation is looked up, not removed.
Kept(t) == confirmations

Consumed(t) == confirmations \ {t}

\* consume_local_confirmation() before a destructive tool that is carried out.
Confirmed(operation, resource) ==
    \E t \in confirmations :
        /\ Ready /\ Matches(t, operation, resource)
        /\ confirmations' = Consumed(t)
        /\ carried' = Append(carried, [operation |-> operation, resource |-> resource])
        /\ UNCHANGED tickets

\* A token that does not fit the call is spent all the same.
Unconfirmed(operation, resource) ==
    /\ Ready
    /\ \E t \in confirmations :
           ~Matches(t, operation, resource) /\ confirmations' = confirmations \ {t}
    /\ told' = Silence
    /\ UNCHANGED <<phase, tickets, carried, subscriptions, walk, corpusVars>>

-----------------------------------------------------------------------------
\* The tools that change memories.

Harmless == Ready /\ UNCHANGED <<tickets, confirmations, carried>>

\* remember, one of remember_batch or capture_event: told by the memories counted
\* before and after.
ToolRemember(m) == Harmless /\ Remember(m) /\ Announce(ListChange)

ToolRememberFails(m, names) == Harmless /\ RememberInterrupted(m, names) /\ Unannounced

\* Mutant: archiving a memory does not change what is listed.
KindChanged(patch) == patch.kind # None

\* mcp_update_changes_membership()
MembershipChanged(patch) == patch.state # None \/ patch.kind # None

ToolUpdate(m, scope, patch) ==
    /\ Harmless
    /\ UpdateMemory(m, scope, memories[m].revision, patch)
    /\ Announce([list |-> MembershipChanged(patch),
                 updated |-> {[memory |-> m, scope |-> scope]}, all |-> FALSE])

ToolDelete(m, scope) ==
    /\ Confirmed("memory_delete", m)
    /\ DeleteMemory(m, scope)
    /\ Announce(ListChange)

\* delete_memory() of what the scope does not see answers that nothing was deleted.
ToolDeleteNothing(m, scope) ==
    /\ m \notin Gettable(scope)
    /\ Confirmed("memory_delete", m)
    /\ told' = Silence
    /\ UNCHANGED <<phase, subscriptions, walk, corpusVars>>

ToolDeleteFails(m, scope, names) ==
    /\ Confirmed("memory_delete", m)
    /\ DeleteInterrupted(m, scope, names, {})
    /\ Unannounced

\* A line that is created is told, one that is merged is not.
ToolConsolidate(m) ==
    /\ Confirmed("consolidate", Tenant)
    /\ \/ ConsolidateCreate(m, "consolidated") /\ Announce(ListChange)
       \/ ConsolidateCreate(m, "active") /\ Unannounced
       \/ ConsolidateMerge(m, Content[m].text, Content[m].importance) /\ Unannounced

\* All subscribers are told once anything decayed.
ToolRunLifecycle ==
    /\ Confirmed("run_lifecycle", Tenant)
    /\ RunLifecycle(Cardinality(Memories))
    /\ Announce([list |-> \E m \in DOMAIN memories : memories[m].state # memories'[m].state,
                 updated |-> {}, all |-> memories' # memories])

ToolRunLifecycleFails(upTo) ==
    /\ Confirmed("run_lifecycle", Tenant)
    /\ RunLifecycle(upTo)
    /\ Unannounced

-----------------------------------------------------------------------------
\* Resources.

\* get_disclosed_memory()
Readable(scope) == {m \in Gettable(scope) : Policy(m) # "abstain"}

\* subscribe_resource()
Subscribe(uri) ==
    /\ Ready
    /\ uri \in subscriptions \/ Cardinality(subscriptions) < MaxSubscriptions
    /\ uri.memory \in Readable(uri.scope)
    /\ subscriptions' = subscriptions \cup {uri} /\ told' = Silence
    /\ UNCHANGED <<handshakeVars, walk, corpusVars>>

\* unsubscribe_resource()
Unsubscribe(uri) ==
    /\ Ready
    /\ subscriptions' = subscriptions \ {uri} /\ told' = Silence
    /\ UNCHANGED <<handshakeVars, walk, corpusVars>>

\* What list_disclosed_memory_page() pages through, and what it shows of it.
Listable(scope) ==
    {m \in Gettable(scope) :
        memories[m].state # "archived" /\ Content[m].treatment # "quarantined"}

Listed(scope) == Listable(scope) \cap Readable(scope)

\* list_resources(): the page at the walk's offset, which is its cursor; what
\* may not be read takes a place on its page all the same.
Page(w) ==
    LET listable == Listable(w.scope)
        page == {m \in listable :
                    Cardinality(Below(listable, m)) \in w.offset .. w.offset + PageSize - 1}
    IN  [w EXCEPT !.seen = @ \o InOrder(page \cap Readable(w.scope)),
                  !.offset = @ + PageSize,
                  !.ended = w.offset + PageSize >= Cardinality(listable)]

ListResources(scope) ==
    /\ Ready
    /\ walk' = Page([scope |-> scope, offset |-> 0, seen |-> <<>>, quiet |-> TRUE,
                     ended |-> FALSE])
    /\ told' = Silence
    /\ UNCHANGED <<handshakeVars, subscriptions, corpusVars>>

ListMoreResources ==
    /\ Ready
    /\ walk # None /\ ~walk.ended
    /\ walk' = Page(walk)
    /\ told' = Silence
    /\ UNCHANGED <<handshakeVars, subscriptions, corpusVars>>

SessionNext ==
    \/ Initialize \/ Initialized \/ Restart
    \/ Confirm("consolidate", Tenant) \/ Confirm("run_lifecycle", Tenant)
    \/ \E m \in Memories :
           \/ Confirm("memory_delete", m) \/ Unconfirmed("memory_delete", m)
           \/ ToolRemember(m) \/ ToolConsolidate(m)
           \/ \E scope \in Scopes : ToolDeleteNothing(m, scope)
           \/ \E names \in SUBSET Content[m].mentions : ToolRememberFails(m, names)
    \/ \E operation \in Destructive \ {"memory_delete"} : Unconfirmed(operation, Tenant)
    \/ \E m \in DOMAIN memories, scope \in Scopes :
           \/ \E p \in Patches : ToolUpdate(m, scope, p)
           \/ ToolDelete(m, scope)
           \/ \E names \in SUBSET Content[m].mentions : ToolDeleteFails(m, scope, names)
    \/ ToolRunLifecycle
    \/ \E upTo \in Memories : ToolRunLifecycleFails(upTo)
    \/ \E uri \in Uris : Subscribe(uri) \/ (uri \in subscriptions /\ Unsubscribe(uri))
    \/ \E scope \in Scopes : ListResources(scope)
    \/ ListMoreResources

-----------------------------------------------------------------------------
\* Properties.

\* However tokens are issued, misspent, expired and repeated, no destructive
\* tool is carried out more often than it was confirmed for that very resource.
ConfirmedOnce ==
    \A i \in DOMAIN carried :
        LET same(calls) ==
                Cardinality({k \in DOMAIN calls : calls[k].operation = carried[i].operation
                                                    /\ calls[k].resource = carried[i].resource})
        IN  same(carried) <= same(tickets)

\* Whoever subscribed to a memory, as whatever scope sees it, is told of every
\* revision of it, and that the list changed when it is deleted.
SubscribersAreTold ==
    [][\A u \in subscriptions : u.memory \in DOMAIN memories =>
          IF u.memory \in DOMAIN memories'
          THEN memories'[u.memory].revision # memories[u.memory].revision => u \in told'.uris
          ELSE told'.list]_<<corpusVars, sessionVars>>

\* A client that follows the cursors to the last page has been shown every
\* listed memory exactly once, unless it was told on the way that the list
\* changed or one of its calls failed or merged a consolidated line: cursors
\* are offsets, so that a removal that goes untold would hide a memory.
PagesAreComplete ==
    walk # None =>
        (walk.ended /\ walk.quiet => walk.seen = InOrder(Listed(walk.scope)))
=============================================================================
