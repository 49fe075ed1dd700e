----------------------------- MODULE McpSessions -----------------------------
(***************************************************************************)
(* MCP sessions of the native server and the notifications they carry      *)
(* (rust/crates/celiums-memory-cli/src/server.rs): a session is opened by  *)
(* initialize, lives half an hour and has one event stream at a time.  A   *)
(* change of a resource is put into the bounded channel of every session   *)
(* concerned; when a channel is full a flag is set instead, which the      *)
(* stream turns into a general list_changed.                               *)
(*                                                                         *)
(* Publishing holds the lock on the sessions, reading a stream does not:   *)
(* the two sides meet in the channel and the flag only.  A notification    *)
(* counts as delivered when the stream yields it.                          *)
(***************************************************************************)
EXTENDS Naturals, FiniteSets, SequencesExt

CONSTANTS
    Sessions,
    UserOf,            \* the principal's user, all of one tenant
    Resources,
    ListChanged,       \* the notification that names no resource
    ChannelCapacity,
    MaxSessions,       \* max_mcp_sessions
    MaxSubscriptions,  \* per session
    MaxPublished,      \* bound on the changes published
    MaxHangUps         \* bound on streams dropped by their client

ASSUME SessionsAssumption ==
    /\ DOMAIN UserOf = Sessions
    /\ ListChanged \notin Resources
    /\ {ChannelCapacity, MaxSessions, MaxSubscriptions} \subseteq Nat \ {0}
    /\ {MaxPublished, MaxHangUps} \subseteq Nat

Notifications == Resources \cup {ListChanged}

VARIABLES
    session,        \* life of each session
    validating,     \* subscriptions whose resource the engine is looking up
    subscriptions,
    channel,        \* notification_sender and its receiver
    receiver,       \* who holds the receiver: the session or its stream
    active,         \* stream_active
    dirty,          \* notification_dirty
    stream,         \* what the session's stream is doing
    publishing,     \* notifications the publisher has still to enqueue or flag
    owed,           \* changes published that the session has not been told of since
    published, hangUps

sessionVars == <<session, validating, subscriptions>>
streamVars == <<receiver, active, hangUps>>
publishVars == <<publishing, published>>
vars == <<sessionVars, streamVars, stream, publishVars, channel, dirty, owed>>

\* Sessions in the table, their half hour over or not.
Present == {s \in Sessions : session[s] \in {"opened", "initialized", "expired"}}

TypeOK ==
    /\ session \in [Sessions -> {"none", "opened", "initialized", "expired", "removed"}]
    /\ Cardinality(Present) <= MaxSessions
    /\ validating \subseteq Sessions \X Resources
    /\ subscriptions \in [Sessions -> SUBSET Resources]
    /\ channel \in [Sessions -> Seq(Notifications)]
    /\ \A s \in Sessions :
           /\ Cardinality(subscriptions[s]) <= MaxSubscriptions
           /\ Len(channel[s]) <= ChannelCapacity
    /\ receiver \in [Sessions -> {"session", "stream"}]
    /\ active \in [Sessions -> BOOLEAN]
    /\ dirty \in [Sessions -> BOOLEAN]
    /\ stream \in [Sessions -> {"none", "ready", "polled", "asleep", "dropped", "returned"}]
    /\ publishing \subseteq Sessions \X Notifications \X {"send", "flag"}
    /\ owed \in [Sessions -> SUBSET Notifications]
    /\ published \in 0..MaxPublished
    /\ hangUps \in 0..MaxHangUps

Init ==
    /\ session = [s \in Sessions |-> "none"]
    /\ validating = {}
    /\ subscriptions = [s \in Sessions |-> {}]
    /\ channel = [s \in Sessions |-> <<>>]
    /\ receiver = [s \in Sessions |-> "session"]
    /\ active = [s \in Sessions |-> FALSE]
    /\ dirty = [s \in Sessions |-> FALSE]
    /\ stream = [s \in Sessions |-> "none"]
    /\ publishing = {}
    /\ owed = [s \in Sessions |-> {}]
    /\ published = 0
    /\ hangUps = 0

\* The lock on the sessions is free.
Unlocked == publishing = {}

\* A sleeping stream is polled again.
Woken(awake) ==
    [s \in Sessions |-> IF s \in awake /\ stream[s] = "asleep" THEN "ready" ELSE stream[s]]

-----------------------------------------------------------------------------
\* Session life: post_mcp(), mcp_protocol_response(), delete_mcp().

\* Sessions that initialize clears away before it counts.
Outlived == {s \in Sessions : session[s] = "expired"}

\* Removing a session drops its sender, which its stream notices.
Initialize(s) ==
    /\ Unlocked
    /\ session[s] = "none"
    /\ session' = [other \in Sessions |->
           IF other \in Outlived THEN "removed"
           ELSE IF other = s /\ Cardinality(Present \ Outlived) < MaxSessions THEN "opened"
           ELSE session[other]]
    /\ stream' = Woken(Outlived)
    /\ UNCHANGED <<validating, subscriptions, streamVars, publishVars, channel, dirty, owed>>

\* notifications/initialized.
Initialized(s) ==
    /\ Unlocked
    /\ session[s] = "opened"
    /\ session' = [session EXCEPT ![s] = "initialized"]
    /\ UNCHANGED <<validating, subscriptions, streamVars, stream, publishVars, channel, dirty, owed>>

\* The half hour is over, whatever the session is used for.
Expire(s) ==
    /\ Unlocked
    /\ session[s] \in {"opened", "initialized"}
    /\ session' = [session EXCEPT ![s] = "expired"]
    /\ UNCHANGED <<validating, subscriptions, streamVars, stream, publishVars, channel, dirty, owed>>

Delete(s) ==
    /\ Unlocked
    /\ s \in Present
    /\ session' = [session EXCEPT ![s] = "removed"]
    /\ stream' = Woken({s})
    /\ UNCHANGED <<validating, subscriptions, streamVars, publishVars, channel, dirty, owed>>

\* resources/subscribe has the engine look the resource up first.
SubscribeChecks(s, resource) ==
    /\ Unlocked
    /\ session[s] = "initialized"
    /\ validating' = validating \cup {<<s, resource>>}
    /\ UNCHANGED <<session, subscriptions, streamVars, stream, publishVars, channel, dirty, owed>>

\* The resource is there or not; the session may have gone or filled since.
SubscribeEnds(s, resource) ==
    /\ Unlocked
    /\ <<s, resource>> \in validating
    /\ validating' = validating \ {<<s, resource>>}
    /\ \/ UNCHANGED subscriptions
       \/ /\ s \in Present
          /\ Cardinality(subscriptions[s]) < MaxSubscriptions
          /\ subscriptions' = [subscriptions EXCEPT ![s] = @ \cup {resource}]
    /\ UNCHANGED <<session, streamVars, stream, publishVars, channel, dirty, owed>>

Unsubscribe(s, resource) ==
    /\ Unlocked
    /\ session[s] = "initialized"
    /\ resource \in subscriptions[s]
    /\ subscriptions' = [subscriptions EXCEPT ![s] = @ \ {resource}]
    /\ UNCHANGED <<session, validating, streamVars, stream, publishVars, channel, dirty, owed>>

-----------------------------------------------------------------------------
\* Publishing: publish_resource_change(), which keeps the lock throughout.

\* The notifications a change means for a session.
Concerns(s, user, list, updated, wide) ==
    IF session[s] = "initialized" /\ (wide \/ UserOf[s] = user)
      THEN (IF list THEN {ListChanged} ELSE {})
               \cup {r \in subscriptions[s] : wide \/ r \in updated}
      ELSE {}

Publish(user, list, updated, wide) ==
    LET told == [s \in Sessions |-> Concerns(s, user, list, updated, wide)] IN
    /\ Unlocked
    /\ published < MaxPublished
    /\ published' = published + 1
    /\ publishing' = {<<s, m, "send">> : s \in Sessions, m \in Notifications}
                         \cap UNION {{s} \X told[s] \X {"send"} : s \in Sessions}
    /\ owed' = [s \in Sessions |-> owed[s] \cup told[s]]
    /\ UNCHANGED <<sessionVars, streamVars, stream, channel, dirty>>

\* Mutant: a notification for which there is no room is dropped.
EnqueueOrDrop(s, m) ==
    /\ <<s, m, "send">> \in publishing
    /\ publishing' = publishing \ {<<s, m, "send">>}
    /\ channel' = IF Len(channel[s]) < ChannelCapacity
                    THEN [channel EXCEPT ![s] = Append(@, m)] ELSE channel
    /\ stream' = Woken({s})
    /\ UNCHANGED <<sessionVars, streamVars, published, dirty, owed>>

\* enqueue_notification(): into the channel, which wakes the stream, or, when it
\* is full, on to the flag, which does not.
Enqueue(s, m) ==
    /\ <<s, m, "send">> \in publishing
    /\ \/ /\ Len(channel[s]) < ChannelCapacity
          /\ channel' = [channel EXCEPT ![s] = Append(@, m)]
          /\ publishing' = publishing \ {<<s, m, "send">>}
          /\ stream' = Woken({s})
       \/ /\ Len(channel[s]) = ChannelCapacity
          /\ publishing' = (publishing \ {<<s, m, "send">>}) \cup {<<s, m, "flag">>}
          /\ UNCHANGED <<channel, stream>>
    /\ UNCHANGED <<sessionVars, streamVars, published, dirty, owed>>

SetFlag(s, m) ==
    /\ <<s, m, "flag">> \in publishing
    /\ dirty' = [dirty EXCEPT ![s] = TRUE]
    /\ publishing' = publishing \ {<<s, m, "flag">>}
    /\ UNCHANGED <<sessionVars, streamVars, stream, published, channel, owed>>

-----------------------------------------------------------------------------
\* The event stream: get_mcp() and SessionEventStream.

\* A stream takes the receiver out of the session.  While another is active, or
\* without a receiver, it is refused.
OpenStream(s) ==
    /\ Unlocked
    /\ session[s] = "initialized"
    /\ ~active[s]
    /\ receiver[s] = "session"
    /\ active' = [active EXCEPT ![s] = TRUE]
    /\ receiver' = [receiver EXCEPT ![s] = "stream"]
    /\ stream' = [stream EXCEPT ![s] = "ready"]
    /\ UNCHANGED <<sessionVars, hangUps, publishVars, channel, dirty, owed>>

\* poll_next() looks at the flag and yields list_changed for it.
PollFlag(s) ==
    /\ stream[s] = "ready"
    /\ IF dirty[s]
         THEN /\ dirty' = [dirty EXCEPT ![s] = FALSE]
              /\ owed' = [owed EXCEPT ![s] = {}]
              /\ UNCHANGED stream
         ELSE /\ stream' = [stream EXCEPT ![s] = "polled"]
              /\ UNCHANGED <<dirty, owed>>
    /\ UNCHANGED <<sessionVars, streamVars, publishVars, channel>>

\* Then at the channel: its next notification is yielded, or the stream sleeps
\* until there is one, or it ends when the session is gone.
PollChannel(s) ==
    /\ stream[s] = "polled"
    /\ IF channel[s] # <<>>
         THEN /\ channel' = [channel EXCEPT ![s] = Tail(@)]
              /\ owed' = [owed EXCEPT ![s] = @ \ {Head(channel[s])}]
              /\ stream' = [stream EXCEPT ![s] = "ready"]
         ELSE /\ stream' = [stream EXCEPT ![s] = IF s \in Present THEN "asleep" ELSE "dropped"]
              /\ UNCHANGED <<channel, owed>>
    /\ UNCHANGED <<sessionVars, streamVars, publishVars, dirty>>

\* Mutant: the keep-alive does not look at the flag.
KeepAliveQuietly(s) ==
    /\ stream[s] = "asleep"
    /\ channel[s] # <<>>
    /\ stream' = [stream EXCEPT ![s] = "polled"]
    /\ UNCHANGED <<sessionVars, streamVars, publishVars, channel, dirty, owed>>

\* Every 15 seconds the keep-alive polls a sleeping stream.
KeepAlive(s) ==
    /\ stream[s] = "asleep"
    /\ stream' = [stream EXCEPT ![s] = "ready"]
    /\ UNCHANGED <<sessionVars, streamVars, publishVars, channel, dirty, owed>>

\* The client hangs up and the stream is dropped.
HangUp(s) ==
    /\ stream[s] \in {"ready", "asleep"}
    /\ hangUps < MaxHangUps
    /\ hangUps' = hangUps + 1
    /\ stream' = [stream EXCEPT ![s] = "dropped"]
    /\ UNCHANGED <<sessionVars, receiver, active, publishVars, channel, dirty, owed>>

\* Mutant: the stream lets go of its slot before it returns the receiver.
ReturnReceiverLast(s) ==
    /\ stream[s] = "dropped"
    /\ active' = [active EXCEPT ![s] = FALSE]
    /\ stream' = [stream EXCEPT ![s] = "returned"]
    /\ UNCHANGED <<sessionVars, receiver, hangUps, publishVars, channel, dirty, owed>>

\* drop() puts the receiver back and then frees the slot.
ReturnReceiver(s) ==
    /\ stream[s] = "dropped"
    /\ receiver' = [receiver EXCEPT ![s] = "session"]
    /\ stream' = [stream EXCEPT ![s] = "returned"]
    /\ UNCHANGED <<sessionVars, active, hangUps, publishVars, channel, dirty, owed>>

FreeSlot(s) ==
    /\ stream[s] = "returned"
    /\ active' = [active EXCEPT ![s] = FALSE]
    /\ stream' = [stream EXCEPT ![s] = "none"]
    /\ UNCHANGED <<sessionVars, receiver, hangUps, publishVars, channel, dirty, owed>>

-----------------------------------------------------------------------------
SessionStep(s) ==
    \/ Initialize(s) \/ Initialized(s) \/ Expire(s) \/ Delete(s)
    \/ \E resource \in Resources :
           \/ SubscribeChecks(s, resource)
           \/ SubscribeEnds(s, resource)
           \/ Unsubscribe(s, resource)
PublishStep == \E s \in Sessions, m \in Notifications : Enqueue(s, m) \/ SetFlag(s, m)
StreamStep(s) == PollFlag(s) \/ PollChannel(s) \/ ReturnReceiver(s) \/ FreeSlot(s)

Next ==
    \/ \E s \in Sessions : SessionStep(s) \/ OpenStream(s) \/ StreamStep(s)
                               \/ KeepAlive(s) \/ HangUp(s)
    \/ PublishStep
    \/ \E user \in Range(UserOf), updated \in SUBSET Resources, list, wide \in BOOLEAN :
           Publish(user, list, updated, wide)

Spec == Init /\ [][Next]_vars

\* The publisher finishes, an open stream is polled while it has something to
\* say, and the keep-alive timer fires.
FairSpec ==
    /\ Spec
    /\ WF_vars(PublishStep)
    /\ \A s \in Sessions : WF_vars(StreamStep(s) \/ KeepAlive(s))

-----------------------------------------------------------------------------
\* A change a session has to be told of is on its way to it, in the channel, as
\* the flag or with the publisher, whatever stream comes and goes meanwhile
\* (enqueue_notification, poll_next).
OwedIsOnItsWay ==
    \A s \in Sessions : \A m \in owed[s] :
        \/ m \in Range(channel[s])
        \/ dirty[s]
        \/ \E step \in {"send", "flag"} : <<s, m, step>> \in publishing

\* A session without a stream can be given one: its receiver is back before its
\* slot is free (get_mcp, drop).
FreeSlotHasReceiver ==
    \A s \in Sessions : ~active[s] => receiver[s] = "session" /\ stream[s] = "none"

\* Sessions do not outnumber their places, and one without a stream can be given
\* one (post_mcp, which counts after it has cleared away; get_mcp).
SlotsAddUp == Cardinality(Present) <= MaxSessions /\ FreeSlotHasReceiver

\* An open stream tells its client of every change, or of the list as a whole,
\* although setting the flag wakes nobody (poll_next, keep_alive).
OwedIsTold ==
    \A s \in Sessions, m \in Notifications :
        m \in owed[s] /\ stream[s] \in {"ready", "polled", "asleep"} ~>
            m \notin owed[s] \/ stream[s] \in {"dropped", "returned", "none"}
=============================================================================
