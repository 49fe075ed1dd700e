-------------------------- MODULE McpSessionsProofs --------------------------
(***************************************************************************)
(* What MCP sessions and their streams keep true, proved for any number of *)
(* sessions and resources, any channel capacity and any number of changes  *)
(* and hang-ups.                                                           *)
(***************************************************************************)
EXTENDS McpSessions, FiniteSetTheorems, SequenceTheorems, TLAPS

(***************************************************************************)
(* The invariant.  The receiver of a session's channel is handed over when *)
(* its stream is opened and when the stream is dropped; what lets the next *)
(* stream be opened is that the slot is freed after the receiver is back.  *)
(* Neither table needs a finite set of sessions or resources to be drawn   *)
(* from: the tables themselves are finite.                                 *)
(***************************************************************************)

TablesAreFinite ==
    /\ IsFiniteSet(Present)
    /\ \A s \in Sessions : IsFiniteSet(subscriptions[s])

StreamHoldsReceiver ==
    \A s \in Sessions :
        /\ active[s] <=> stream[s] # "none"
        /\ receiver[s] = "stream" <=> stream[s] \in {"ready", "polled", "asleep", "dropped"}

SessionsInv ==
    /\ TypeOK
    /\ TablesAreFinite
    /\ StreamHoldsReceiver
    /\ OwedIsOnItsWay

LEMMA ConstantsAreNumbers ==
    /\ ChannelCapacity \in Nat \ {0}
    /\ MaxSessions \in Nat \ {0}
    /\ MaxSubscriptions \in Nat \ {0}
    /\ MaxPublished \in Nat
    /\ MaxHangUps \in Nat
  BY SessionsAssumption

USE ConstantsAreNumbers DEF sessionVars, streamVars, publishVars

-----------------------------------------------------------------------------
\* Lemmas about the operators of the model.

\* A notification in the channel is still there once another has been enqueued,
\* and stays when another is taken.
LEMMA ChannelKeeps ==
    ASSUME NEW queue \in Seq(Notifications), NEW m \in Notifications
    PROVE  /\ Range(Append(queue, m)) = Range(queue) \cup {m}
           /\ queue # <<>> => Range(queue) = {Head(queue)} \cup Range(Tail(queue))
  <1>1. Range(Append(queue, m)) = Range(queue) \cup {m}
    <2> DEFINE longer == Append(queue, m)
               n == Len(queue)
    <2>1. /\ n \in Nat
          /\ DOMAIN queue = 1..n
          /\ DOMAIN longer = 1..n + 1
          /\ \A i \in 1..n : longer[i] = queue[i]
          /\ longer[n + 1] = m
      BY AppendProperties, LenProperties
    <2> HIDE DEF longer, n
    <2>2. Range(longer) = {longer[i] : i \in 1..n + 1}
      BY <2>1 DEF Range
    <2>3. Range(queue) = {queue[i] : i \in 1..n}
      BY <2>1 DEF Range
    <2>4. \A i \in 1..n + 1 : i \in 1..n \/ i = n + 1
      BY <2>1
    <2>5. \A i \in 1..n : i \in 1..n + 1
      BY <2>1
    <2>6. n + 1 \in 1..n + 1
      BY <2>1
    <2>7. Range(longer) = Range(queue) \cup {m}
      BY <2>1, <2>2, <2>3, <2>4, <2>5, <2>6
    <2> QED
      BY <2>7 DEF longer
  <1>2. ASSUME queue # <<>> PROVE Range(queue) = {Head(queue)} \cup Range(Tail(queue))
    <2>1. /\ Tail(queue) \in Seq(Notifications)
          /\ Len(Tail(queue)) = Len(queue) - 1
          /\ \A i \in 1..Len(Tail(queue)) : Tail(queue)[i] = queue[i + 1]
          /\ Len(queue) \in Nat \ {0}
          /\ Head(queue) = queue[1]
      BY <1>2, HeadTailProperties, EmptySeq
    <2>2. /\ Range(queue) = {queue[i] : i \in 1..Len(queue)}
          /\ Range(Tail(queue)) = {Tail(queue)[i] : i \in 1..Len(Tail(queue))}
      <3>1. DOMAIN queue = 1..Len(queue) /\ DOMAIN Tail(queue) = 1..Len(Tail(queue))
        BY <2>1, LenProperties
      <3> QED
        BY <3>1 DEF Range
    <2>3. \A i \in 1..Len(queue) : i = 1 \/ (i - 1 \in 1..Len(Tail(queue)) /\ queue[i] = Tail(queue)[i - 1])
      BY <2>1
    <2>4. \A i \in 1..Len(Tail(queue)) : i + 1 \in 1..Len(queue)
      BY <2>1
    <2>5. Range(queue) \subseteq {Head(queue)} \cup Range(Tail(queue))
      BY <2>1, <2>2, <2>3
    <2>6. {Head(queue)} \cup Range(Tail(queue)) \subseteq Range(queue)
      BY <2>1, <2>2, <2>4
    <2> QED
      BY <2>5, <2>6
  <1> QED
    BY <1>1, <1>2

\* Waking a stream gives and takes no receiver.
LEMMA WakingKeeps ==
    ASSUME SessionsInv, NEW awake, stream' = Woken(awake), UNCHANGED streamVars
    PROVE  /\ stream' \in [Sessions -> {"none", "ready", "polled", "asleep", "dropped", "returned"}]
           /\ StreamHoldsReceiver'
  BY DEF SessionsInv, TypeOK, StreamHoldsReceiver, Woken

\* Whatever shrinks the table leaves it in its bounds.
LEMMA TableShrinks ==
    ASSUME SessionsInv, Present' \subseteq Present
    PROVE  IsFiniteSet(Present') /\ Cardinality(Present') <= MaxSessions
  <1>1. IsFiniteSet(Present) /\ Cardinality(Present) <= MaxSessions
    BY DEF SessionsInv, TypeOK, TablesAreFinite
  <1>2. /\ IsFiniteSet(Present')
        /\ Cardinality(Present') <= Cardinality(Present)
    BY <1>1, FS_Subset
  <1>3. Cardinality(Present) \in Nat /\ Cardinality(Present') \in Nat
    BY <1>1, <1>2, FS_CardinalityType
  <1> QED
    BY <1>1, <1>2, <1>3

-----------------------------------------------------------------------------
LEMMA NoSessionsAreSound == Init => SessionsInv
  <1> SUFFICES ASSUME Init PROVE SessionsInv
    OBVIOUS
  <1>1. Present = {} /\ \A s \in Sessions : subscriptions[s] = {}
    BY DEF Init, Present
  <1>2. TablesAreFinite
    BY <1>1, FS_EmptySet DEF TablesAreFinite
  <1>3. Cardinality(Present) <= MaxSessions
    BY <1>1, FS_EmptySet
  <1>4. \A s \in Sessions : Cardinality(subscriptions[s]) <= MaxSubscriptions
    BY <1>1, FS_EmptySet
  <1>5. TypeOK
    BY <1>3, <1>4 DEF Init, TypeOK
  <1>6. StreamHoldsReceiver /\ OwedIsOnItsWay
    BY DEF Init, StreamHoldsReceiver, OwedIsOnItsWay
  <1> QED
    BY <1>2, <1>5, <1>6 DEF SessionsInv

\* Opening counts the places once those outlived are cleared away.
LEMMA InitializeKeeps ==
    ASSUME SessionsInv, NEW s \in Sessions, Initialize(s)
    PROVE  SessionsInv'
  <1> DEFINE left == Present \ Outlived
  <1>1. IsFiniteSet(left) /\ left \subseteq Present
    BY FS_Subset DEF SessionsInv, TablesAreFinite
  <1>2. IsFiniteSet(Present') /\ Cardinality(Present') <= MaxSessions
    <2>1. CASE Cardinality(left) < MaxSessions
      <3>1. Present' \subseteq left \cup {s}
        BY DEF Initialize, Present, Outlived
      <3>2. /\ IsFiniteSet(left \cup {s})
            /\ Cardinality(left \cup {s}) = IF s \in left THEN Cardinality(left)
                                            ELSE Cardinality(left) + 1
        BY <1>1, FS_AddElement
      <3>3. /\ IsFiniteSet(Present')
            /\ Cardinality(Present') <= Cardinality(left \cup {s})
        BY <3>1, <3>2, FS_Subset
      <3>4. Cardinality(left) \in Nat /\ Cardinality(Present') \in Nat
        BY <1>1, <3>3, FS_CardinalityType
      <3> QED
        BY <2>1, <3>2, <3>3, <3>4
    <2>2. CASE ~(Cardinality(left) < MaxSessions)
      <3>1. Present' \subseteq Present
        BY <2>2 DEF Initialize, Present, Outlived
      <3> QED
        BY <3>1, TableShrinks
    <2> QED
      BY <2>1, <2>2
  <1>3. session' \in [Sessions -> {"none", "opened", "initialized", "expired", "removed"}]
    BY DEF Initialize, SessionsInv, TypeOK
  <1>4. /\ stream' \in [Sessions -> {"none", "ready", "polled", "asleep", "dropped", "returned"}]
        /\ StreamHoldsReceiver'
    BY WakingKeeps DEF Initialize
  <1>5. TypeOK'
    BY <1>2, <1>3, <1>4 DEF Initialize, SessionsInv, TypeOK
  <1>6. TablesAreFinite' /\ OwedIsOnItsWay'
    BY <1>2 DEF Initialize, SessionsInv, TablesAreFinite, OwedIsOnItsWay
  <1> QED
    BY <1>4, <1>5, <1>6 DEF SessionsInv

LEMMA LifeKeeps ==
    ASSUME SessionsInv, NEW s \in Sessions, Initialized(s) \/ Expire(s) \/ Delete(s)
    PROVE  SessionsInv'
  <1>1. /\ session' \in [Sessions -> {"none", "opened", "initialized", "expired", "removed"}]
        /\ Present' \subseteq Present
    BY DEF Initialized, Expire, Delete, SessionsInv, TypeOK, Present
  <1>2. IsFiniteSet(Present') /\ Cardinality(Present') <= MaxSessions
    BY <1>1, TableShrinks
  <1>3. UNCHANGED <<validating, subscriptions, streamVars, publishVars, channel, dirty, owed>>
    BY DEF Initialized, Expire, Delete
  <1>4. /\ stream' \in [Sessions -> {"none", "ready", "polled", "asleep", "dropped", "returned"}]
        /\ StreamHoldsReceiver'
    <2>1. UNCHANGED stream \/ stream' = Woken({s})
      BY DEF Initialized, Expire, Delete
    <2>2. CASE UNCHANGED stream
      BY <1>3, <2>2 DEF SessionsInv, TypeOK, StreamHoldsReceiver
    <2> QED
      BY <1>3, <2>1, <2>2, WakingKeeps
  <1>5. TypeOK'
    BY <1>1, <1>2, <1>3, <1>4 DEF SessionsInv, TypeOK
  <1>6. TablesAreFinite' /\ OwedIsOnItsWay'
    BY <1>2, <1>3 DEF SessionsInv, TablesAreFinite, OwedIsOnItsWay
  <1> QED
    BY <1>4, <1>5, <1>6 DEF SessionsInv

LEMMA SubscriptionsKeep ==
    ASSUME SessionsInv, NEW s \in Sessions, NEW resource \in Resources,
           \/ SubscribeChecks(s, resource)
           \/ SubscribeEnds(s, resource)
           \/ Unsubscribe(s, resource)
    PROVE  SessionsInv'
  <1>1. UNCHANGED <<session, streamVars, stream, publishVars, channel, dirty, owed>>
    BY DEF SubscribeChecks, SubscribeEnds, Unsubscribe
  <1>2. /\ subscriptions \in [Sessions -> SUBSET Resources]
        /\ validating \subseteq Sessions \X Resources
        /\ IsFiniteSet(subscriptions[s]) /\ Cardinality(subscriptions[s]) <= MaxSubscriptions
    BY DEF SessionsInv, TypeOK, TablesAreFinite
  <1>3. /\ subscriptions' \in [Sessions -> SUBSET Resources]
        /\ validating' \subseteq Sessions \X Resources
        /\ \A other \in Sessions : other # s => subscriptions'[other] = subscriptions[other]
    BY <1>2 DEF SubscribeChecks, SubscribeEnds, Unsubscribe
  <1>4. IsFiniteSet(subscriptions'[s]) /\ Cardinality(subscriptions'[s]) <= MaxSubscriptions
    <2>1. CASE subscriptions'[s] \subseteq subscriptions[s]
      <3>1. /\ IsFiniteSet(subscriptions'[s])
            /\ Cardinality(subscriptions'[s]) <= Cardinality(subscriptions[s])
        BY <1>2, <2>1, FS_Subset
      <3> QED
        BY <1>2, <3>1, FS_CardinalityType
    <2>2. CASE /\ Cardinality(subscriptions[s]) < MaxSubscriptions
               /\ subscriptions'[s] = subscriptions[s] \cup {resource}
      <3>1. /\ IsFiniteSet(subscriptions'[s])
            /\ Cardinality(subscriptions'[s]) = IF resource \in subscriptions[s]
                                                THEN Cardinality(subscriptions[s])
                                                ELSE Cardinality(subscriptions[s]) + 1
        BY <1>2, <2>2, FS_AddElement
      <3>2. Cardinality(subscriptions[s]) \in Nat
        BY <1>2, FS_CardinalityType
      <3> QED
        BY <2>2, <3>1, <3>2
    <2>3. \/ subscriptions'[s] \subseteq subscriptions[s]
          \/ /\ Cardinality(subscriptions[s]) < MaxSubscriptions
             /\ subscriptions'[s] = subscriptions[s] \cup {resource}
      BY <1>2 DEF SubscribeChecks, SubscribeEnds, Unsubscribe
    <2> QED
      BY <2>1, <2>2, <2>3
  <1>5. Present' = Present
    BY <1>1 DEF Present
  <1>6. \A other \in Sessions :
            /\ IsFiniteSet(subscriptions'[other])
            /\ Cardinality(subscriptions'[other]) <= MaxSubscriptions
    BY <1>3, <1>4 DEF SessionsInv, TypeOK, TablesAreFinite
  <1>7. TypeOK'
    BY <1>1, <1>3, <1>5, <1>6 DEF SessionsInv, TypeOK
  <1>8. TablesAreFinite' /\ StreamHoldsReceiver' /\ OwedIsOnItsWay'
    BY <1>1, <1>5, <1>6
    DEF SessionsInv, TablesAreFinite, StreamHoldsReceiver, OwedIsOnItsWay
  <1> QED
    BY <1>7, <1>8 DEF SessionsInv

-----------------------------------------------------------------------------
\* Publishing and streaming leave the tables as they are.
LEMMA TablesStay ==
    ASSUME SessionsInv, UNCHANGED sessionVars
    PROVE  /\ Present' = Present
           /\ TablesAreFinite'
           /\ Cardinality(Present') <= MaxSessions
           /\ \A s \in Sessions : Cardinality(subscriptions'[s]) <= MaxSubscriptions
  BY DEF SessionsInv, TypeOK, TablesAreFinite, Present

LEMMA PublishKeeps ==
    ASSUME SessionsInv, NEW user, NEW list, NEW updated, NEW wide,
           Publish(user, list, updated, wide)
    PROVE  SessionsInv'
  <1> DEFINE told == [s \in Sessions |-> Concerns(s, user, list, updated, wide)]
  <1>1. /\ published < MaxPublished /\ published' = published + 1
        /\ publishing = {}
        /\ publishing' = {<<s, m, "send">> : s \in Sessions, m \in Notifications}
                             \cap UNION {{s} \X told[s] \X {"send"} : s \in Sessions}
        /\ owed' = [s \in Sessions |-> owed[s] \cup told[s]]
        /\ UNCHANGED <<sessionVars, streamVars, stream, channel, dirty>>
    BY DEF Publish, Unlocked
  <1>2. \A s \in Sessions : told[s] \subseteq Notifications
    BY DEF Concerns, Notifications, SessionsInv, TypeOK
  <1>3. publishing' \subseteq Sessions \X Notifications \X {"send", "flag"}
    BY <1>1
  <1>4. owed' \in [Sessions -> SUBSET Notifications]
    BY <1>1, <1>2 DEF SessionsInv, TypeOK
  <1>5. published' \in 0..MaxPublished
    BY <1>1 DEF SessionsInv, TypeOK
  <1>6. \A s \in Sessions : \A m \in told[s] : <<s, m, "send">> \in publishing'
    <2> SUFFICES ASSUME NEW s \in Sessions, NEW m \in told[s]
                 PROVE  <<s, m, "send">> \in publishing'
      OBVIOUS
    <2>1. m \in Notifications
      BY <1>2
    <2>2. <<s, m, "send">> \in {s} \X told[s] \X {"send"}
      OBVIOUS
    <2> HIDE DEF told
    <2> QED
      BY <1>1, <2>1, <2>2
  <1>7. OwedIsOnItsWay'
    <2> SUFFICES ASSUME NEW s \in Sessions, NEW m \in owed'[s]
                 PROVE  \/ m \in Range(channel'[s])
                        \/ dirty'[s]
                        \/ <<s, m, "send">> \in publishing'
      BY DEF OwedIsOnItsWay
    <2>1. m \in owed[s] \/ m \in told[s]
      BY <1>1
    <2> HIDE DEF told
    <2> QED
      BY <1>1, <1>6, <2>1 DEF SessionsInv, OwedIsOnItsWay
  <1>8. TypeOK'
    BY <1>1, <1>3, <1>4, <1>5, TablesStay DEF SessionsInv, TypeOK
  <1>9. TablesAreFinite' /\ StreamHoldsReceiver'
    BY <1>1, TablesStay DEF SessionsInv, StreamHoldsReceiver
  <1> QED
    BY <1>7, <1>8, <1>9 DEF SessionsInv

LEMMA EnqueueKeeps ==
    ASSUME SessionsInv, NEW s \in Sessions, NEW m \in Notifications, Enqueue(s, m)
    PROVE  SessionsInv'
  <1>1. /\ channel[s] \in Seq(Notifications)
        /\ channel \in [Sessions -> Seq(Notifications)]
        /\ Len(channel[s]) \in Nat
        /\ UNCHANGED <<sessionVars, streamVars, published, dirty, owed>>
    BY DEF Enqueue, SessionsInv, TypeOK
  <1>2. CASE /\ Len(channel[s]) < ChannelCapacity
             /\ channel' = [channel EXCEPT ![s] = Append(@, m)]
             /\ publishing' = publishing \ {<<s, m, "send">>}
             /\ stream' = Woken({s})
    <2>1. /\ Append(channel[s], m) \in Seq(Notifications)
          /\ Len(Append(channel[s], m)) = Len(channel[s]) + 1
      BY <1>1, AppendProperties
    <2>2. /\ channel' \in [Sessions -> Seq(Notifications)]
          /\ \A other \in Sessions : Len(channel'[other]) <= ChannelCapacity
      BY <1>1, <1>2, <2>1 DEF SessionsInv, TypeOK
    <2>3. /\ stream' \in [Sessions -> {"none", "ready", "polled", "asleep", "dropped", "returned"}]
          /\ StreamHoldsReceiver'
      BY <1>1, <1>2, WakingKeeps
    <2>4. /\ Range(channel'[s]) = Range(channel[s]) \cup {m}
          /\ \A other \in Sessions : other # s => channel'[other] = channel[other]
      BY <1>1, <1>2, ChannelKeeps
    <2>5. OwedIsOnItsWay'
      BY <1>1, <1>2, <2>4 DEF SessionsInv, OwedIsOnItsWay
    <2>6. TypeOK'
      BY <1>1, <1>2, <2>2, <2>3, TablesStay DEF SessionsInv, TypeOK
    <2> QED
      BY <1>1, <2>3, <2>5, <2>6, TablesStay DEF SessionsInv
  <1>3. CASE /\ publishing' = (publishing \ {<<s, m, "send">>}) \cup {<<s, m, "flag">>}
             /\ UNCHANGED <<channel, stream>>
    <2>1. publishing' \subseteq Sessions \X Notifications \X {"send", "flag"}
      BY <1>3 DEF SessionsInv, TypeOK
    <2>2. TypeOK'
      BY <1>1, <1>3, <2>1, TablesStay DEF SessionsInv, TypeOK
    <2>3. OwedIsOnItsWay'
      BY <1>1, <1>3 DEF SessionsInv, OwedIsOnItsWay
    <2> QED
      BY <1>1, <1>3, <2>2, <2>3, TablesStay DEF SessionsInv, StreamHoldsReceiver
  <1> QED
    BY <1>2, <1>3 DEF Enqueue

LEMMA SetFlagKeeps ==
    ASSUME SessionsInv, NEW s \in Sessions, NEW m \in Notifications, SetFlag(s, m)
    PROVE  SessionsInv'
  <1>1. /\ dirty' = [dirty EXCEPT ![s] = TRUE]
        /\ publishing' = publishing \ {<<s, m, "flag">>}
        /\ UNCHANGED <<sessionVars, streamVars, stream, published, channel, owed>>
    BY DEF SetFlag
  <1>2. TypeOK'
    BY <1>1, TablesStay DEF SessionsInv, TypeOK
  <1>3. OwedIsOnItsWay'
    BY <1>1 DEF SessionsInv, TypeOK, OwedIsOnItsWay
  <1> QED
    BY <1>1, <1>2, <1>3, TablesStay DEF SessionsInv, StreamHoldsReceiver

\* The stream says of a notification that it yields, or of the list as a whole.
LEMMA PollFlagKeeps ==
    ASSUME SessionsInv, NEW s \in Sessions, PollFlag(s)
    PROVE  SessionsInv'
  <1>1. /\ UNCHANGED <<sessionVars, streamVars, publishVars, channel>>
        /\ stream[s] = "ready"
        /\ \/ /\ dirty' = [dirty EXCEPT ![s] = FALSE]
              /\ owed' = [owed EXCEPT ![s] = {}]
              /\ UNCHANGED stream
           \/ /\ stream' = [stream EXCEPT ![s] = "polled"]
              /\ UNCHANGED <<dirty, owed>>
    BY DEF PollFlag
  <1>2. TypeOK'
    BY <1>1, TablesStay DEF SessionsInv, TypeOK
  <1>3. StreamHoldsReceiver'
    BY <1>1 DEF SessionsInv, TypeOK, StreamHoldsReceiver
  <1>4. OwedIsOnItsWay'
    BY <1>1 DEF SessionsInv, TypeOK, OwedIsOnItsWay
  <1> QED
    BY <1>1, <1>2, <1>3, <1>4, TablesStay DEF SessionsInv

LEMMA PollChannelKeeps ==
    ASSUME SessionsInv, NEW s \in Sessions, PollChannel(s)
    PROVE  SessionsInv'
  <1>1. /\ UNCHANGED <<sessionVars, streamVars, publishVars, dirty>>
        /\ stream[s] = "polled"
        /\ channel \in [Sessions -> Seq(Notifications)]
        /\ owed \in [Sessions -> SUBSET Notifications]
    BY DEF PollChannel, SessionsInv, TypeOK
  <1>2. \E next \in {"ready", "asleep", "dropped"} : stream' = [stream EXCEPT ![s] = next]
    BY DEF PollChannel
  <1>3. StreamHoldsReceiver'
    BY <1>1, <1>2 DEF SessionsInv, TypeOK, StreamHoldsReceiver
  <1>4. CASE channel[s] # <<>>
    <2>1. /\ channel' = [channel EXCEPT ![s] = Tail(@)]
          /\ owed' = [owed EXCEPT ![s] = @ \ {Head(channel[s])}]
      BY <1>4 DEF PollChannel
    <2>2. /\ Tail(channel[s]) \in Seq(Notifications)
          /\ Len(Tail(channel[s])) = Len(channel[s]) - 1
          /\ Len(channel[s]) \in Nat
      BY <1>1, <1>4, HeadTailProperties
    <2>3. /\ channel' \in [Sessions -> Seq(Notifications)]
          /\ \A other \in Sessions : Len(channel'[other]) <= ChannelCapacity
      BY <1>1, <2>1, <2>2 DEF SessionsInv, TypeOK
    <2>4. TypeOK'
      BY <1>1, <1>2, <2>1, <2>3, TablesStay DEF SessionsInv, TypeOK
    <2>5. Range(channel[s]) = {Head(channel[s])} \cup Range(Tail(channel[s]))
      BY <1>1, <1>4, ChannelKeeps
    <2>6. /\ \A m \in owed'[s] : m \in owed[s] /\ m # Head(channel[s])
          /\ channel'[s] = Tail(channel[s])
          /\ \A other \in Sessions : other # s => /\ channel'[other] = channel[other]
                                                  /\ owed'[other] = owed[other]
      BY <1>1, <2>1
    <2>7. OwedIsOnItsWay'
      BY <1>1, <2>5, <2>6 DEF SessionsInv, OwedIsOnItsWay
    <2> QED
      BY <1>1, <1>3, <2>4, <2>7, TablesStay DEF SessionsInv
  <1>5. CASE channel[s] = <<>>
    <2>1. UNCHANGED <<channel, owed>>
      BY <1>5 DEF PollChannel
    <2>2. TypeOK'
      BY <1>1, <1>2, <2>1, TablesStay DEF SessionsInv, TypeOK
    <2>3. OwedIsOnItsWay'
      BY <1>1, <2>1 DEF SessionsInv, OwedIsOnItsWay
    <2> QED
      BY <1>1, <1>3, <2>2, <2>3, TablesStay DEF SessionsInv
  <1> QED
    BY <1>4, <1>5

LEMMA StreamComesAndGoes ==
    ASSUME SessionsInv, NEW s \in Sessions,
           OpenStream(s) \/ KeepAlive(s) \/ HangUp(s) \/ ReturnReceiver(s) \/ FreeSlot(s)
    PROVE  SessionsInv'
  <1>1. UNCHANGED <<sessionVars, publishVars, channel, dirty, owed>>
    BY DEF OpenStream, KeepAlive, HangUp, ReturnReceiver, FreeSlot
  <1>2. /\ stream' \in [Sessions -> {"none", "ready", "polled", "asleep", "dropped", "returned"}]
        /\ receiver' \in [Sessions -> {"session", "stream"}]
        /\ active' \in [Sessions -> BOOLEAN]
    BY DEF OpenStream, KeepAlive, HangUp, ReturnReceiver, FreeSlot, SessionsInv, TypeOK
  <1>3. hangUps' \in 0..MaxHangUps
    <2>1. hangUps \in 0..MaxHangUps
      BY DEF SessionsInv, TypeOK
    <2>2. UNCHANGED hangUps \/ (hangUps < MaxHangUps /\ hangUps' = hangUps + 1)
      BY DEF OpenStream, KeepAlive, HangUp, ReturnReceiver, FreeSlot
    <2> QED
      BY <2>1, <2>2
  <1>4. StreamHoldsReceiver'
    BY DEF OpenStream, KeepAlive, HangUp, ReturnReceiver, FreeSlot, SessionsInv, TypeOK,
           StreamHoldsReceiver
  <1>5. TypeOK'
    BY <1>1, <1>2, <1>3, TablesStay DEF SessionsInv, TypeOK
  <1>6. OwedIsOnItsWay'
    BY <1>1 DEF SessionsInv, OwedIsOnItsWay
  <1> QED
    BY <1>1, <1>4, <1>5, <1>6, TablesStay DEF SessionsInv

LEMMA NextKeeps == SessionsInv /\ [Next]_vars => SessionsInv'
  <1> SUFFICES ASSUME SessionsInv, [Next]_vars PROVE SessionsInv'
    OBVIOUS
  <1>1. ASSUME NEW s \in Sessions, SessionStep(s) PROVE SessionsInv'
    BY <1>1, InitializeKeeps, LifeKeeps, SubscriptionsKeep DEF SessionStep
  <1>2. ASSUME NEW s \in Sessions, OpenStream(s) \/ StreamStep(s) \/ KeepAlive(s) \/ HangUp(s)
        PROVE  SessionsInv'
    BY <1>2, PollFlagKeeps, PollChannelKeeps, StreamComesAndGoes DEF StreamStep
  <1>3. CASE PublishStep
    BY <1>3, EnqueueKeeps, SetFlagKeeps DEF PublishStep
  <1>4. ASSUME NEW user, NEW updated, NEW list, NEW wide, Publish(user, list, updated, wide)
        PROVE  SessionsInv'
    BY <1>4, PublishKeeps
  <1>5. CASE UNCHANGED vars
    BY <1>5, TablesStay
    DEF vars, SessionsInv, TypeOK, StreamHoldsReceiver, OwedIsOnItsWay
  <1> QED
    BY <1>1, <1>2, <1>3, <1>4, <1>5 DEF Next

-----------------------------------------------------------------------------
\* The invariant of the sessions, their channels and their streams
\* (post_mcp, publish_resource_change, get_mcp, poll_next, drop).
THEOREM SessionsInvariant == Spec => []SessionsInv
  BY NoSessionsAreSound, NextKeeps, PTL DEF Spec

\* Sessions, subscriptions and channels keep to their types and their limits.
THEOREM SessionsTypeCorrect == Spec => []TypeOK
  <1>1. SessionsInv => TypeOK
    BY DEF SessionsInv
  <1> QED
    BY <1>1, SessionsInvariant, PTL

\* A change published is on its way to every session it concerns until that
\* session's stream has told of it, however streams come and go and however
\* often the channel is full (enqueue_notification, poll_next, drop).
THEOREM NotificationsAreNotLost == Spec => []OwedIsOnItsWay
  <1>1. SessionsInv => OwedIsOnItsWay
    BY DEF SessionsInv
  <1> QED
    BY <1>1, SessionsInvariant, PTL

\* The table keeps to its places, and a session without a stream can be given
\* one: the receiver is never lost between two streams (post_mcp, get_mcp, drop).
THEOREM SessionsKeepTheirPlaces == Spec => []SlotsAddUp
  <1>1. SessionsInv => SlotsAddUp
    <2> SUFFICES ASSUME SessionsInv PROVE SlotsAddUp
      OBVIOUS
    <2>1. FreeSlotHasReceiver
      BY DEF SessionsInv, TypeOK, StreamHoldsReceiver, FreeSlotHasReceiver
    <2> QED
      BY <2>1 DEF SessionsInv, TypeOK, SlotsAddUp
  <1> QED
    BY <1>1, SessionsInvariant, PTL
=============================================================================
