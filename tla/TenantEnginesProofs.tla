------------------------- MODULE TenantEnginesProofs -------------------------
(***************************************************************************)
(* What the resident tenant actors keep true, proved for any tenants and   *)
(* requests, any capacity of the queues and the registry and any number of *)
(* dropped handlers and panics.                                            *)
(***************************************************************************)
EXTENDS TenantEngines, FiniteSetTheorems, SequenceTheorems, TLAPS

(***************************************************************************)
(* The invariant.  Between the look at the registry and the registration   *)
(* the blocking task opens the directory; what was seen in the registry    *)
(* then still holds because only the holder of engine_opening adds to it.  *)
(* The number of tenants need not be finite, the registry is.              *)
(***************************************************************************)

Sent == {"waiting", "over"}   \* phases of a request that may be with an actor
Live == {"actor", "dying"}    \* engines whose actor holds the directory

InOrder(r) ==
    /\ phase[r] \in {"new", "locking", "receiving"} => engine[r] = "none"
    /\ phase[r] = "opening" => opening = r /\ engine[r] = "opening"
    /\ phase[r] \in {"locking", "opening", "sending", "waiting"} => r \notin Imports
    /\ phase[r] \in {"receiving", "restoring", "verifying"} => r \in Imports
    /\ phase[r] \in {"sending", "waiting"} =>
           using[r] \in Requests /\ TenantOf[using[r]] = TenantOf[r]
    /\ engine[r] = "opening" /\ r \notin Imports => phase[r] = "opening"
    /\ engine[r] = "orphan" => drops > 0
    /\ engine[r] = "dying" => panics > 0
    /\ r \in Imports => engine[r] \notin Live
    /\ answer[r] # "none" => phase[r] = "over"

HandlersInOrder ==
    /\ \A r \in Requests : InOrder(r)
    /\ opening # NoRequest => phase[opening] = "opening"

RegistryHolds ==
    /\ \A t \in Tenants : engines[t] # NoRequest =>
           TenantOf[engines[t]] = t /\ engine[engines[t]] \in Live \cup {"closed"}
    /\ \A e \in Requests : engine[e] \in Live =>
           engines[TenantOf[e]] = e /\ origin[TenantOf[e]] # NoRequest
    /\ opening # NoRequest => engines[TenantOf[opening]] = NoRequest

PlacesAddUp ==
    /\ IsFiniteSet(Resident)
    /\ Cardinality(Resident) <= MaxEngines
    /\ opening # NoRequest => Cardinality(Resident) < MaxEngines

\* What has been sent to an actor is its tenant's, and what was carried out went
\* to a directory.
CommandsAreSent ==
    /\ \A e \in Requests :
           /\ \A i \in DOMAIN queue[e] :
                  phase[queue[e][i]] \in Sent /\ TenantOf[queue[e][i]] = TenantOf[e]
           /\ executing[e] # NoRequest =>
                  /\ executing[e] \in Reads \cup Writes
                  /\ phase[executing[e]] \in Sent /\ TenantOf[executing[e]] = TenantOf[e]
    /\ \A r \in applied : phase[r] \in Sent /\ origin[TenantOf[r]] # NoRequest

EnginesInv ==
    /\ TypeOK
    /\ HandlersInOrder
    /\ RegistryHolds
    /\ PlacesAddUp
    /\ CommandsAreSent
    /\ RefusedWriteNeverHappens

USE EnginesAssumption DEF Sent, Live

LEMMA ConstantsAreNumbers ==
    /\ QueueCapacity \in Nat \ {0}
    /\ MaxEngines \in Nat
    /\ MaxDrops \in Nat
    /\ MaxPanics \in Nat
  OBVIOUS

LEMMA RequestsAreOfKinds ==
    /\ Reads \cup Writes \subseteq Requests
    /\ Imports \subseteq Requests
    /\ \A r \in Requests : r \in Imports <=> r \notin Reads \cup Writes
    /\ \A r \in Requests : TenantOf[r] \in Tenants /\ r # NoRequest
  BY DEF Requests

-----------------------------------------------------------------------------
\* Lemmas about the registry.

LEMMA AtMostOne ==
    ASSUME NEW S, \A x, y \in S : x = y
    PROVE  Cardinality(S) <= 1
  <1>1. CASE S = {}
    BY <1>1, FS_EmptySet
  <1>2. CASE S # {}
    <2>1. PICK x \in S : S = {x}
      BY <1>2
    <2> QED
      BY <2>1, FS_Singleton
  <1> QED
    BY <1>1, <1>2

\* An engine found in the registry is one of the request's tenant.
LEMMA FoundIsTheTenants ==
    ASSUME EnginesInv, NEW r \in Requests, Found(r) # NoRequest
    PROVE  Found(r) \in Requests /\ TenantOf[Found(r)] = TenantOf[r]
  BY RequestsAreOfKinds DEF EnginesInv, TypeOK, RegistryHolds, Found, Registered

\* Dropping the entries of closed actors takes no place from anyone.
LEMMA PruningKeeps ==
    ASSUME EnginesInv, engines' = Registered, UNCHANGED <<engine, origin, opening>>
    PROVE  /\ engines' \in [Tenants -> Requests \cup {NoRequest}]
           /\ RegistryHolds'
           /\ Resident' = Resident
           /\ PlacesAddUp'
  <1>1. engines' \in [Tenants -> Requests \cup {NoRequest}]
    BY DEF EnginesInv, TypeOK, Registered
  <1>2. RegistryHolds'
    BY RequestsAreOfKinds DEF EnginesInv, TypeOK, RegistryHolds, Registered
  <1>3. Resident' = Resident
    BY DEF EnginesInv, TypeOK, Resident, Registered
  <1>4. PlacesAddUp'
    BY <1>3 DEF EnginesInv, PlacesAddUp
  <1> QED
    BY <1>1, <1>2, <1>3, <1>4

\* As long as no actor starts, dies or closes, the registry stays as it is.
LEMMA RegistryStays ==
    ASSUME EnginesInv, UNCHANGED engines,
           opening' \in {opening, NoRequest},
           \A e \in Requests :
               /\ engine[e] \in Live \cup {"closed"} => engine'[e] = engine[e]
               /\ engine'[e] \in Live => engine'[e] = engine[e],
           \A t \in Tenants : origin[t] # NoRequest => origin'[t] # NoRequest
    PROVE  RegistryHolds' /\ PlacesAddUp'
  <1>1. RegistryHolds'
    BY RequestsAreOfKinds DEF EnginesInv, TypeOK, RegistryHolds
  <1>2. Resident' = Resident
    BY DEF EnginesInv, TypeOK, RegistryHolds, Resident, Registered
  <1>3. PlacesAddUp'
    BY <1>2 DEF EnginesInv, PlacesAddUp
  <1> QED
    BY <1>1, <1>3

\* Nor does what handlers do meanwhile change what has been sent.
LEMMA CommandsStay ==
    ASSUME EnginesInv, UNCHANGED <<queue, executing, applied>>,
           \A r \in Requests : phase[r] \in Sent => phase'[r] \in Sent,
           \A t \in Tenants : origin[t] # NoRequest => origin'[t] # NoRequest
    PROVE  CommandsAreSent'
  <1>1. /\ applied \subseteq Requests
        /\ \A e \in Requests : \A i \in DOMAIN queue[e] : queue[e][i] \in Requests
    BY RequestsAreOfKinds DEF EnginesInv, TypeOK
  <1> QED
    BY <1>1, RequestsAreOfKinds DEF EnginesInv, CommandsAreSent

\* A request refused before it was sent has not happened.
LEMMA RefusalsStay ==
    ASSUME EnginesInv, UNCHANGED <<queue, executing, applied, panics>>,
           \A r \in Writes : answer'[r] = "unavailable" =>
               answer[r] = "unavailable" \/ phase[r] \notin Sent
    PROVE  RefusedWriteNeverHappens'
  BY RequestsAreOfKinds
  DEF EnginesInv, CommandsAreSent, RefusedWriteNeverHappens

-----------------------------------------------------------------------------
LEMMA NothingResidentIsSound == Init => EnginesInv
  <1> SUFFICES ASSUME Init PROVE EnginesInv
    OBVIOUS
  <1>1. TypeOK
    BY ConstantsAreNumbers DEF Init, TypeOK
  <1>2. Resident = {}
    BY DEF Init, Resident, Registered
  <1>3. PlacesAddUp
    BY <1>2, FS_EmptySet, ConstantsAreNumbers DEF Init, PlacesAddUp
  <1>4. HandlersInOrder /\ RegistryHolds
    BY RequestsAreOfKinds DEF Init, HandlersInOrder, InOrder, RegistryHolds
  <1>5. CommandsAreSent /\ RefusedWriteNeverHappens
    BY RequestsAreOfKinds DEF Init, CommandsAreSent, RefusedWriteNeverHappens
  <1> QED
    BY <1>1, <1>3, <1>4, <1>5 DEF EnginesInv

USE DEF handlerVars, registryVars, actorVars, bounds, Goes, Sends, Answers, EngineBecomes

LEMMA LookupKeeps ==
    ASSUME EnginesInv, NEW r \in Requests, Lookup(r) \/ ImportChecks(r)
    PROVE  EnginesInv'
  <1>1. /\ engines' = Registered
        /\ UNCHANGED <<opening, engine, queue, executing, origin, applied, drops, panics>>
        /\ phase[r] = "new"
        /\ \/ /\ phase' = [phase EXCEPT ![r] = "sending"]
              /\ using' = [using EXCEPT ![r] = Found(r)]
              /\ UNCHANGED answer
              /\ Found(r) # NoRequest
              /\ r \notin Imports
           \/ phase' = [phase EXCEPT ![r] = "locking"] /\ UNCHANGED <<answer, using>> /\ r \notin Imports
           \/ phase' = [phase EXCEPT ![r] = "receiving"] /\ UNCHANGED <<answer, using>> /\ r \in Imports
           \/ /\ phase' = [phase EXCEPT ![r] = "over"]
              /\ answer' = [answer EXCEPT ![r] = "conflict"]
              /\ UNCHANGED using
    BY DEF Lookup, ImportChecks
  <1>2. /\ engines' \in [Tenants -> Requests \cup {NoRequest}]
        /\ RegistryHolds'
        /\ PlacesAddUp'
    BY <1>1, PruningKeeps
  <1>3. Found(r) # NoRequest => Found(r) \in Requests /\ TenantOf[Found(r)] = TenantOf[r]
    BY FoundIsTheTenants
  <1>4. TypeOK'
    <2>1. using' \in [Requests -> Requests \cup {NoRequest}]
      BY <1>1, <1>3 DEF EnginesInv, TypeOK
    <2>2. /\ phase' \in [Requests -> {"new", "locking", "opening", "sending", "waiting",
                                     "receiving", "restoring", "verifying", "over"}]
          /\ answer' \in [Requests -> {"none", "done", "failed", "unavailable", "conflict",
                                      "restored"}]
      BY <1>1 DEF EnginesInv, TypeOK
    <2> QED
      BY <1>1, <1>2, <2>1, <2>2 DEF EnginesInv, TypeOK
  <1>5. HandlersInOrder'
    BY <1>1, <1>3 DEF EnginesInv, TypeOK, HandlersInOrder, InOrder
  <1>6. CommandsAreSent'
    BY <1>1, CommandsStay DEF EnginesInv, TypeOK
  <1>7. RefusedWriteNeverHappens'
    BY <1>1, RefusalsStay, RequestsAreOfKinds DEF EnginesInv, TypeOK
  <1> QED
    BY <1>2, <1>4, <1>5, <1>6, <1>7 DEF EnginesInv

\* The lock is free, so nobody is between the look and the registration.
LEMMA AcquireKeeps ==
    ASSUME EnginesInv, NEW r \in Requests, Acquire(r)
    PROVE  EnginesInv'
  <1>1. /\ engines' = Registered
        /\ phase[r] = "locking"
        /\ opening = NoRequest
        /\ UNCHANGED <<queue, executing, origin, applied, drops, panics>>
    BY DEF Acquire
  <1>2. CASE /\ UNCHANGED <<opening, engine>>
             /\ \/ /\ phase' = [phase EXCEPT ![r] = "sending"]
                   /\ using' = [using EXCEPT ![r] = Found(r)]
                   /\ UNCHANGED answer
                   /\ Found(r) # NoRequest
                \/ /\ phase' = [phase EXCEPT ![r] = "over"]
                   /\ answer' = [answer EXCEPT ![r] = "unavailable"]
                   /\ UNCHANGED using
    <2>1. /\ engines' \in [Tenants -> Requests \cup {NoRequest}]
          /\ RegistryHolds'
          /\ PlacesAddUp'
      BY <1>1, <1>2, PruningKeeps
    <2>2. Found(r) # NoRequest => Found(r) \in Requests /\ TenantOf[Found(r)] = TenantOf[r]
      BY FoundIsTheTenants
    <2>3. TypeOK'
      <3>1. using' \in [Requests -> Requests \cup {NoRequest}]
        BY <1>2, <2>2 DEF EnginesInv, TypeOK
      <3>2. /\ phase' \in [Requests -> {"new", "locking", "opening", "sending", "waiting",
                                       "receiving", "restoring", "verifying", "over"}]
            /\ answer' \in [Requests -> {"none", "done", "failed", "unavailable", "conflict",
                                        "restored"}]
        BY <1>2 DEF EnginesInv, TypeOK
      <3> QED
        BY <1>1, <1>2, <2>1, <3>1, <3>2 DEF EnginesInv, TypeOK
    <2>4. HandlersInOrder'
      <3>1. \A h \in Requests : h # r =>
                phase'[h] = phase[h] /\ using'[h] = using[h] /\ answer'[h] = answer[h]
        BY <1>2 DEF EnginesInv, TypeOK
      <3>2. \/ /\ phase'[r] = "sending" /\ answer'[r] = answer[r]
               /\ using'[r] \in Requests /\ TenantOf[using'[r]] = TenantOf[r]
            \/ phase'[r] = "over"
        BY <1>2, <2>2 DEF EnginesInv, TypeOK
      <3>3. InOrder(r) /\ r \notin Imports /\ engine[r] = "none"
        BY <1>1 DEF EnginesInv, HandlersInOrder, InOrder
      <3>4. InOrder(r)'
        BY <1>1, <1>2, <3>2, <3>3 DEF InOrder
      <3>5. ASSUME NEW h \in Requests, h # r PROVE InOrder(h)'
        BY <1>1, <1>2, <3>1, <3>5 DEF EnginesInv, HandlersInOrder, InOrder
      <3> QED
        BY <1>1, <1>2, <3>4, <3>5 DEF HandlersInOrder
    <2>5. CommandsAreSent'
      BY <1>1, <1>2, CommandsStay DEF EnginesInv, TypeOK
    <2>6. RefusedWriteNeverHappens'
      BY <1>1, <1>2, RefusalsStay, RequestsAreOfKinds DEF EnginesInv, TypeOK
    <2> QED
      BY <2>1, <2>3, <2>4, <2>5, <2>6 DEF EnginesInv
  <1>3. CASE /\ Found(r) = NoRequest
             /\ Cardinality(Resident) < MaxEngines
             /\ opening' = r
             /\ phase' = [phase EXCEPT ![r] = "opening"]
             /\ engine' = [engine EXCEPT ![r] = "opening"]
             /\ UNCHANGED <<answer, using>>
    <2>1. engine[r] = "none" /\ r \notin Imports
      BY <1>1 DEF EnginesInv, HandlersInOrder, InOrder
    <2>2. engines' \in [Tenants -> Requests \cup {NoRequest}]
      BY <1>1 DEF EnginesInv, TypeOK, Registered
    <2>3. RegistryHolds'
      BY <1>1, <1>3, <2>1, RequestsAreOfKinds
      DEF EnginesInv, TypeOK, RegistryHolds, Registered, Found
    <2>4. Resident' = Resident
      <3>1. \A e \in Requests : engine'[e] = "closed" <=> engine[e] = "closed"
        BY <1>3, <2>1 DEF EnginesInv, TypeOK
      <3>2. \A t \in Tenants : Registered'[t] # NoRequest <=> Registered[t] # NoRequest
        <4> SUFFICES ASSUME NEW t \in Tenants
                     PROVE  Registered'[t] # NoRequest <=> Registered[t] # NoRequest
          OBVIOUS
        <4>1. engines[t] \in Requests \/ engines[t] = NoRequest
          BY DEF EnginesInv, TypeOK
        <4>2. /\ engines[t] # NoRequest /\ engine[engines[t]] = "closed" => Registered[t] = NoRequest
              /\ engines[t] = NoRequest => Registered[t] = NoRequest
              /\ engine[engines[t]] # "closed" => Registered[t] = engines[t]
          BY DEF Registered
        <4>3. engines'[t] = Registered[t]
          BY <1>1
        <4>4. /\ engines'[t] = NoRequest => Registered'[t] = NoRequest
              /\ engine'[engines'[t]] # "closed" => Registered'[t] = engines'[t]
          BY DEF Registered
        <4> HIDE DEF Registered
        <4> QED
          BY <3>1, <4>1, <4>2, <4>3, <4>4, Zenon
      <3> QED
        BY <3>2, Zenon DEF Resident
    <2>5. PlacesAddUp'
      BY <1>3, <2>4 DEF EnginesInv, PlacesAddUp
    <2>6. TypeOK'
      BY <1>1, <1>3, <2>2 DEF EnginesInv, TypeOK
    <2>7. HandlersInOrder'
      BY <1>1, <1>3, <2>1 DEF EnginesInv, TypeOK, HandlersInOrder, InOrder
    <2>8. CommandsAreSent'
      BY <1>1, <1>3, CommandsStay DEF EnginesInv, TypeOK
    <2>9. RefusedWriteNeverHappens'
      BY <1>1, <1>3, RefusalsStay
    <2> QED
      BY <2>3, <2>5, <2>6, <2>7, <2>8, <2>9 DEF EnginesInv
  <1> QED
    BY <1>2, <1>3 DEF Acquire, StartsOpening

\* Nobody else can have opened or registered an engine of the tenant meanwhile.
LEMMA OpenedKeeps ==
    ASSUME EnginesInv, NEW r \in Requests, Opened(r)
    PROVE  EnginesInv'
  <1>1. /\ phase[r] = "opening"
        /\ origin[TenantOf[r]] # NoRequest
        /\ engine' = [engine EXCEPT ![r] = "actor"]
        /\ engines' = [engines EXCEPT ![TenantOf[r]] = r]
        /\ opening' = NoRequest
        /\ phase' = [phase EXCEPT ![r] = "sending"]
        /\ using' = [using EXCEPT ![r] = r]
        /\ UNCHANGED <<answer, queue, executing, origin, applied, drops, panics>>
    BY DEF Opened
  <1>2. /\ opening = r /\ engine[r] = "opening" /\ r \notin Imports
        /\ engines[TenantOf[r]] = NoRequest
        /\ TenantOf[r] \in Tenants /\ r # NoRequest
    BY <1>1, RequestsAreOfKinds DEF EnginesInv, HandlersInOrder, InOrder, RegistryHolds
  <1>3. TypeOK'
    <2>1. /\ phase' \in [Requests -> {"new", "locking", "opening", "sending", "waiting",
                                       "receiving", "restoring", "verifying", "over"}]
          /\ using' \in [Requests -> Requests \cup {NoRequest}]
      BY <1>1 DEF EnginesInv, TypeOK
    <2>2. /\ engine' \in [Requests -> {"none", "opening", "orphan", "actor", "dying", "closed"}]
          /\ engines' \in [Tenants -> Requests \cup {NoRequest}]
      BY <1>1, <1>2 DEF EnginesInv, TypeOK
    <2> QED
      BY <1>1, <1>2, <2>1, <2>2 DEF EnginesInv, TypeOK
  <1>4. HandlersInOrder'
    BY <1>1, <1>2 DEF EnginesInv, TypeOK, HandlersInOrder, InOrder
  <1>5. RegistryHolds'
    BY <1>1, <1>2, RequestsAreOfKinds DEF EnginesInv, TypeOK, RegistryHolds
  <1>6. Resident' = Resident \cup {TenantOf[r]}
    BY <1>1, <1>2, RequestsAreOfKinds
    DEF EnginesInv, TypeOK, RegistryHolds, Resident, Registered
  <1>7. PlacesAddUp'
    <2>1. /\ IsFiniteSet(Resident) /\ Cardinality(Resident) < MaxEngines
          /\ Cardinality(Resident) \in Nat
      BY <1>2, FS_CardinalityType DEF EnginesInv, PlacesAddUp
    <2>2. /\ IsFiniteSet(Resident \cup {TenantOf[r]})
          /\ \/ Cardinality(Resident \cup {TenantOf[r]}) = Cardinality(Resident)
             \/ Cardinality(Resident \cup {TenantOf[r]}) = Cardinality(Resident) + 1
      BY <2>1, FS_AddElement
    <2> QED
      BY <1>1, <1>6, <2>1, <2>2, ConstantsAreNumbers DEF PlacesAddUp
  <1>8. CommandsAreSent'
    BY <1>1, CommandsStay DEF EnginesInv, TypeOK
  <1>9. RefusedWriteNeverHappens'
    BY <1>1, RefusalsStay
  <1> QED
    BY <1>3, <1>4, <1>5, <1>7, <1>8, <1>9 DEF EnginesInv

\* Opening fails, or nobody waits for it any more; an import has no engine that
\* anyone could send to.
LEMMA OpeningEnds ==
    ASSUME EnginesInv, NEW r \in Requests,
           OpenFails(r) \/ OrphanEnds(r) \/ Drop(r) \/ ImportReceives(r) \/ Verify(r)
    PROVE  EnginesInv'
  <1>1. UNCHANGED <<engines, using, queue, executing, origin, applied, panics>>
    BY DEF OpenFails, OrphanEnds, Drop, ImportReceives, Verify, ImportFails
  <1>2. \E next \in {"opening", "orphan", "closed"} :
            engine' = engine \/ engine' = [engine EXCEPT ![r] = next]
    BY DEF OpenFails, OrphanEnds, Drop, ImportReceives, Verify, ImportFails
  <1>3. /\ engine'[r] # engine[r] => engine[r] \in {"none", "opening", "orphan"}
        /\ \A e \in Requests : e # r => engine'[e] = engine[e]
        /\ engine' \in [Requests -> {"none", "opening", "orphan", "actor", "dying", "closed"}]
        /\ engine'[r] # engine[r] => engine'[r] \notin {"none", "actor", "dying"}
    <2>1. engine'[r] # engine[r] => engine[r] \in {"none", "opening", "orphan"}
      BY DEF OpenFails, OrphanEnds, Drop, ImportReceives, Verify, ImportFails, EnginesInv,
             HandlersInOrder, InOrder
    <2>2. PICK next \in {"opening", "orphan", "closed"} :
              engine' = engine \/ engine' = [engine EXCEPT ![r] = next]
      BY <1>2
    <2>3. engine \in [Requests -> {"none", "opening", "orphan", "actor", "dying", "closed"}]
      BY DEF EnginesInv, TypeOK
    <2>4. /\ \A e \in Requests : e # r => engine'[e] = engine[e]
          /\ engine' \in [Requests -> {"none", "opening", "orphan", "actor", "dying", "closed"}]
      BY <2>2, <2>3
    <2>5. engine'[r] = engine[r] \/ engine'[r] = next
      BY <2>2, <2>3
    <2>6. engine'[r] # engine[r] => engine'[r] \notin {"none", "actor", "dying"}
      BY <2>5
    <2> QED
      BY <2>1, <2>4, <2>6
  <1>4. opening' \in {opening, NoRequest}
    BY DEF OpenFails, OrphanEnds, Drop, ImportReceives, Verify, ImportFails
  <1>5. drops' = drops \/ (drops < MaxDrops /\ drops' = drops + 1)
    BY DEF OpenFails, OrphanEnds, Drop, ImportReceives, Verify, ImportFails
  <1>6. drops' \in 0..MaxDrops
    BY <1>5, ConstantsAreNumbers DEF EnginesInv, TypeOK
  <1>7. /\ phase' \in [Requests -> {"new", "locking", "opening", "sending", "waiting",
                                     "receiving", "restoring", "verifying", "over"}]
        /\ answer' \in [Requests -> {"none", "done", "failed", "unavailable", "conflict",
                                     "restored"}]
    BY DEF OpenFails, OrphanEnds, Drop, ImportReceives, Verify, ImportFails, EnginesInv, TypeOK
  <1>8. TypeOK'
    BY <1>1, <1>3, <1>4, <1>6, <1>7 DEF EnginesInv, TypeOK
  <1>9. RegistryHolds' /\ PlacesAddUp'
    BY <1>1, <1>3, <1>4, RegistryStays
  <1>10. HandlersInOrder'
    <2>1. CASE OpenFails(r)
      BY <2>1, RequestsAreOfKinds DEF OpenFails, EnginesInv, TypeOK, HandlersInOrder, InOrder
    <2>2. CASE OrphanEnds(r)
      BY <2>2, RequestsAreOfKinds DEF OrphanEnds, EnginesInv, TypeOK, HandlersInOrder, InOrder
    <2>3. CASE Drop(r)
      <3>1. drops \in Nat /\ drops' = drops + 1
        BY <2>3 DEF Drop, EnginesInv, TypeOK
      <3> QED
        BY <2>3, <3>1, RequestsAreOfKinds DEF Drop, EnginesInv, TypeOK, HandlersInOrder, InOrder
    <2>4. CASE ImportReceives(r)
      BY <2>4, RequestsAreOfKinds DEF ImportReceives, EnginesInv, TypeOK, HandlersInOrder, InOrder
    <2>5. CASE Verify(r)
      BY <2>5, RequestsAreOfKinds DEF Verify, ImportFails, EnginesInv, TypeOK, HandlersInOrder, InOrder
    <2> QED
      BY <2>1, <2>2, <2>3, <2>4, <2>5
  <1>11. CommandsAreSent'
    <2>1. \A other \in Requests : phase[other] \in Sent => phase'[other] \in Sent
      BY DEF OpenFails, OrphanEnds, Drop, ImportReceives, Verify, ImportFails, EnginesInv, TypeOK
    <2> QED
      BY <1>1, <2>1, CommandsStay
  <1>12. RefusedWriteNeverHappens'
    <2>1. \A other \in Requests : answer'[other] = "unavailable" =>
              answer[other] = "unavailable" \/ phase[other] \notin Sent
      BY DEF OpenFails, OrphanEnds, Drop, ImportReceives, Verify, ImportFails, EnginesInv, TypeOK
    <2> QED
      BY <1>1, <2>1, RefusalsStay, RequestsAreOfKinds
  <1> QED
    BY <1>8, <1>9, <1>10, <1>11, <1>12 DEF EnginesInv

\* A directory is made where there was none.
LEMMA DirectoryKeeps ==
    ASSUME EnginesInv, NEW r \in Requests, OpenCreates(r) \/ Restore(r)
    PROVE  EnginesInv'
  <1>1. UNCHANGED <<registryVars, using, queue, executing, applied, bounds>>
    BY DEF OpenCreates, Restore, ImportFails
  <1>2. /\ \A e \in Requests : e # r => engine'[e] = engine[e]
        /\ engine'[r] # engine[r] => r \in Imports /\ engine'[r] = "closed"
        /\ engine[r] \in {"opening", "orphan"}
        /\ engine' \in [Requests -> {"none", "opening", "orphan", "actor", "dying", "closed"}]
    <2>1. /\ engine[r] \in {"opening", "orphan"}
          /\ \/ engine' = engine
             \/ r \in Imports /\ engine' = [engine EXCEPT ![r] = "closed"]
      BY DEF OpenCreates, Restore, ImportFails
    <2>2. engine \in [Requests -> {"none", "opening", "orphan", "actor", "dying", "closed"}]
      BY DEF EnginesInv, TypeOK
    <2>3. engine' \in [Requests -> {"none", "opening", "orphan", "actor", "dying", "closed"}]
      BY <2>1, <2>2
    <2>4. \A e \in Requests : e # r => engine'[e] = engine[e]
      BY <2>1, <2>2
    <2>5. engine'[r] # engine[r] => r \in Imports /\ engine'[r] = "closed"
      BY <2>1, <2>2
    <2> QED
      BY <2>1, <2>3, <2>4, <2>5
  <1>3. /\ origin' \in [Tenants -> Imports \cup {NoRequest, "open"}]
        /\ \A t \in Tenants : origin[t] # NoRequest => origin'[t] = origin[t]
    <2>1. \/ origin' = origin
          \/ /\ origin[TenantOf[r]] = NoRequest
             /\ \/ origin' = [origin EXCEPT ![TenantOf[r]] = "open"]
                \/ r \in Imports /\ origin' = [origin EXCEPT ![TenantOf[r]] = r]
      BY DEF OpenCreates, Restore
    <2>2. origin \in [Tenants -> Imports \cup {NoRequest, "open"}]
      BY DEF EnginesInv, TypeOK
    <2>3. origin' \in [Tenants -> Imports \cup {NoRequest, "open"}]
      BY <2>1, <2>2
    <2>4. \A t \in Tenants : origin[t] # NoRequest => origin'[t] = origin[t]
      BY <2>1, <2>2
    <2> QED
      BY <2>3, <2>4
  <1>4. /\ phase' \in [Requests -> {"new", "locking", "opening", "sending", "waiting",
                                     "receiving", "restoring", "verifying", "over"}]
        /\ answer' \in [Requests -> {"none", "done", "failed", "unavailable", "conflict",
                                     "restored"}]
        /\ \A other \in Requests : other # r =>
               phase'[other] = phase[other] /\ answer'[other] = answer[other]
        /\ \/ phase'[r] = phase[r] /\ answer'[r] = answer[r]
           \/ phase[r] = "restoring" /\ phase'[r] = "verifying" /\ answer'[r] = answer[r]
           \/ /\ phase[r] \in {"restoring", "verifying"}
              /\ phase'[r] = "over" /\ answer'[r] = "failed"
    <2>1. \/ phase' = phase /\ answer' = answer
          \/ /\ phase[r] = "restoring"
             /\ phase' = [phase EXCEPT ![r] = "verifying"] /\ answer' = answer
          \/ /\ phase[r] \in {"restoring", "verifying"}
             /\ phase' = [phase EXCEPT ![r] = "over"]
             /\ answer' = [answer EXCEPT ![r] = "failed"]
      BY DEF OpenCreates, Restore, ImportFails
    <2>2. /\ phase \in [Requests -> {"new", "locking", "opening", "sending", "waiting",
                                      "receiving", "restoring", "verifying", "over"}]
          /\ answer \in [Requests -> {"none", "done", "failed", "unavailable", "conflict",
                                       "restored"}]
      BY DEF EnginesInv, TypeOK
    <2>3. CASE phase' = phase /\ answer' = answer
      BY <2>2, <2>3
    <2>4. CASE /\ phase[r] = "restoring"
               /\ phase' = [phase EXCEPT ![r] = "verifying"] /\ answer' = answer
      BY <2>2, <2>4
    <2>5. CASE /\ phase[r] \in {"restoring", "verifying"}
               /\ phase' = [phase EXCEPT ![r] = "over"]
               /\ answer' = [answer EXCEPT ![r] = "failed"]
      BY <2>2, <2>5
    <2> QED
      BY <2>1, <2>3, <2>4, <2>5
  <1>5. TypeOK'
    BY <1>1, <1>2, <1>3, <1>4 DEF EnginesInv, TypeOK
  <1>6. RegistryHolds' /\ PlacesAddUp'
    BY <1>1, <1>2, <1>3, RegistryStays
  <1>7. HandlersInOrder'
    BY <1>1, <1>2, <1>4, RequestsAreOfKinds DEF EnginesInv, TypeOK, HandlersInOrder, InOrder
  <1>8. CommandsAreSent'
    BY <1>1, <1>3, <1>4, CommandsStay
  <1>9. RefusedWriteNeverHappens'
    BY <1>1, <1>4, RefusalsStay, RequestsAreOfKinds
  <1> QED
    BY <1>5, <1>6, <1>7, <1>8, <1>9 DEF EnginesInv

-----------------------------------------------------------------------------
\* The queue and the actor behind it.

\* What the engines and their registry are like does not depend on queues.
LEMMA EnginesStay ==
    ASSUME EnginesInv, UNCHANGED <<engines, opening, engine, origin>>
    PROVE  RegistryHolds' /\ PlacesAddUp'
  BY RegistryStays

LEMMA SendKeeps ==
    ASSUME EnginesInv, NEW r \in Requests, Send(r)
    PROVE  EnginesInv'
  <1> DEFINE e == using[r]
  <1>1. /\ phase[r] = "sending"
        /\ e \in Requests /\ TenantOf[e] = TenantOf[r]
        /\ r \in Reads \cup Writes
        /\ queue[e] \in Seq(Reads \cup Writes)
        /\ Len(queue[e]) \in Nat
        /\ answer[r] = "none"
        /\ UNCHANGED <<opening, engines, engine, executing, origin, applied, drops, panics>>
    BY RequestsAreOfKinds DEF Send, EnginesInv, TypeOK, HandlersInOrder, InOrder
  <1> HIDE DEF e
  <1>2. RegistryHolds' /\ PlacesAddUp'
    BY <1>1, EnginesStay
  <1>3. CASE /\ Len(queue[e]) < QueueCapacity
             /\ queue' = [queue EXCEPT ![e] = Append(@, r)]
             /\ phase' = [phase EXCEPT ![r] = "waiting"]
             /\ UNCHANGED <<answer, using>>
    <2>1. /\ Append(queue[e], r) \in Seq(Reads \cup Writes)
          /\ Len(Append(queue[e], r)) = Len(queue[e]) + 1
          /\ DOMAIN Append(queue[e], r) = 1..Len(queue[e]) + 1
          /\ DOMAIN queue[e] = 1..Len(queue[e])
          /\ \A i \in 1..Len(queue[e]) : Append(queue[e], r)[i] = queue[e][i]
          /\ Append(queue[e], r)[Len(queue[e]) + 1] = r
      BY <1>1, AppendProperties, LenProperties
    <2>2. /\ queue'[e] = Append(queue[e], r)
          /\ \A other \in Requests : other # e => queue'[other] = queue[other]
          /\ queue' \in [Requests -> Seq(Reads \cup Writes)]
          /\ \A other \in Requests : Len(queue'[other]) <= QueueCapacity
      BY <1>1, <1>3, <2>1 DEF EnginesInv, TypeOK
    <2>3. \A other \in Requests : \A i \in DOMAIN queue'[other] :
              \/ i \in DOMAIN queue[other] /\ queue'[other][i] = queue[other][i]
              \/ other = e /\ queue'[other][i] = r
      <3>1. \A i \in DOMAIN queue'[e] : i \in 1..Len(queue[e]) \/ i = Len(queue[e]) + 1
        BY <1>1, <2>1, <2>2
      <3> QED
        BY <2>1, <2>2, <3>1
    <2>4. TypeOK'
      BY <1>1, <1>3, <2>2 DEF EnginesInv, TypeOK
    <2>5. HandlersInOrder'
      BY <1>1, <1>3 DEF EnginesInv, TypeOK, HandlersInOrder, InOrder
    <2>6. /\ \A other \in Requests : phase[other] \in Sent => phase'[other] \in Sent
          /\ phase'[r] \in Sent
      BY <1>1, <1>3 DEF EnginesInv, TypeOK
    <2>7. CommandsAreSent'
      <3>1. \A other \in Requests : \A i \in DOMAIN queue'[other] :
                /\ phase'[queue'[other][i]] \in Sent
                /\ TenantOf[queue'[other][i]] = TenantOf[other]
        <4> SUFFICES ASSUME NEW other \in Requests, NEW i \in DOMAIN queue'[other]
                     PROVE  /\ phase'[queue'[other][i]] \in Sent
                            /\ TenantOf[queue'[other][i]] = TenantOf[other]
          OBVIOUS
        <4>1. \A j \in DOMAIN queue[other] : queue[other][j] \in Requests
          BY RequestsAreOfKinds DEF EnginesInv, TypeOK
        <4> QED
          BY <1>1, <2>3, <2>6, <4>1 DEF EnginesInv, CommandsAreSent
      <3>2. applied \subseteq Requests
        BY RequestsAreOfKinds DEF EnginesInv, TypeOK
      <3> QED
        BY <1>1, <2>6, <3>1, <3>2, RequestsAreOfKinds DEF EnginesInv, CommandsAreSent
    <2>8. RefusedWriteNeverHappens'
      BY <1>1, <1>3, <2>3, RequestsAreOfKinds DEF EnginesInv, RefusedWriteNeverHappens
    <2> QED
      BY <1>2, <2>4, <2>5, <2>7, <2>8 DEF EnginesInv
  <1>4. CASE /\ phase' = [phase EXCEPT ![r] = "over"]
             /\ answer' = [answer EXCEPT ![r] = "unavailable"]
             /\ UNCHANGED <<using, queue>>
    <2>1. TypeOK' /\ HandlersInOrder'
      BY <1>1, <1>4 DEF EnginesInv, TypeOK, HandlersInOrder, InOrder
    <2>2. CommandsAreSent'
      BY <1>1, <1>4, CommandsStay DEF EnginesInv, TypeOK
    <2>3. RefusedWriteNeverHappens'
      BY <1>1, <1>4, RefusalsStay, RequestsAreOfKinds DEF EnginesInv, TypeOK
    <2> QED
      BY <1>2, <2>1, <2>2, <2>3 DEF EnginesInv
  <1> QED
    BY <1>3, <1>4 DEF Send, e

LEMMA TimesOutKeeps ==
    ASSUME EnginesInv, NEW r \in Requests, TimesOut(r)
    PROVE  EnginesInv'
  <1>1. /\ phase[r] = "waiting" /\ r \in Reads /\ r \notin Writes
        /\ phase' = [phase EXCEPT ![r] = "over"]
        /\ answer' = [answer EXCEPT ![r] = "unavailable"]
        /\ UNCHANGED <<using, opening, engines, engine, queue, executing, origin, applied,
                       drops, panics>>
    BY DEF TimesOut
  <1>2. TypeOK' /\ HandlersInOrder'
    BY <1>1 DEF EnginesInv, TypeOK, HandlersInOrder, InOrder
  <1>3. CommandsAreSent'
    BY <1>1, CommandsStay DEF EnginesInv, TypeOK
  <1>4. RefusedWriteNeverHappens'
    BY <1>1, RefusalsStay, RequestsAreOfKinds DEF EnginesInv, TypeOK
  <1> QED
    BY <1>1, <1>2, <1>3, <1>4, EnginesStay DEF EnginesInv

LEMMA TakeKeeps ==
    ASSUME EnginesInv, NEW e \in Requests, Take(e)
    PROVE  EnginesInv'
  <1>1. /\ executing[e] = NoRequest
        /\ queue[e] # <<>>
        /\ queue' = [queue EXCEPT ![e] = Tail(@)]
        /\ executing' \in {executing, [executing EXCEPT ![e] = Head(queue[e])]}
        /\ UNCHANGED <<phase, answer, using, opening, engines, engine, origin, applied,
                       drops, panics>>
    BY DEF Take
  <1>2. queue[e] \in Seq(Reads \cup Writes)
    BY DEF EnginesInv, TypeOK
  <1>3. /\ Tail(queue[e]) \in Seq(Reads \cup Writes)
        /\ Len(Tail(queue[e])) = Len(queue[e]) - 1
        /\ \A i \in 1..Len(Tail(queue[e])) : Tail(queue[e])[i] = queue[e][i + 1]
        /\ DOMAIN queue[e] = 1..Len(queue[e])
        /\ DOMAIN Tail(queue[e]) = 1..Len(Tail(queue[e]))
        /\ Len(queue[e]) \in Nat \ {0}
        /\ Head(queue[e]) = queue[e][1]
        /\ Head(queue[e]) \in Reads \cup Writes
    BY <1>1, <1>2, HeadTailProperties, LenProperties, EmptySeq
  <1>4. /\ queue' \in [Requests -> Seq(Reads \cup Writes)]
        /\ queue'[e] = Tail(queue[e])
        /\ \A other \in Requests : other # e => queue'[other] = queue[other]
        /\ \A other \in Requests : Len(queue'[other]) <= QueueCapacity
    BY <1>1, <1>3 DEF EnginesInv, TypeOK
  <1>5. \A other \in Requests : \A i \in DOMAIN queue'[other] :
            \E j \in DOMAIN queue[other] : queue'[other][i] = queue[other][j]
    <2> SUFFICES ASSUME NEW i \in DOMAIN queue'[e]
                 PROVE  \E j \in DOMAIN queue[e] : queue'[e][i] = queue[e][j]
      BY <1>4
    <2>1. i \in 1..Len(Tail(queue[e])) /\ i + 1 \in DOMAIN queue[e]
      BY <1>3, <1>4
    <2> QED
      BY <1>3, <1>4, <2>1
  <1>6. \A other \in Requests :
            \/ executing'[other] = executing[other]
            \/ other = e /\ executing'[other] = queue[e][1] /\ 1 \in DOMAIN queue[e]
    BY <1>1, <1>3 DEF EnginesInv, TypeOK
  <1>7. executing' \in [Requests -> Requests \cup {NoRequest}]
    <2>1. Head(queue[e]) \in Requests
      BY <1>3, RequestsAreOfKinds
    <2>2. executing \in [Requests -> Requests \cup {NoRequest}]
      BY DEF EnginesInv, TypeOK
    <2> QED
      BY <1>1, <2>1, <2>2
  <1>8. TypeOK'
    <2> HIDE EnginesAssumption
    <2> QED
      BY <1>1, <1>4, <1>7, Zenon DEF EnginesInv, TypeOK
  <1>9. HandlersInOrder'
    BY <1>1 DEF EnginesInv, HandlersInOrder, InOrder
  <1>10. CommandsAreSent'
    <2>1. \A other \in Requests : \A i \in DOMAIN queue[other] :
              phase[queue[other][i]] \in Sent /\ TenantOf[queue[other][i]] = TenantOf[other]
      BY DEF EnginesInv, CommandsAreSent
    <2>2. \A other \in Requests : \A i \in DOMAIN queue'[other] :
              phase'[queue'[other][i]] \in Sent /\ TenantOf[queue'[other][i]] = TenantOf[other]
      BY <1>1, <1>5, <2>1
    <2>3. ASSUME NEW other \in Requests, executing'[other] # NoRequest
          PROVE  /\ executing'[other] \in Reads \cup Writes
                 /\ phase'[executing'[other]] \in Sent
                 /\ TenantOf[executing'[other]] = TenantOf[other]
      <3>1. CASE executing'[other] = executing[other]
        BY <1>1, <2>3, <3>1 DEF EnginesInv, CommandsAreSent
      <3>2. CASE other = e /\ executing'[other] = queue[e][1] /\ 1 \in DOMAIN queue[e]
        BY <1>1, <1>3, <2>1, <3>2
      <3> QED
        BY <1>6, <3>1, <3>2
    <2>4. \A r \in applied' : phase'[r] \in Sent /\ origin'[TenantOf[r]] # NoRequest
      BY <1>1 DEF EnginesInv, CommandsAreSent
    <2> QED
      BY <2>2, <2>3, <2>4 DEF CommandsAreSent
  <1>11. RefusedWriteNeverHappens'
    BY <1>1, <1>5, <1>6 DEF EnginesInv, RefusedWriteNeverHappens
  <1> QED
    BY <1>1, <1>8, <1>9, <1>10, <1>11, EnginesStay DEF EnginesInv

LEMMA ExecuteKeeps ==
    ASSUME EnginesInv, NEW e \in Requests, Execute(e)
    PROVE  EnginesInv'
  <1> DEFINE r == executing[e]
  <1>1. /\ engine[e] = "actor"
        /\ r # NoRequest
        /\ executing' = [executing EXCEPT ![e] = NoRequest]
        /\ applied' \in {applied, applied \cup ({r} \cap Writes)}
        /\ \/ UNCHANGED <<phase, answer>>
           \/ /\ phase[r] = "waiting"
              /\ phase' = [phase EXCEPT ![r] = "over"]
              /\ \E outcome \in {"done", "failed"} : answer' = [answer EXCEPT ![r] = outcome]
        /\ UNCHANGED <<using, opening, engines, engine, queue, origin, drops, panics>>
    BY DEF Execute
  <1>2. /\ r \in Reads \cup Writes /\ r \in Requests
        /\ phase[r] \in Sent
        /\ TenantOf[r] = TenantOf[e]
    BY <1>1, RequestsAreOfKinds DEF EnginesInv, CommandsAreSent
  <1>3. origin[TenantOf[r]] # NoRequest
    BY <1>1, <1>2 DEF EnginesInv, RegistryHolds
  <1> HIDE DEF r
  <1>4. TypeOK'
    <2>1. /\ phase' \in [Requests -> {"new", "locking", "opening", "sending", "waiting",
                                       "receiving", "restoring", "verifying", "over"}]
          /\ answer' \in [Requests -> {"none", "done", "failed", "unavailable", "conflict",
                                        "restored"}]
      <3>1. /\ phase \in [Requests -> {"new", "locking", "opening", "sending", "waiting",
                                       "receiving", "restoring", "verifying", "over"}]
            /\ answer \in [Requests -> {"none", "done", "failed", "unavailable", "conflict",
                                        "restored"}]
        BY DEF EnginesInv, TypeOK
      <3>2. CASE UNCHANGED <<phase, answer>>
        BY <3>1, <3>2
      <3>3. ASSUME phase' = [phase EXCEPT ![r] = "over"],
                   NEW outcome \in {"done", "failed"}, answer' = [answer EXCEPT ![r] = outcome]
            PROVE  /\ phase' \in [Requests -> {"new", "locking", "opening", "sending", "waiting",
                                               "receiving", "restoring", "verifying", "over"}]
                   /\ answer' \in [Requests -> {"none", "done", "failed", "unavailable",
                                                "conflict", "restored"}]
        BY <3>1, <3>3
      <3> QED
        BY <1>1, <3>2, <3>3
    <2>2. /\ executing' \in [Requests -> Requests \cup {NoRequest}]
          /\ applied' \subseteq Writes
      BY <1>1 DEF EnginesInv, TypeOK
    <2> QED
      BY <1>1, <2>1, <2>2 DEF EnginesInv, TypeOK
  <1>5. HandlersInOrder'
    BY <1>1, <1>2 DEF EnginesInv, TypeOK, HandlersInOrder, InOrder
  <1>6. \A other \in Requests : phase[other] \in Sent => phase'[other] \in Sent
    BY <1>1, <1>2 DEF EnginesInv, TypeOK
  <1>7. CommandsAreSent'
    <2>1. \A other \in Requests : \A i \in DOMAIN queue[other] : queue[other][i] \in Requests
      BY RequestsAreOfKinds DEF EnginesInv, TypeOK
    <2>2. \A other \in Requests : executing'[other] \in {executing[other], NoRequest}
      BY <1>1 DEF EnginesInv, TypeOK
    <2>3. \A other \in applied' : other \in applied \/ other = r
      BY <1>1
    <2>4. applied \subseteq Requests
      BY RequestsAreOfKinds DEF EnginesInv, TypeOK
    <2> QED
      BY <1>1, <1>2, <1>3, <1>6, <2>1, <2>2, <2>3, <2>4, RequestsAreOfKinds
      DEF EnginesInv, CommandsAreSent
  <1>8. RefusedWriteNeverHappens'
    <2> SUFFICES ASSUME panics = 0, NEW w \in Writes, answer'[w] = "unavailable"
                 PROVE  /\ w \notin applied'
                        /\ \A d \in Requests : /\ executing'[d] # w
                                               /\ \A i \in DOMAIN queue'[d] : queue'[d][i] # w
      BY <1>1 DEF RefusedWriteNeverHappens
    <2>1. answer[w] = "unavailable"
      BY <1>1, <1>2, RequestsAreOfKinds DEF EnginesInv, TypeOK
    <2>2. /\ w \notin applied
          /\ \A d \in Requests : /\ executing[d] # w
                                 /\ \A i \in DOMAIN queue[d] : queue[d][i] # w
      BY <2>1 DEF EnginesInv, RefusedWriteNeverHappens
    <2>3. w # r /\ w # NoRequest
      BY <2>2, RequestsAreOfKinds DEF r
    <2> QED
      BY <1>1, <2>2, <2>3 DEF EnginesInv, TypeOK
  <1> QED
    BY <1>1, <1>4, <1>5, <1>7, <1>8, EnginesStay DEF EnginesInv

\* An actor that panics still holds its directory until it has closed.
LEMMA PanicKeeps ==
    ASSUME EnginesInv, NEW e \in Requests, Panic(e)
    PROVE  EnginesInv'
  <1> DEFINE r == executing[e]
  <1>1. /\ engine[e] = "actor"
        /\ r # NoRequest
        /\ engine' = [engine EXCEPT ![e] = "dying"]
        /\ executing' = [executing EXCEPT ![e] = NoRequest]
        /\ applied' \in {applied, applied \cup ({r} \cap Writes)}
        /\ \/ UNCHANGED <<phase, answer>>
           \/ /\ phase[r] = "waiting"
              /\ phase' = [phase EXCEPT ![r] = "over"]
              /\ answer' = [answer EXCEPT ![r] = "unavailable"]
        /\ UNCHANGED <<using, opening, engines, queue, origin, drops>>
    BY DEF Panic
  <1>2. panics' \in 0..MaxPanics /\ panics' > 0
    BY ConstantsAreNumbers DEF Panic, EnginesInv, TypeOK
  <1>3. /\ r \in Reads \cup Writes /\ r \in Requests
        /\ phase[r] \in Sent
        /\ TenantOf[r] = TenantOf[e]
        /\ e \notin Imports
    BY <1>1, RequestsAreOfKinds DEF EnginesInv, CommandsAreSent, HandlersInOrder, InOrder
  <1>4. origin[TenantOf[r]] # NoRequest
    BY <1>1, <1>3 DEF EnginesInv, RegistryHolds
  <1> HIDE DEF r
  <1>5. TypeOK'
    <2>1. /\ phase' \in [Requests -> {"new", "locking", "opening", "sending", "waiting",
                                       "receiving", "restoring", "verifying", "over"}]
          /\ answer' \in [Requests -> {"none", "done", "failed", "unavailable", "conflict",
                                        "restored"}]
      BY <1>1 DEF EnginesInv, TypeOK
    <2>2. /\ engine' \in [Requests -> {"none", "opening", "orphan", "actor", "dying", "closed"}]
          /\ executing' \in [Requests -> Requests \cup {NoRequest}]
      BY <1>1 DEF EnginesInv, TypeOK
    <2>3. applied' \subseteq Writes
      BY <1>1 DEF EnginesInv, TypeOK
    <2> QED
      BY <1>1, <1>2, <2>1, <2>2, <2>3 DEF EnginesInv, TypeOK
  <1>6. HandlersInOrder'
    BY <1>1, <1>2, <1>3 DEF EnginesInv, TypeOK, HandlersInOrder, InOrder
  <1>7. RegistryHolds'
    BY <1>1, RequestsAreOfKinds DEF EnginesInv, TypeOK, RegistryHolds
  <1>8. PlacesAddUp'
    <2>1. Resident' = Resident
      BY <1>1 DEF EnginesInv, TypeOK, Resident, Registered
    <2> QED
      BY <1>1, <2>1 DEF EnginesInv, PlacesAddUp
  <1>9. CommandsAreSent'
    <2>1. \A other \in Requests : \A i \in DOMAIN queue[other] : queue[other][i] \in Requests
      BY RequestsAreOfKinds DEF EnginesInv, TypeOK
    <2>2. \A other \in Requests : executing'[other] \in {executing[other], NoRequest}
      BY <1>1 DEF EnginesInv, TypeOK
    <2>3. \A other \in applied' : other \in applied \/ other = r
      BY <1>1
    <2>4. applied \subseteq Requests
      BY RequestsAreOfKinds DEF EnginesInv, TypeOK
    <2>5. \A other \in Requests : phase[other] \in Sent => phase'[other] \in Sent
      BY <1>1, <1>3 DEF EnginesInv, TypeOK
    <2> QED
      BY <1>1, <1>3, <1>4, <2>1, <2>2, <2>3, <2>4, <2>5, RequestsAreOfKinds
      DEF EnginesInv, CommandsAreSent
  <1>10. RefusedWriteNeverHappens'
    BY <1>2 DEF RefusedWriteNeverHappens
  <1> QED
    BY <1>5, <1>6, <1>7, <1>8, <1>9, <1>10 DEF EnginesInv

\* A closed actor makes room in the registry, whether or not its entry is gone.
LEMMA ClosesKeeps ==
    ASSUME EnginesInv, NEW e \in Requests, Closes(e)
    PROVE  EnginesInv'
  <1> DEFINE left == {r \in Reads \cup Writes : phase[r] = "waiting" /\ using[r] = e}
  <1>1. /\ engine[e] = "dying"
        /\ engine' = [engine EXCEPT ![e] = "closed"]
        /\ queue' = [queue EXCEPT ![e] = <<>>]
        /\ phase' = [r \in Requests |-> IF r \in left THEN "over" ELSE phase[r]]
        /\ answer' = [r \in Requests |-> IF r \in left THEN "unavailable" ELSE answer[r]]
        /\ UNCHANGED <<using, opening, engines, executing, origin, applied, drops, panics>>
    BY DEF Closes
  <1>2. panics > 0 /\ e \notin Imports
    BY <1>1 DEF EnginesInv, HandlersInOrder, InOrder
  <1>3. \A r \in Requests :
            \/ phase[r] = "waiting" /\ phase'[r] = "over" /\ answer'[r] = "unavailable"
            \/ phase'[r] = phase[r] /\ answer'[r] = answer[r]
    BY <1>1
  <1>4. /\ queue' \in [Requests -> Seq(Reads \cup Writes)]
        /\ \A other \in Requests : Len(queue'[other]) <= QueueCapacity
        /\ \A other \in Requests : \A i \in DOMAIN queue'[other] :
               i \in DOMAIN queue[other] /\ queue'[other][i] = queue[other][i]
    BY <1>1, ConstantsAreNumbers DEF EnginesInv, TypeOK
  <1>5. TypeOK'
    BY <1>1, <1>4 DEF EnginesInv, TypeOK
  <1> HIDE DEF left
  <1>6. HandlersInOrder'
    BY <1>1, <1>2, <1>3 DEF EnginesInv, TypeOK, HandlersInOrder, InOrder
  <1>7. RegistryHolds'
    BY <1>1, RequestsAreOfKinds DEF EnginesInv, TypeOK, RegistryHolds
  <1>8. PlacesAddUp'
    <2>1. Resident' \subseteq Resident
      BY <1>1 DEF EnginesInv, TypeOK, Resident, Registered
    <2>2. /\ IsFiniteSet(Resident')
          /\ Cardinality(Resident') <= Cardinality(Resident)
          /\ Cardinality(Resident') \in Nat /\ Cardinality(Resident) \in Nat
      BY <2>1, FS_Subset, FS_CardinalityType DEF EnginesInv, PlacesAddUp
    <2> QED
      BY <1>1, <2>2, ConstantsAreNumbers DEF EnginesInv, PlacesAddUp
  <1>9. CommandsAreSent'
    <2>1. \A other \in Requests : \A i \in DOMAIN queue[other] : queue[other][i] \in Requests
      BY RequestsAreOfKinds DEF EnginesInv, TypeOK
    <2>2. applied \subseteq Requests
      BY RequestsAreOfKinds DEF EnginesInv, TypeOK
    <2>3. \A r \in Requests : phase[r] \in Sent => phase'[r] \in Sent
      BY <1>3
    <2> QED
      BY <1>1, <1>4, <2>1, <2>2, <2>3, RequestsAreOfKinds DEF EnginesInv, CommandsAreSent
  <1>10. RefusedWriteNeverHappens'
    BY <1>1, <1>2 DEF EnginesInv, TypeOK, RefusedWriteNeverHappens
  <1> QED
    BY <1>5, <1>6, <1>7, <1>8, <1>9, <1>10 DEF EnginesInv

LEMMA NextKeeps == EnginesInv /\ [Next]_vars => EnginesInv'
  <1> SUFFICES ASSUME EnginesInv, [Next]_vars PROVE EnginesInv'
    OBVIOUS
  <1>1. CASE UNCHANGED vars
    <2> USE <1>1 DEF vars, EnginesInv
    <2>1. TypeOK'
      BY DEF TypeOK
    <2>2. HandlersInOrder'
      BY DEF HandlersInOrder, InOrder
    <2>3. RegistryHolds' /\ PlacesAddUp'
      BY DEF RegistryHolds, PlacesAddUp, Resident, Registered
    <2>4. CommandsAreSent' /\ RefusedWriteNeverHappens'
      BY DEF CommandsAreSent, RefusedWriteNeverHappens
    <2> QED
      BY <2>1, <2>2, <2>3, <2>4
  <1>2. ASSUME NEW r \in Requests, HandlerStep(r) PROVE EnginesInv'
    BY <1>2, LookupKeeps, AcquireKeeps, SendKeeps, TimesOutKeeps, OpeningEnds DEF HandlerStep
  <1>3. ASSUME NEW r \in Requests, BlockingStep(r) PROVE EnginesInv'
    BY <1>3, DirectoryKeeps, OpenedKeeps, OpeningEnds DEF BlockingStep
  <1>4. ASSUME NEW e \in Requests, ActorStep(e) PROVE EnginesInv'
    BY <1>4, TakeKeeps, ExecuteKeeps, ClosesKeeps DEF ActorStep
  <1> QED
    BY <1>1, <1>2, <1>3, <1>4, PanicKeeps, OpeningEnds DEF Next

-----------------------------------------------------------------------------
\* The invariant of the handlers, the registry and the actors (tenant_engine,
\* the actor's thread, import_checkpoint).
THEOREM EnginesInvariant == Spec => []EnginesInv
  BY NothingResidentIsSound, NextKeeps, PTL DEF Spec

\* The queues keep to their capacity, and the rest to its types.
THEOREM EnginesTypeCorrect == Spec => []TypeOK
  <1>1. EnginesInv => TypeOK
    BY DEF EnginesInv
  <1> QED
    BY <1>1, EnginesInvariant, PTL

\* One actor per tenant, no more of them than the registry may hold, and as long
\* as no handler is dropped one engine in a directory, through every race to
\* open, panic and reopening (tenant_engine, registered_engine).
THEOREM RegistryStaysSound == Spec => []RegistryIsSound
  <1>1. ASSUME EnginesInv PROVE RegistryIsSound
    <2>1. OneActorPerTenant
      <3> SUFFICES ASSUME NEW t \in Tenants PROVE Cardinality(Actors(t)) <= 1
        BY DEF OneActorPerTenant
      <3>1. \A d, e \in Actors(t) : d = e
        BY <1>1 DEF EnginesInv, RegistryHolds, Actors
      <3> QED
        BY <3>1, AtMostOne
    <2>2. ActorsWithinLimit
      <3> DEFINE occupied == {t \in Tenants : Actors(t) # {}}
      <3>1. occupied \subseteq Resident
        BY <1>1, RequestsAreOfKinds
        DEF EnginesInv, RegistryHolds, Actors, Resident, Registered
      <3>2. /\ IsFiniteSet(Resident)
            /\ Cardinality(Resident) <= MaxEngines
        BY <1>1 DEF EnginesInv, PlacesAddUp
      <3> HIDE DEF occupied
      <3>3. /\ IsFiniteSet(occupied)
            /\ Cardinality(occupied) <= Cardinality(Resident)
            /\ Cardinality(occupied) \in Nat /\ Cardinality(Resident) \in Nat
        BY <3>1, <3>2, FS_Subset, FS_CardinalityType
      <3>4. Cardinality(occupied) <= MaxEngines
        BY <3>2, <3>3, ConstantsAreNumbers
      <3> QED
        BY <3>4 DEF ActorsWithinLimit, occupied
    <2>3. OneEnginePerDirectory
      <3> SUFFICES ASSUME drops = 0, NEW t \in Tenants
                   PROVE  Cardinality({e \in Reads \cup Writes : TenantOf[e] = t
                              /\ engine[e] \in {"opening", "orphan", "actor", "dying"}}) <= 1
        BY DEF OneEnginePerDirectory
      <3> DEFINE holding == {e \in Reads \cup Writes : TenantOf[e] = t
                                /\ engine[e] \in {"opening", "orphan", "actor", "dying"}}
      <3>1. \A e \in holding :
                \/ engine[e] = "opening" /\ opening = e
                \/ engine[e] \in Live /\ engines[t] = e
        BY <1>1, RequestsAreOfKinds DEF EnginesInv, HandlersInOrder, InOrder, RegistryHolds
      <3>2. \A e \in holding : TenantOf[e] = t /\ e # NoRequest /\ e \in Requests
        BY RequestsAreOfKinds
      <3>3. \A e \in holding : opening = e => engines[t] = NoRequest
        BY <1>1, <3>2 DEF EnginesInv, RegistryHolds
      <3>4. \A d, e \in holding : d = e
        BY <3>1, <3>2, <3>3
      <3> QED
        BY <3>4, AtMostOne
    <2> QED
      BY <2>1, <2>2, <2>3 DEF RegistryIsSound
  <1> QED
    BY <1>1, EnginesInvariant, PTL

\* A write that was answered 503 has not happened and never will, as long as no
\* actor dies (tenant_engine, try_send, docs/EXECUTION.md).
THEOREM RefusedWritesNeverHappen == Spec => []RefusedWriteNeverHappens
  <1>1. EnginesInv => RefusedWriteNeverHappens
    BY DEF EnginesInv
  <1> QED
    BY <1>1, EnginesInvariant, PTL

\* An import restores into a directory that no engine has written to, however
\* long ago it looked for one (import_checkpoint).
THEOREM ImportsHideNoWrite == Spec => RestoreHidesNoWrite
  <1>1. ASSUME EnginesInv, [Next]_vars, NEW t \in Tenants, origin'[t] # origin[t]
        PROVE  origin[t] = NoRequest
    <2>1. \E r \in Requests : OpenCreates(r) \/ Restore(r)
      BY <1>1 DEF Next, HandlerStep, BlockingStep, ActorStep, Lookup, Acquire, StartsOpening, Send,
                  TimesOut, ImportChecks, ImportReceives, Opened, OpenFails, Verify, ImportFails,
                  OrphanEnds, Take, Execute, Closes, Panic, Drop, vars
    <2> QED
      BY <1>1, <2>1, RequestsAreOfKinds DEF OpenCreates, Restore, EnginesInv, TypeOK
  <1>2. EnginesInv /\ [Next]_vars =>
            [\A t \in Tenants : origin'[t] # origin[t] => \A r \in applied : TenantOf[r] # t]_vars
    BY <1>1 DEF EnginesInv, CommandsAreSent
  <1> QED
    BY <1>2, EnginesInvariant, PTL DEF Spec, RestoreHidesNoWrite
=============================================================================
