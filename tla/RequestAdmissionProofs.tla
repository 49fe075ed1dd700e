------------------------ MODULE RequestAdmissionProofs ------------------------
(***************************************************************************)
(* What the limits and the confirmations keep true, proved for any         *)
(* requests, accounts and roles, any limits, quotas and batch sizes and    *)
(* any length of time.                                                     *)
(***************************************************************************)
EXTENDS RequestAdmission, FiniteSetTheorems, TLAPS

(***************************************************************************)
(* The invariant.  A token is issued to a request that is over then, so    *)
(* that its owner and its target stay what they were; it leaves the pool   *)
(* in the step that spends it, and a request that has spent one is over.   *)
(***************************************************************************)

IssuedTypeOK ==
    /\ IsFiniteSet(DOMAIN issued)
    /\ \A t \in DOMAIN issued :
           issued[t] \in [principal : Principals, target : Targets, expires : Nat]
    /\ \A r \in DOMAIN spent : spent[r] \in [token : Requests, at : 0..now]

\* How far a handler has come says what its request asks for.
HandlersAsk ==
    \A r \in Requests :
        /\ phase[r] # "new" => r \in DOMAIN asked
        /\ phase[r] = "admitted" => asked[r].kind \in {"call", "delete", "destroy", "issue"}
        /\ phase[r] = "charged" => asked[r].kind = "destroy"
        /\ r \in DOMAIN issued => phase[r] = "passed" /\ asked[r].kind = "issue"
        /\ r \in DOMAIN spent <=> phase[r] = "passed" /\ asked[r].kind \in Destructive

TokensAreBound ==
    /\ \A r \in DOMAIN spent :
           LET token == spent[r].token IN
           /\ token \in DOMAIN issued \ confirmations
           /\ issued[token].principal = asked[r].principal
           /\ issued[token].target = asked[r].target
           /\ spent[r].at <= issued[token].expires
    /\ \A r, other \in DOMAIN spent : spent[r].token = spent[other].token => r = other

AdmissionInv ==
    /\ TypeOK
    /\ IssuedTypeOK
    /\ HandlersAsk
    /\ TokensAreBound

LEMMA ConstantsAreNumbers ==
    /\ {RequestLimit, RequestWindow, WriteQuota, QuotaWindow} \subseteq Nat
    /\ {TokenLifetime, MaxConfirmations, MaxTime} \subseteq Nat
    /\ BatchSizes \subseteq Nat \ {0}
    /\ NoRequest \notin Requests
  BY AdmissionAssumption

-----------------------------------------------------------------------------
\* Lemmas about the operators of the model.

EntryType == [windowStarted : 0..now, quotaStarted : 0..now,
              requests : 0..RequestLimit, writes : 0..WriteQuota]

\* An account's entry keeps to its limits when its windows are renewed, and is
\* made within them.
LEMMA EntriesAreTyped ==
    ASSUME AdmissionInv
    PROVE  /\ \A a : Entry(a) \in EntryType
           /\ \A e \in EntryType : RenewWindow(e) \in EntryType /\ RenewQuota(e) \in EntryType
  <1>1. now \in Nat
    BY DEF AdmissionInv, TypeOK
  <1>2. \A a : Entry(a) \in EntryType
    BY <1>1, ConstantsAreNumbers DEF AdmissionInv, TypeOK, Entry, EntryType
  <1>3. ASSUME NEW e \in EntryType
        PROVE  RenewWindow(e) \in EntryType /\ RenewQuota(e) \in EntryType
    <2>1. now \in 0..now /\ 0 \in 0..RequestLimit /\ 0 \in 0..WriteQuota
      BY <1>1, ConstantsAreNumbers
    <2>2. [e EXCEPT !.windowStarted = now, !.requests = 0] \in EntryType
      BY <2>1 DEF EntryType
    <2>3. [e EXCEPT !.quotaStarted = now, !.writes = 0] \in EntryType
      BY <2>1 DEF EntryType
    <2> QED
      BY <2>2, <2>3 DEF RenewWindow, RenewQuota
  <1> QED
    BY <1>2, <1>3

\* The table keeps to its limits with another entry that does.
LEMMA LimitsAreTyped ==
    ASSUME AdmissionInv, NEW a \in Accounts, NEW e \in EntryType,
           limits' = With(limits, a, e), UNCHANGED now
    PROVE  /\ DOMAIN limits' \subseteq Accounts
           /\ \A other \in DOMAIN limits' : limits'[other] \in EntryType'
  <1>1. EntryType' = EntryType
    BY DEF EntryType
  <1> QED
    BY <1>1 DEF AdmissionInv, TypeOK, EntryType, With

LEMMA AskedIsTyped ==
    ASSUME NEW request \in Asked
    PROVE  /\ request.kind \in Kinds
           /\ request.principal \in Principals
           /\ request.principal.account \in Accounts
           /\ request.target \in Targets
           /\ request.token \in Requests \cup {NoRequest}
           /\ request.units \in Nat \ {0}
  <1>1. BatchSizes \cup {1} \subseteq Nat \ {0}
    BY ConstantsAreNumbers
  <1> QED
    BY <1>1 DEF Asked, Principals

-----------------------------------------------------------------------------
LEMMA NothingAdmittedIsSound == Init => AdmissionInv
  <1> SUFFICES ASSUME Init PROVE AdmissionInv
    OBVIOUS
  <1>1. /\ DOMAIN limits = {} /\ DOMAIN asked = {} /\ DOMAIN issued = {} /\ DOMAIN spent = {}
        /\ confirmations = {} /\ now = 0 /\ phase = [r \in Requests |-> "new"]
    BY DEF Init
  <1>2. TypeOK
    BY <1>1, ConstantsAreNumbers DEF TypeOK
  <1>3. IssuedTypeOK
    BY <1>1, FS_EmptySet DEF IssuedTypeOK
  <1>4. HandlersAsk /\ TokensAreBound
    BY <1>1 DEF HandlersAsk, TokensAreBound
  <1> QED
    BY <1>2, <1>3, <1>4 DEF AdmissionInv

LEMMA TickKeeps ==
    ASSUME AdmissionInv, Tick
    PROVE  AdmissionInv'
  <1>1. /\ now \in Nat /\ now' = now + 1 /\ now' \in 0..MaxTime
        /\ UNCHANGED <<limits, counted, confirmations, issued, spent, phase, asked>>
    BY ConstantsAreNumbers DEF AdmissionInv, TypeOK, Tick, limitVars, tokenVars
  <1>2. 0..now \subseteq 0..now'
    BY <1>1
  <1>3. TypeOK'
    BY <1>1, <1>2 DEF AdmissionInv, TypeOK
  <1>4. IssuedTypeOK'
    BY <1>1, <1>2 DEF AdmissionInv, IssuedTypeOK
  <1>5. HandlersAsk' /\ TokensAreBound'
    BY <1>1 DEF AdmissionInv, HandlersAsk, TokensAreBound
  <1> QED
    BY <1>3, <1>4, <1>5 DEF AdmissionInv

LEMMA ArriveKeeps ==
    ASSUME AdmissionInv, NEW r \in Requests, NEW request \in Asked, Arrive(r, request)
    PROVE  AdmissionInv'
  <1> DEFINE account == request.principal.account
             entry == RenewQuota(RenewWindow(Entry(account)))
             write == IF request.kind \in {"write", "delete"} THEN 1 ELSE 0
             room == entry.requests < RequestLimit /\ (write = 1 => entry.writes < WriteQuota)
             made == IF room THEN [entry EXCEPT !.requests = @ + 1, !.writes = @ + write]
                     ELSE entry
  <1>1. /\ phase[r] = "new"
        /\ asked' = With(asked, r, request)
        /\ limits' = With(limits, account, made)
        /\ \E next \in {"refused", "passed", "admitted"} :
               /\ phase' = [phase EXCEPT ![r] = next]
               /\ next = "passed" => request.kind \in {"read", "write"}
               /\ next = "admitted" => request.kind \notin {"read", "write"}
        /\ UNCHANGED <<now, confirmations, issued, spent>>
    BY DEF Arrive, Goes, tokenVars
  <1>2. account \in Accounts /\ request.kind \in Kinds
    BY AskedIsTyped
  <1>3. entry \in EntryType
    BY EntriesAreTyped
  <1>4. made \in EntryType
    <2>1. CASE room
      <3>1. entry.requests + 1 \in 0..RequestLimit
        BY <1>3, <2>1, ConstantsAreNumbers DEF EntryType
      <3>2. entry.writes + write \in 0..WriteQuota
        BY <1>3, <2>1, ConstantsAreNumbers DEF EntryType
      <3> HIDE DEF entry, write
      <3> QED
        BY <1>3, <2>1, <3>1, <3>2 DEF EntryType
    <2>2. CASE ~room
      BY <1>3, <2>2
    <2> QED
      BY <2>1, <2>2
  <1> HIDE DEF account, entry, write, room, made
  <1>5. /\ DOMAIN limits' \subseteq Accounts
        /\ \A other \in DOMAIN limits' : limits'[other] \in EntryType'
    BY <1>1, <1>2, <1>4, LimitsAreTyped
  <1>6. /\ DOMAIN asked' = DOMAIN asked \cup {r}
        /\ asked'[r] = request
        /\ \A other \in DOMAIN asked : other # r => asked'[other] = asked[other]
    BY <1>1 DEF With
  <1>7. TypeOK'
    BY <1>1, <1>5, <1>6 DEF AdmissionInv, TypeOK, EntryType
  <1>8. r \notin DOMAIN issued /\ r \notin DOMAIN spent
    BY <1>1 DEF AdmissionInv, HandlersAsk
  <1>9. HandlersAsk'
    <2>1. request.kind \in {"read", "write", "call", "delete", "destroy", "issue"}
      BY <1>2, AdmissionAssumption
    <2>2. /\ phase'[r] \in {"refused", "passed", "admitted"}
          /\ phase'[r] = "passed" => request.kind \in {"read", "write"}
          /\ phase'[r] = "admitted" => request.kind \notin {"read", "write"}
          /\ \A other \in Requests : other # r => phase'[other] = phase[other]
      BY <1>1 DEF AdmissionInv, TypeOK
    <2> QED
      BY <1>1, <1>6, <1>8, <2>1, <2>2 DEF AdmissionInv, HandlersAsk, Destructive
  <1>10. TokensAreBound'
    BY <1>1, <1>6, <1>8 DEF AdmissionInv, TypeOK, HandlersAsk, TokensAreBound
  <1>11. IssuedTypeOK'
    BY <1>1 DEF AdmissionInv, IssuedTypeOK
  <1> QED
    BY <1>7, <1>9, <1>10, <1>11 DEF AdmissionInv

LEMMA ChargeKeeps ==
    ASSUME AdmissionInv, NEW r \in Requests, Charge(r)
    PROVE  AdmissionInv'
  <1> DEFINE entry == RenewQuota(Entry(Account(r)))
             units == asked[r].units
  <1>1. /\ phase[r] = "admitted"
        /\ asked[r].kind \in {"call", "destroy"}
        /\ \E next \in {"refused", "passed", "charged"} :
               /\ phase' = [phase EXCEPT ![r] = next]
               /\ next = "passed" => asked[r].kind = "call"
               /\ next = "charged" => asked[r].kind = "destroy"
        /\ UNCHANGED <<now, asked, confirmations, issued, spent>>
    BY DEF Charge, Goes, tokenVars
  <1>2. \E made : /\ limits' = With(limits, Account(r), made)
                  /\ \/ made = entry
                     \/ /\ entry.writes + units <= WriteQuota
                        /\ made = [entry EXCEPT !.writes = @ + units]
    BY DEF Charge
  <1>3. /\ r \in DOMAIN asked
        /\ Account(r) \in Accounts
        /\ units \in Nat
    BY <1>1, AskedIsTyped DEF AdmissionInv, TypeOK, HandlersAsk, Account
  <1>4. entry \in EntryType
    BY EntriesAreTyped
  <1> HIDE DEF entry, units
  <1>5. \E made \in EntryType : limits' = With(limits, Account(r), made)
    BY <1>2, <1>3, <1>4, ConstantsAreNumbers DEF EntryType
  <1>6. /\ DOMAIN limits' \subseteq Accounts
        /\ \A other \in DOMAIN limits' : limits'[other] \in EntryType'
    BY <1>1, <1>3, <1>5, LimitsAreTyped
  <1>7. TypeOK'
    BY <1>1, <1>6 DEF AdmissionInv, TypeOK, EntryType
  <1>8. HandlersAsk'
    BY <1>1 DEF AdmissionInv, TypeOK, HandlersAsk, Destructive
  <1>9. IssuedTypeOK' /\ TokensAreBound'
    BY <1>1 DEF AdmissionInv, IssuedTypeOK, TokensAreBound
  <1> QED
    BY <1>7, <1>8, <1>9 DEF AdmissionInv

LEMMA IssueKeeps ==
    ASSUME AdmissionInv, NEW r \in Requests, Issue(r)
    PROVE  AdmissionInv'
  <1> DEFINE token == [principal |-> asked[r].principal, target |-> asked[r].target,
                       expires |-> now + TokenLifetime]
  <1>1. /\ phase[r] = "admitted"
        /\ asked[r].kind = "issue"
        /\ Unexpired \subseteq confirmations
        /\ UNCHANGED <<now, asked, limits, counted, spent>>
        /\ \/ /\ confirmations' = Unexpired \cup {r}
              /\ issued' = With(issued, r, token)
              /\ phase' = [phase EXCEPT ![r] = "passed"]
           \/ /\ confirmations' = Unexpired
              /\ UNCHANGED issued
              /\ phase' = [phase EXCEPT ![r] = "refused"]
    BY DEF Issue, Goes, limitVars, Unexpired
  <1>2. /\ r \in DOMAIN asked
        /\ r \notin DOMAIN issued
        /\ r \notin DOMAIN spent
    BY <1>1 DEF AdmissionInv, HandlersAsk
  <1>3. token \in [principal : Principals, target : Targets, expires : Nat]
    BY <1>2, AskedIsTyped, ConstantsAreNumbers DEF AdmissionInv, TypeOK
  <1> HIDE DEF token
  <1>4. CASE /\ confirmations' = Unexpired \cup {r}
             /\ issued' = With(issued, r, token)
             /\ phase' = [phase EXCEPT ![r] = "passed"]
    <2>1. /\ DOMAIN issued' = DOMAIN issued \cup {r}
          /\ issued'[r] = token
          /\ \A t \in DOMAIN issued : issued'[t] = issued[t]
      BY <1>2, <1>4 DEF With
    <2>2. TypeOK'
      BY <1>1, <1>4, <2>1 DEF AdmissionInv, TypeOK
    <2>3. IsFiniteSet(DOMAIN issued')
      BY <2>1, FS_AddElement DEF AdmissionInv, IssuedTypeOK
    <2>4. IssuedTypeOK'
      BY <1>1, <1>3, <2>1, <2>3 DEF AdmissionInv, IssuedTypeOK
    <2>5. HandlersAsk'
      BY <1>1, <1>2, <1>4, <2>1 DEF AdmissionInv, TypeOK, HandlersAsk, Destructive
    <2>6. TokensAreBound'
      BY <1>1, <1>2, <1>4, <2>1 DEF AdmissionInv, TokensAreBound
    <2> QED
      BY <2>2, <2>4, <2>5, <2>6 DEF AdmissionInv
  <1>5. CASE /\ confirmations' = Unexpired
             /\ UNCHANGED issued
             /\ phase' = [phase EXCEPT ![r] = "refused"]
    <2>1. TypeOK'
      BY <1>1, <1>5 DEF AdmissionInv, TypeOK
    <2>2. IssuedTypeOK'
      BY <1>1, <1>5 DEF AdmissionInv, IssuedTypeOK
    <2>3. HandlersAsk'
      BY <1>1, <1>2, <1>5 DEF AdmissionInv, TypeOK, HandlersAsk, Destructive
    <2>4. TokensAreBound'
      BY <1>1, <1>2, <1>5 DEF AdmissionInv, TypeOK, TokensAreBound
    <2> QED
      BY <2>1, <2>2, <2>3, <2>4 DEF AdmissionInv
  <1> QED
    BY <1>1, <1>4, <1>5

LEMMA ConfirmKeeps ==
    ASSUME AdmissionInv, NEW r \in Requests, Confirm(r)
    PROVE  AdmissionInv'
  <1> DEFINE token == asked[r].token
  <1>1. /\ \/ phase[r] = "admitted" /\ asked[r].kind = "delete"
           \/ phase[r] = "charged"
        /\ UNCHANGED <<now, asked, limits, counted, issued>>
    BY DEF Confirm, limitVars
  <1>2. asked[r].kind \in Destructive /\ r \in DOMAIN asked
    BY <1>1 DEF AdmissionInv, HandlersAsk, Destructive
  <1>3. r \notin DOMAIN issued /\ r \notin DOMAIN spent
    BY <1>1 DEF AdmissionInv, HandlersAsk
  <1>4. CASE Confirmed(r)
    <2>1. /\ confirmations' = confirmations \ {token}
          /\ spent' = With(spent, r, [token |-> token, at |-> now])
          /\ phase' = [phase EXCEPT ![r] = "passed"]
      BY <1>4 DEF Confirm, Goes
    <2>2. /\ token \in confirmations /\ token \in DOMAIN issued /\ token \in Requests
          /\ issued[token].principal = asked[r].principal
          /\ issued[token].target = asked[r].target
          /\ now <= issued[token].expires
      BY <1>4 DEF Confirmed, AdmissionInv, TypeOK, IssuedTypeOK
    <2>3. /\ DOMAIN spent' = DOMAIN spent \cup {r}
          /\ spent'[r] = [token |-> token, at |-> now]
          /\ \A d \in DOMAIN spent : spent'[d] = spent[d]
      BY <1>3, <2>1 DEF With
    <2>4. now \in 0..now
      BY DEF AdmissionInv, TypeOK
    <2> HIDE DEF token
    <2>5. TypeOK' /\ IssuedTypeOK'
      <3>1. TypeOK'
        BY <1>1, <2>1, <2>2, <2>3, <2>4 DEF AdmissionInv, TypeOK
      <3>2. IssuedTypeOK'
        <4>1. spent'[r] \in [token : Requests, at : 0..now]
          BY <2>2, <2>3, <2>4
        <4>2. \A d \in DOMAIN spent : spent'[d] \in [token : Requests, at : 0..now]
          BY <2>3 DEF AdmissionInv, IssuedTypeOK
        <4> QED
          BY <1>1, <2>3, <4>1, <4>2 DEF AdmissionInv, IssuedTypeOK
      <3> QED
        BY <3>1, <3>2
    <2>6. HandlersAsk'
      BY <1>1, <1>2, <1>3, <2>1, <2>3 DEF AdmissionInv, TypeOK, HandlersAsk
    <2>7. TokensAreBound'
      BY <1>1, <2>1, <2>2, <2>3 DEF AdmissionInv, TokensAreBound
    <2> QED
      BY <2>5, <2>6, <2>7 DEF AdmissionInv
  <1>5. CASE ~Confirmed(r)
    <2>1. /\ phase' = [phase EXCEPT ![r] = "refused"]
          /\ UNCHANGED <<confirmations, spent>>
      BY <1>5 DEF Confirm, Goes
    <2>2. TypeOK' /\ IssuedTypeOK'
      BY <1>1, <2>1 DEF AdmissionInv, TypeOK, IssuedTypeOK
    <2>3. HandlersAsk' /\ TokensAreBound'
      BY <1>1, <1>2, <1>3, <2>1 DEF AdmissionInv, TypeOK, HandlersAsk, TokensAreBound
    <2> QED
      BY <2>2, <2>3 DEF AdmissionInv
  <1> QED
    BY <1>4, <1>5

LEMMA NextKeeps == AdmissionInv /\ [Next]_vars => AdmissionInv'
  <1> SUFFICES ASSUME AdmissionInv, [Next]_vars PROVE AdmissionInv'
    OBVIOUS
  <1>1. CASE UNCHANGED vars
    BY <1>1 DEF vars, limitVars, tokenVars, AdmissionInv, TypeOK, IssuedTypeOK, HandlersAsk,
                TokensAreBound
  <1> QED
    BY <1>1, TickKeeps, ArriveKeeps, ChargeKeeps, IssueKeeps, ConfirmKeeps DEF Next

-----------------------------------------------------------------------------
\* The invariant of the limits and the confirmations (consume_limit,
\* consume_write_quota, issue_confirmation, consume_confirmation).
THEOREM AdmissionInvariant == Spec => []AdmissionInv
  BY NothingAdmittedIsSound, NextKeeps, PTL DEF Spec

\* No window counts more than its limit, nor a quota more than it allows.
THEOREM AdmissionTypeCorrect == Spec => []TypeOK
  <1>1. AdmissionInv => TypeOK
    BY DEF AdmissionInv
  <1> QED
    BY <1>1, AdmissionInvariant, PTL

\* Whatever is deleted or destroyed had a token of its own, of its principal and
\* its target, and in time (consume_confirmation).
THEOREM DestructionIsConfirmed == Spec => []DestructionIsConfirmedOnce
  <1>1. AdmissionInv => DestructionIsConfirmedOnce
    BY DEF AdmissionInv, HandlersAsk, TokensAreBound, DestructionIsConfirmedOnce
  <1> QED
    BY <1>1, AdmissionInvariant, PTL

\* A token is refused only when as many can still be used as there may be: what
\* was consumed or has expired never stands in the way (issue_confirmation).
THEOREM OnlyUsableTokensCount == Spec => RefusedOnlyWhenFull
  <1> DEFINE usable == {t \in DOMAIN issued :
                 issued[t].expires >= now /\ \A d \in DOMAIN spent : spent[d].token # t}
             refusal(r) == asked[r].kind = "issue" /\ phase[r] = "admitted" /\ phase'[r] = "refused"
  <1>1. ASSUME AdmissionInv, [Next]_vars, NEW r \in DOMAIN asked, refusal(r)
        PROVE  Cardinality(usable) >= MaxConfirmations
    <2>1. r \in Requests
      BY <1>1 DEF AdmissionInv, TypeOK
    <2>2. Issue(r)
      <3>1. phase'[r] # phase[r]
        BY <1>1
      <3>2. \A other \in Requests : \A request :
                Arrive(other, request) \/ Charge(other) \/ Issue(other) \/ Confirm(other) =>
                    other = r
        <4>1. ASSUME NEW other \in Requests, NEW request,
                     Arrive(other, request) \/ Charge(other) \/ Issue(other) \/ Confirm(other)
              PROVE  \E next : phase' = [phase EXCEPT ![other] = next]
          BY <4>1 DEF Arrive, Charge, Issue, Confirm, Goes
        <4>2. \A other, next : phase' = [phase EXCEPT ![other] = next] /\ other # r =>
                  phase'[r] = phase[r]
          BY <1>1, <2>1 DEF AdmissionInv, TypeOK
        <4> QED
          BY <3>1, <4>1, <4>2
      <3>3. ~(\E request : Arrive(r, request)) /\ ~Charge(r) /\ ~Confirm(r)
        BY <1>1 DEF Arrive, Charge, Confirm
      <3>4. ~Tick /\ ~UNCHANGED vars
        BY <1>1 DEF Tick, vars
      <3> QED
        BY <1>1, <3>2, <3>3, <3>4 DEF Next
    <2>3. ~(Cardinality(Unexpired) < MaxConfirmations)
      BY <1>1, <2>1, <2>2 DEF Issue, Goes, AdmissionInv, TypeOK
    <2>4. Unexpired \subseteq usable
      BY <1>1 DEF Unexpired, AdmissionInv, TypeOK, TokensAreBound
    <2>5. IsFiniteSet(usable)
      BY <1>1, FS_Subset DEF AdmissionInv, IssuedTypeOK
    <2> HIDE DEF usable
    <2>6. IsFiniteSet(Unexpired) /\ Cardinality(Unexpired) <= Cardinality(usable)
      BY <2>4, <2>5, FS_Subset
    <2>7. Cardinality(Unexpired) \in Nat /\ Cardinality(usable) \in Nat
      BY <2>5, <2>6, FS_CardinalityType
    <2> QED
      BY <2>3, <2>6, <2>7, ConstantsAreNumbers
  <1>2. AdmissionInv /\ [Next]_vars =>
            [\A r \in DOMAIN asked : refusal(r) => Cardinality(usable) >= MaxConfirmations]_vars
    BY <1>1
  <1> QED
    BY <1>2, AdmissionInvariant, PTL DEF Spec, RefusedOnlyWhenFull

-----------------------------------------------------------------------------
(***************************************************************************)
(* What was counted.  A window of an account counts what it let through    *)
(* since it started; what the window before it let through shortly before  *)
(* is no more than one window's worth, because that window had run out.    *)
(***************************************************************************)

\* Of all that was counted in S: what the window that started at s has counted,
\* what falls into the window's length before it, and any stretch of that length
\* before then.
WindowIsSound(S, s, length, n, most) ==
    /\ IsFiniteSet(S)
    /\ \A c \in S : c.at \in Nat /\ c.at < s + length
    /\ Cardinality({c \in S : s <= c.at}) <= n
    /\ Cardinality({c \in S : c.at < s /\ s < c.at + length}) <= most
    /\ \A t \in Nat : t < s => Cardinality({c \in S : c.at <= t /\ t < c.at + length}) <= 2 * most

Counted(account, of) == {c \in counted : c.of = of /\ Account(c.request) = account}

EntryIsSound(account, entry) ==
    /\ WindowIsSound(Counted(account, "request"), entry.windowStarted, RequestWindow,
                     entry.requests, RequestLimit)
    /\ WindowIsSound(Counted(account, "write"), entry.quotaStarted, QuotaWindow,
                     entry.writes, WriteQuota)

CountsAreSound ==
    /\ IsFiniteSet(counted)
    /\ \A c \in counted : c.request \in DOMAIN asked /\ phase[c.request] # "new"
    /\ \A a \in Accounts :
           IF a \in DOMAIN limits THEN EntryIsSound(a, limits[a])
           ELSE \A c \in counted : Account(c.request) # a

\* The union of two finite sets has no more elements than both.
LEMMA UnionIsNoLarger ==
    ASSUME NEW S, NEW T, IsFiniteSet(S), IsFiniteSet(T)
    PROVE  /\ IsFiniteSet(S \cup T)
           /\ Cardinality(S) \in Nat /\ Cardinality(T) \in Nat /\ Cardinality(S \cup T) \in Nat
           /\ Cardinality(S \cup T) <= Cardinality(S) + Cardinality(T)
  <1>1. /\ IsFiniteSet(S \cup T) /\ IsFiniteSet(S \cap T)
        /\ Cardinality(S \cup T) = Cardinality(S) + Cardinality(T) - Cardinality(S \cap T)
    BY FS_Union, FS_Intersection
  <1>2. /\ Cardinality(S) \in Nat /\ Cardinality(T) \in Nat /\ Cardinality(S \cap T) \in Nat
        /\ Cardinality(S \cup T) \in Nat
    BY <1>1, FS_CardinalityType
  <1> QED
    BY <1>1, <1>2

\* A stretch of a window's length meets the window and what came shortly before it,
\* or lies before both.
LEMMA StretchesAreLimited ==
    ASSUME NEW S, NEW s \in Nat, NEW length \in Nat, NEW n \in Nat, NEW most \in Nat, n <= most,
           WindowIsSound(S, s, length, n, most), NEW t \in Nat
    PROVE  Cardinality({c \in S : c.at <= t /\ t < c.at + length}) <= 2 * most
  <1> DEFINE within == {c \in S : s <= c.at}
             before == {c \in S : c.at < s /\ s < c.at + length}
             stretch == {c \in S : c.at <= t /\ t < c.at + length}
  <1>1. CASE t < s
    BY <1>1 DEF WindowIsSound
  <1>2. CASE s <= t
    <2>1. stretch \subseteq within \cup before
      BY <1>2 DEF WindowIsSound
    <2>2. IsFiniteSet(within) /\ IsFiniteSet(before)
      BY FS_Subset DEF WindowIsSound
    <2>3. Cardinality(within) <= n /\ Cardinality(before) <= most
      BY DEF WindowIsSound
    <2> HIDE DEF within, before, stretch
    <2>4. Cardinality(stretch) <= Cardinality(within \cup before) /\ IsFiniteSet(stretch)
      BY <2>1, <2>2, UnionIsNoLarger, FS_Subset
    <2>5. Cardinality(stretch) \in Nat
      BY <2>4, FS_CardinalityType
    <2>6. /\ Cardinality(within) \in Nat /\ Cardinality(before) \in Nat
          /\ Cardinality(within \cup before) \in Nat
          /\ Cardinality(within \cup before) <= Cardinality(within) + Cardinality(before)
      BY <2>2, UnionIsNoLarger
    <2>7. Cardinality(stretch) <= 2 * most
      BY <2>3, <2>4, <2>5, <2>6
    <2> QED
      BY <2>7 DEF stretch
  <1> QED
    BY <1>1, <1>2

\* A window that has run out leaves no more than its worth before the next.
LEMMA RenewedIsSound ==
    ASSUME NEW S, NEW s \in Nat, NEW length \in Nat, NEW n \in Nat, NEW most \in Nat, n <= most,
           WindowIsSound(S, s, length, n, most), NEW t \in Nat, s + length <= t
    PROVE  WindowIsSound(S, t, length, 0, most)
  <1>1. \A c \in S : c.at \in Nat /\ c.at < t
    BY DEF WindowIsSound
  <1>2. {c \in S : t <= c.at} = {}
    BY <1>1
  <1>3. Cardinality({c \in S : t <= c.at}) = 0
    BY <1>2, FS_EmptySet
  <1>4. Cardinality({c \in S : c.at < t /\ t < c.at + length}) <= most
    <2> DEFINE within == {c \in S : s <= c.at}
               before == {c \in S : c.at < t /\ t < c.at + length}
    <2>1. before \subseteq within
      BY <1>1
    <2>2. IsFiniteSet(within) /\ Cardinality(within) <= n
      BY FS_Subset DEF WindowIsSound
    <2> HIDE DEF within, before
    <2>3. Cardinality(before) <= Cardinality(within) /\ IsFiniteSet(before)
      BY <2>1, <2>2, FS_Subset
    <2>4. Cardinality(before) \in Nat /\ Cardinality(within) \in Nat
      BY <2>2, <2>3, FS_CardinalityType
    <2>5. Cardinality(before) <= most
      BY <2>2, <2>3, <2>4
    <2> QED
      BY <2>5 DEF before
  <1>5. \A u \in Nat : Cardinality({c \in S : c.at <= u /\ u < c.at + length}) <= 2 * most
    BY StretchesAreLimited
  <1>6. \A c \in S : c.at \in Nat /\ c.at < t + length
    BY <1>1
  <1> QED
    BY <1>3, <1>4, <1>5, <1>6 DEF WindowIsSound

\* What is counted while a window lasts is counted in it.
LEMMA CountingIsSound ==
    ASSUME NEW S, NEW s \in Nat, NEW length \in Nat, NEW n \in Nat, NEW most \in Nat,
           WindowIsSound(S, s, length, n, most), NEW t \in Nat, s <= t, t < s + length,
           NEW U, IsFiniteSet(U), \A c \in U : c.at = t,
           NEW k \in Nat, Cardinality(U) <= k
    PROVE  WindowIsSound(S \cup U, s, length, n + k, most)
  <1>1. IsFiniteSet(S \cup U)
    BY UnionIsNoLarger DEF WindowIsSound
  <1>2. \A c \in S \cup U : c.at \in Nat /\ c.at < s + length
    BY DEF WindowIsSound
  <1>3. Cardinality({c \in S \cup U : s <= c.at}) <= n + k
    <2> DEFINE within == {c \in S : s <= c.at}
    <2>1. {c \in S \cup U : s <= c.at} = within \cup U
      OBVIOUS
    <2>2. IsFiniteSet(within) /\ Cardinality(within) <= n
      BY FS_Subset DEF WindowIsSound
    <2> HIDE DEF within
    <2>3. /\ Cardinality(within) \in Nat /\ Cardinality(U) \in Nat /\ Cardinality(within \cup U) \in Nat
          /\ Cardinality(within \cup U) <= Cardinality(within) + Cardinality(U)
      BY <2>2, UnionIsNoLarger
    <2>4. Cardinality(within \cup U) <= n + k
      BY <2>2, <2>3
    <2> QED
      BY <2>1, <2>4
  <1>4. {c \in S \cup U : c.at < s /\ s < c.at + length} = {c \in S : c.at < s /\ s < c.at + length}
    OBVIOUS
  <1>5. \A u \in Nat : u < s =>
            {c \in S \cup U : c.at <= u /\ u < c.at + length} = {c \in S : c.at <= u /\ u < c.at + length}
    OBVIOUS
  <1>6. Cardinality({c \in S \cup U : c.at < s /\ s < c.at + length}) <= most
    BY <1>4 DEF WindowIsSound
  <1>7. \A u \in Nat : u < s =>
            Cardinality({c \in S \cup U : c.at <= u /\ u < c.at + length}) <= 2 * most
    BY <1>5 DEF WindowIsSound
  <1> QED
    BY <1>1, <1>2, <1>3, <1>6, <1>7 DEF WindowIsSound

\* Nothing was counted yet.
LEMMA NothingCountedIsSound ==
    ASSUME NEW S, S = {}, NEW s \in Nat, NEW length \in Nat, NEW most \in Nat
    PROVE  WindowIsSound(S, s, length, 0, most)
  <1>1. /\ {c \in S : s <= c.at} = {} /\ {c \in S : c.at < s /\ s < c.at + length} = {}
        /\ \A t \in Nat : {c \in S : c.at <= t /\ t < c.at + length} = {}
    OBVIOUS
  <1>2. IsFiniteSet({}) /\ Cardinality({}) = 0
    BY FS_EmptySet
  <1> QED
    BY <1>1, <1>2 DEF WindowIsSound

\* An account's entry is sound, and so it is when its windows are renewed, which
\* then last.
LEMMA RenewalsAreSound ==
    ASSUME AdmissionInv, CountsAreSound, NEW a \in Accounts
    PROVE  LET e == RenewQuota(Entry(a))
               f == RenewQuota(RenewWindow(Entry(a)))
           IN  /\ e \in EntryType /\ f \in EntryType
               /\ EntryIsSound(a, e) /\ EntryIsSound(a, f)
               /\ now < e.quotaStarted + QuotaWindow /\ now < f.quotaStarted + QuotaWindow
               /\ now < f.windowStarted + RequestWindow
  <1> DEFINE C == Counted(a, "request")
             D == Counted(a, "write")
  <1>1. /\ now \in Nat /\ RequestLimit \in Nat /\ WriteQuota \in Nat
        /\ RequestWindow \in Nat \ {0} /\ QuotaWindow \in Nat \ {0}
    BY AdmissionAssumption DEF AdmissionInv, TypeOK
  <1>2. Entry(a) \in EntryType /\ EntryIsSound(a, Entry(a))
    <2>1. Entry(a) \in EntryType
      BY EntriesAreTyped
    <2>2. CASE a \in DOMAIN limits
      BY <2>1, <2>2 DEF CountsAreSound, Entry
    <2>3. CASE a \notin DOMAIN limits
      <3>1. C = {} /\ D = {}
        BY <2>3 DEF CountsAreSound, Counted
      <3> QED
        BY <1>1, <2>1, <2>3, <3>1, NothingCountedIsSound DEF Entry, EntryIsSound
    <2> QED
      BY <2>2, <2>3, <2>1
  <1>3. ASSUME NEW e \in EntryType, EntryIsSound(a, e)
        PROVE  /\ RenewQuota(e) \in EntryType /\ EntryIsSound(a, RenewQuota(e))
               /\ now < RenewQuota(e).quotaStarted + QuotaWindow
               /\ RenewQuota(e).windowStarted = e.windowStarted
    <2>1. e.quotaStarted \in Nat /\ e.quotaStarted <= now /\ e.writes \in Nat /\ e.writes <= WriteQuota
      BY <1>1 DEF EntryType
    <2>2. RenewQuota(e) \in EntryType
      BY EntriesAreTyped
    <2>3. CASE now - e.quotaStarted >= QuotaWindow
      <3>1. /\ RenewQuota(e).quotaStarted = now /\ RenewQuota(e).writes = 0
            /\ RenewQuota(e).windowStarted = e.windowStarted /\ RenewQuota(e).requests = e.requests
        BY <2>3 DEF RenewQuota, EntryType
      <3>2. WindowIsSound(D, now, QuotaWindow, 0, WriteQuota)
        BY <1>1, <1>3, <2>1, <2>3, RenewedIsSound DEF EntryIsSound
      <3> QED
        BY <1>1, <1>3, <2>2, <3>1, <3>2 DEF EntryIsSound
    <2>4. CASE ~(now - e.quotaStarted >= QuotaWindow)
      BY <1>1, <1>3, <2>1, <2>2, <2>4 DEF RenewQuota
    <2> QED
      BY <2>3, <2>4
  <1>4. ASSUME NEW e \in EntryType, EntryIsSound(a, e)
        PROVE  /\ RenewWindow(e) \in EntryType /\ EntryIsSound(a, RenewWindow(e))
               /\ now < RenewWindow(e).windowStarted + RequestWindow
    <2>1. e.windowStarted \in Nat /\ e.windowStarted <= now /\ e.requests \in Nat /\ e.requests <= RequestLimit
      BY <1>1 DEF EntryType
    <2>2. RenewWindow(e) \in EntryType
      BY EntriesAreTyped
    <2>3. CASE now - e.windowStarted >= RequestWindow
      <3>1. /\ RenewWindow(e).windowStarted = now /\ RenewWindow(e).requests = 0
            /\ RenewWindow(e).quotaStarted = e.quotaStarted /\ RenewWindow(e).writes = e.writes
        BY <2>3 DEF RenewWindow, EntryType
      <3>2. WindowIsSound(C, now, RequestWindow, 0, RequestLimit)
        BY <1>1, <1>4, <2>1, <2>3, RenewedIsSound DEF EntryIsSound
      <3> QED
        BY <1>1, <1>4, <2>2, <3>1, <3>2 DEF EntryIsSound
    <2>4. CASE ~(now - e.windowStarted >= RequestWindow)
      BY <1>1, <1>4, <2>1, <2>2, <2>4 DEF RenewWindow
    <2> QED
      BY <2>3, <2>4
  <1> QED
    BY <1>2, <1>3, <1>4

\* That many units of a request.
LEMMA UnitsAreCounted ==
    ASSUME NEW r, NEW of, NEW number \in Nat
    PROVE  /\ IsFiniteSet(Units(r, of, number)) /\ Cardinality(Units(r, of, number)) <= number
           /\ \A c \in Units(r, of, number) : c.request = r /\ c.of = of /\ c.at = now
  <1> DEFINE f == [u \in 1..number |->
                      [request |-> r, of |-> of, unit |-> u, at |-> now]]
  <1>1. Units(r, of, number) = {f[u] : u \in 1..number}
    BY DEF Units
  <1>2. f \in Surjection(1..number, {f[u] : u \in 1..number})
    BY DEF Surjection
  <1>3. IsFiniteSet(1..number) /\ Cardinality(1..number) = number
    BY FS_Interval
  <1>4. \A c \in Units(r, of, number) : c.request = r /\ c.of = of /\ c.at = now
    BY DEF Units
  <1> HIDE DEF f
  <1>5. /\ IsFiniteSet({f[u] : u \in 1..number})
        /\ Cardinality({f[u] : u \in 1..number}) <= Cardinality(1..number)
    BY <1>2, <1>3, FS_Surjection
  <1> QED
    BY <1>1, <1>3, <1>4, <1>5

\* A request's handler counts what its account's windows still let through.
LEMMA CountedKeeps ==
    ASSUME AdmissionInv, AdmissionInv', CountsAreSound, UNCHANGED now,
           NEW r \in Requests, NEW a \in Accounts, NEW e \in EntryType, EntryIsSound(a, e),
           now < e.quotaStarted + QuotaWindow,
           NEW requests \in Nat, requests > 0 => now < e.windowStarted + RequestWindow,
           NEW writes \in Nat,
           NEW made \in EntryType,
           made.windowStarted = e.windowStarted, made.quotaStarted = e.quotaStarted,
           made.requests = e.requests + requests, made.writes = e.writes + writes,
           limits' = With(limits, a, made),
           counted' = counted \cup (Units(r, "request", requests) \cup Units(r, "write", writes)),
           r \in DOMAIN asked', phase'[r] # "new", Account(r)' = a,
           \A q \in DOMAIN asked : phase[q] # "new" =>
               q \in DOMAIN asked' /\ phase'[q] # "new" /\ Account(q)' = Account(q)
    PROVE  CountsAreSound'
  <1> DEFINE U == Units(r, "request", requests)
             V == Units(r, "write", writes)
  <1>1. /\ IsFiniteSet(U) /\ Cardinality(U) <= requests
        /\ \A c \in U : c.request = r /\ c.of = "request" /\ c.at = now
        /\ IsFiniteSet(V) /\ Cardinality(V) <= writes
        /\ \A c \in V : c.request = r /\ c.of = "write" /\ c.at = now
    BY UnitsAreCounted
  <1>2. requests = 0 => U = {}
    BY DEF Units
  <1> HIDE DEF U, V
  <1>3. IsFiniteSet(counted')
    BY <1>1, UnionIsNoLarger DEF CountsAreSound, U, V
  <1>4. \A c \in counted' : c.request \in DOMAIN asked' /\ phase'[c.request] # "new"
    BY <1>1 DEF CountsAreSound, U, V
  <1>5. \A c \in counted : Account(c.request)' = Account(c.request)
    BY DEF CountsAreSound
  <1>6. \A c \in U \cup V : Account(c.request)' = a
    BY <1>1
  <1>7. /\ Counted(a, "request")' = Counted(a, "request") \cup U
        /\ Counted(a, "write")' = Counted(a, "write") \cup V
    BY <1>1, <1>5, <1>6, Zenon DEF Counted, U, V
  <1>8. ASSUME NEW b \in Accounts, b # a, NEW of PROVE Counted(b, of)' = Counted(b, of)
    BY <1>5, <1>6, <1>8 DEF Counted, U, V
  <1>9. /\ DOMAIN limits' = DOMAIN limits \cup {a} /\ limits'[a] = made
        /\ \A b \in DOMAIN limits : b # a => limits'[b] = limits[b]
    BY DEF With
  <1>10. EntryIsSound(a, made)'
    <2>1. /\ now \in Nat /\ RequestLimit \in Nat /\ WriteQuota \in Nat
          /\ RequestWindow \in Nat \ {0} /\ QuotaWindow \in Nat \ {0}
      BY AdmissionAssumption DEF AdmissionInv, TypeOK
    <2>2. /\ e.quotaStarted \in Nat /\ e.quotaStarted <= now /\ e.writes \in Nat
          /\ e.windowStarted \in Nat /\ e.windowStarted <= now /\ e.requests \in Nat
      BY <2>1 DEF EntryType
    <2>3. WindowIsSound(Counted(a, "write") \cup V, e.quotaStarted, QuotaWindow,
                        e.writes + writes, WriteQuota)
      BY <1>1, <2>1, <2>2, CountingIsSound DEF EntryIsSound
    <2>4. WindowIsSound(Counted(a, "request") \cup U, e.windowStarted, RequestWindow,
                        e.requests + requests, RequestLimit)
      <3>1. CASE requests = 0
        <4>1. Counted(a, "request") \cup U = Counted(a, "request") /\ e.requests + requests = e.requests
          BY <1>2, <2>2, <3>1
        <4> QED
          BY <4>1 DEF EntryIsSound
      <3>2. CASE requests > 0
        BY <1>1, <2>1, <2>2, <3>2, CountingIsSound DEF EntryIsSound
      <3> QED
        BY <3>1, <3>2
    <2> QED
      BY <1>7, <2>3, <2>4 DEF EntryIsSound
  <1>11. ASSUME NEW b \in Accounts, b # a
         PROVE  IF b \in DOMAIN limits' THEN EntryIsSound(b, limits[b])'
                ELSE \A c \in counted' : Account(c.request)' # b
    <2>1. CASE b \in DOMAIN limits
      <3>1. limits'[b] = limits[b] /\ EntryIsSound(b, limits[b])
        BY <1>9, <1>11, <2>1 DEF CountsAreSound
      <3> QED
        BY <1>8, <1>9, <1>11, <2>1, <3>1 DEF EntryIsSound
    <2>2. CASE b \notin DOMAIN limits
      <3>1. \A c \in counted : Account(c.request) # b
        BY <2>2 DEF CountsAreSound
      <3>2. \A c \in counted' : c \in counted \/ c \in U \cup V
        BY DEF U, V
      <3> QED
        BY <1>5, <1>6, <1>9, <1>11, <2>2, <3>1, <3>2
    <2> QED
      BY <2>1, <2>2
  <1>12. \A b \in Accounts :
            IF b \in DOMAIN limits' THEN EntryIsSound(b, limits[b])'
            ELSE \A c \in counted' : Account(c.request)' # b
    BY <1>9, <1>10, <1>11
  <1> QED
    BY <1>3, <1>4, <1>12 DEF CountsAreSound

\* A step that leaves the limits alone keeps what was counted.
LEMMA UncountedKeeps ==
    ASSUME CountsAreSound, UNCHANGED <<limits, counted, asked>>,
           \A q \in DOMAIN asked : phase[q] # "new" => phase'[q] # "new"
    PROVE  CountsAreSound'
  <1>1. \A q : Account(q)' = Account(q)
    BY DEF Account
  <1>2. \A a, of : Counted(a, of)' = Counted(a, of)
    BY <1>1, Zenon DEF Counted
  <1>3. ASSUME NEW a \in Accounts, a \in DOMAIN limits, EntryIsSound(a, limits[a])
        PROVE  EntryIsSound(a, limits[a])'
    BY <1>2, <1>3, Zenon DEF EntryIsSound, WindowIsSound
  <1>4. \A c \in counted' : c.request \in DOMAIN asked' /\ phase'[c.request] # "new"
    BY Zenon DEF CountsAreSound
  <1>5. IsFiniteSet(counted')
    BY DEF CountsAreSound
  <1> QED
    BY <1>1, <1>3, <1>4, <1>5, Zenon DEF CountsAreSound

\* An arrival: one request and at most one write unit.
LEMMA ArriveCounts ==
    ASSUME AdmissionInv, AdmissionInv', CountsAreSound,
           NEW r \in Requests, NEW request \in Asked, Arrive(r, request)
    PROVE  CountsAreSound'
  <1> DEFINE a == request.principal.account
             e == RenewQuota(RenewWindow(Entry(a)))
             write == IF request.kind \in {"write", "delete"} THEN 1 ELSE 0
             room == e.requests < RequestLimit /\ (write = 1 => e.writes < WriteQuota)
  <1>1. /\ phase[r] = "new" /\ now' = now
        /\ asked' = With(asked, r, request)
        /\ limits' = With(limits, a,
               IF room THEN [e EXCEPT !.requests = @ + 1, !.writes = @ + write] ELSE e)
        /\ counted' = counted \cup
               IF room THEN Units(r, "request", 1) \cup Units(r, "write", write) ELSE {}
        /\ \E next \in {"refused", "passed", "admitted"} : phase' = [phase EXCEPT ![r] = next]
    BY DEF Arrive, Goes
  <1>2. /\ a \in Accounts /\ e \in EntryType /\ EntryIsSound(a, e)
        /\ now < e.quotaStarted + QuotaWindow /\ now < e.windowStarted + RequestWindow
    BY AskedIsTyped, RenewalsAreSound
  <1>3. /\ DOMAIN asked' = DOMAIN asked \cup {r} /\ asked'[r] = request
        /\ \A q \in DOMAIN asked : q # r => asked'[q] = asked[q]
    BY <1>1 DEF With
  <1>4. phase'[r] # "new" /\ \A q \in Requests : q # r => phase'[q] = phase[q]
    BY <1>1 DEF AdmissionInv, TypeOK
  <1>5. r \in DOMAIN asked' /\ Account(r)' = a
    BY <1>3 DEF Account
  <1>6. \A q \in DOMAIN asked : phase[q] # "new" =>
            q \in DOMAIN asked' /\ phase'[q] # "new" /\ Account(q)' = Account(q)
    BY <1>1, <1>3, <1>4 DEF Account, AdmissionInv, TypeOK
  <1>7. /\ e.requests \in Nat /\ e.writes \in Nat /\ write \in {0, 1}
        /\ RequestLimit \in Nat /\ WriteQuota \in Nat
        /\ e.requests <= RequestLimit /\ e.writes <= WriteQuota
    BY <1>2, ConstantsAreNumbers DEF EntryType
  <1> HIDE DEF a, e, write
  <1>8. CASE room
    <2> DEFINE made == [e EXCEPT !.requests = @ + 1, !.writes = @ + write]
    <2>1. e.requests + 1 \in 0..RequestLimit /\ e.writes + write \in 0..WriteQuota
      BY <1>7, <1>8
    <2>2. /\ made \in EntryType
          /\ made.windowStarted = e.windowStarted /\ made.quotaStarted = e.quotaStarted
          /\ made.requests = e.requests + 1 /\ made.writes = e.writes + write
      BY <1>2, <2>1 DEF EntryType
    <2>3. /\ limits' = With(limits, a, made)
          /\ counted' = counted \cup (Units(r, "request", 1) \cup Units(r, "write", write))
      BY <1>1, <1>8
    <2> HIDE DEF made
    <2> QED
      BY <1>1, <1>2, <1>4, <1>5, <1>6, <1>7, <2>2, <2>3, CountedKeeps
  <1>9. CASE ~room
    <2>1. Units(r, "request", 0) = {} /\ Units(r, "write", 0) = {}
      BY DEF Units
    <2>2. /\ limits' = With(limits, a, e)
          /\ counted' = counted \cup (Units(r, "request", 0) \cup Units(r, "write", 0))
      BY <1>1, <1>9, <2>1
    <2>3. e.requests = e.requests + 0 /\ e.writes = e.writes + 0
      BY <1>7
    <2> QED
      BY <1>1, <1>2, <1>4, <1>5, <1>6, <2>2, <2>3, CountedKeeps
  <1> QED
    BY <1>8, <1>9

\* An MCP call: all its write units or none.
LEMMA ChargeCounts ==
    ASSUME AdmissionInv, AdmissionInv', CountsAreSound, NEW r \in Requests, Charge(r)
    PROVE  CountsAreSound'
  <1> DEFINE a == Account(r)
             e == RenewQuota(Entry(a))
             units == asked[r].units
  <1>1. /\ phase[r] = "admitted" /\ now' = now /\ asked' = asked
        /\ \E next \in {"refused", "passed", "charged"} : phase' = [phase EXCEPT ![r] = next]
        /\ \/ /\ e.writes + units <= WriteQuota
              /\ limits' = With(limits, a, [e EXCEPT !.writes = @ + units])
              /\ counted' = counted \cup Units(r, "write", units)
           \/ /\ limits' = With(limits, a, e)
              /\ counted' = counted
    BY DEF Charge, Goes
  <1>2. r \in DOMAIN asked /\ a \in Accounts /\ units \in Nat
    BY <1>1, AskedIsTyped DEF AdmissionInv, TypeOK, HandlersAsk, Account
  <1>3. /\ e \in EntryType /\ EntryIsSound(a, e) /\ now < e.quotaStarted + QuotaWindow
    BY <1>2, RenewalsAreSound
  <1>4. phase'[r] # "new" /\ \A q \in Requests : q # r => phase'[q] = phase[q]
    BY <1>1 DEF AdmissionInv, TypeOK
  <1>5. r \in DOMAIN asked' /\ Account(r)' = a
    BY <1>1, <1>2 DEF Account
  <1>6. \A q \in DOMAIN asked : phase[q] # "new" =>
            q \in DOMAIN asked' /\ phase'[q] # "new" /\ Account(q)' = Account(q)
    BY <1>1, <1>4 DEF Account, AdmissionInv, TypeOK
  <1>7. e.requests \in Nat /\ e.writes \in Nat /\ WriteQuota \in Nat
    BY <1>3, ConstantsAreNumbers DEF EntryType
  <1>8. Units(r, "request", 0) = {} /\ Units(r, "write", 0) = {} /\ e.requests = e.requests + 0
    BY <1>7 DEF Units
  <1> HIDE DEF a, e, units
  <1>9. CASE /\ e.writes + units <= WriteQuota
             /\ limits' = With(limits, a, [e EXCEPT !.writes = @ + units])
             /\ counted' = counted \cup Units(r, "write", units)
    <2> DEFINE made == [e EXCEPT !.writes = @ + units]
    <2>1. e.writes + units \in 0..WriteQuota
      BY <1>2, <1>7, <1>9
    <2>2. /\ made \in EntryType
          /\ made.windowStarted = e.windowStarted /\ made.quotaStarted = e.quotaStarted
          /\ made.requests = e.requests + 0 /\ made.writes = e.writes + units
      BY <1>3, <1>8, <2>1 DEF EntryType
    <2>3. /\ limits' = With(limits, a, made)
          /\ counted' = counted \cup (Units(r, "request", 0) \cup Units(r, "write", units))
      BY <1>8, <1>9
    <2> HIDE DEF made
    <2> QED
      BY <1>1, <1>2, <1>3, <1>4, <1>5, <1>6, <2>2, <2>3, CountedKeeps
  <1>10. CASE limits' = With(limits, a, e) /\ counted' = counted
    <2>1. counted' = counted \cup (Units(r, "request", 0) \cup Units(r, "write", 0))
      BY <1>8, <1>10
    <2>2. e.writes = e.writes + 0
      BY <1>7
    <2> QED
      BY <1>1, <1>2, <1>3, <1>4, <1>5, <1>6, <1>8, <1>10, <2>1, <2>2, CountedKeeps
  <1> QED
    BY <1>1, <1>9, <1>10

LEMMA NextCounts == AdmissionInv /\ AdmissionInv' /\ CountsAreSound /\ [Next]_vars => CountsAreSound'
  <1> SUFFICES ASSUME AdmissionInv, AdmissionInv', CountsAreSound, [Next]_vars
               PROVE  CountsAreSound'
    OBVIOUS
  <1>1. CASE Tick \/ UNCHANGED vars
    BY <1>1, UncountedKeeps DEF Tick, vars, limitVars
  <1>2. CASE \E r \in Requests : Issue(r) \/ Confirm(r)
    BY <1>2, UncountedKeeps DEF Issue, Confirm, Goes, limitVars, AdmissionInv, TypeOK
  <1> QED
    BY <1>1, <1>2, ArriveCounts, ChargeCounts DEF Next

\* What was counted is known to the windows (consume_limit, consume_write_quota).
LEMMA CountsStaySound == Spec => []CountsAreSound
  <1>1. Init => CountsAreSound
    BY FS_EmptySet DEF Init, CountsAreSound
  <1> QED
    BY <1>1, NextCounts, AdmissionInvariant, PTL DEF Spec

\* No stretch of a window's length lets more than two windows' worth of requests,
\* or of write units, through: however requests fall across the ends of windows,
\* and whether REST counts them on arrival or MCP once the body is read
\* (consume_limit, consume_write_quota).
THEOREM ThroughputStaysLimited == Spec => []ThroughputIsLimited
  <1>1. ASSUME AdmissionInv, CountsAreSound PROVE ThroughputIsLimited
    <2>1. /\ now \in Nat /\ RequestLimit \in Nat /\ WriteQuota \in Nat
          /\ RequestWindow \in Nat /\ QuotaWindow \in Nat
      BY <1>1, ConstantsAreNumbers DEF AdmissionInv, TypeOK
    <2>2. ASSUME NEW a \in Accounts, NEW t \in 0..now
          PROVE  /\ Cardinality(CountedIn(a, "request", t, RequestWindow)) <= 2 * RequestLimit
                 /\ Cardinality(CountedIn(a, "write", t, QuotaWindow)) <= 2 * WriteQuota
      <3>1. \A of, length : CountedIn(a, of, t, length) =
                {c \in Counted(a, of) : c.at <= t /\ t < c.at + length}
        BY DEF CountedIn, Counted
      <3>2. CASE a \in DOMAIN limits
        <4>1. /\ limits[a].windowStarted \in Nat /\ limits[a].quotaStarted \in Nat
              /\ limits[a].requests \in Nat /\ limits[a].requests <= RequestLimit
              /\ limits[a].writes \in Nat /\ limits[a].writes <= WriteQuota
          BY <1>1, <2>1, <3>2 DEF AdmissionInv, TypeOK
        <4>2. EntryIsSound(a, limits[a])
          BY <1>1, <3>2 DEF CountsAreSound
        <4>3. t \in Nat
          BY <2>1
        <4> QED
          BY <2>1, <3>1, <4>1, <4>2, <4>3, StretchesAreLimited DEF EntryIsSound
      <3>3. CASE a \notin DOMAIN limits
        <4>1. \A of, length : CountedIn(a, of, t, length) = {}
          BY <1>1, <3>3 DEF CountsAreSound, CountedIn
        <4> QED
          BY <2>1, <4>1, FS_EmptySet
      <3> QED
        BY <3>2, <3>3
    <2> QED
      BY <2>2 DEF ThroughputIsLimited
  <1> QED
    BY <1>1, AdmissionInvariant, CountsStaySound, PTL
=============================================================================
