--------------------------- MODULE RequestAdmission ---------------------------
(***************************************************************************)
(* What a request must get past before it reaches an engine                *)
(* (rust/crates/celiums-memory-cli/src/server.rs): the request window and  *)
(* the write quota of its principal, and for a destructive operation a     *)
(* confirmation token.  Each is kept under a mutex of its own, so a        *)
(* handler takes them in separate steps with others in between, and bodies *)
(* are awaited between them: time passes.                                  *)
(*                                                                         *)
(* A principal is an account (tenant, user and subject) in a role.  Limits *)
(* are kept per account, confirmations per principal.  A token is named by *)
(* the request that it was issued to.                                      *)
(***************************************************************************)
EXTENDS Naturals, FiniteSets

CONSTANTS
    Requests,
    NoRequest,
    Kinds,             \* kinds of request clients send
    Accounts, Roles,   \* the roles have the capabilities the requests need
    Targets,           \* a destructive operation on a resource
    BatchSizes,        \* write units of one MCP call
    RequestLimit, RequestWindow,
    WriteQuota, QuotaWindow,
    TokenLifetime,     \* five minutes
    MaxConfirmations,
    MaxTime            \* bound on the clock

ASSUME AdmissionAssumption ==
    /\ Kinds \subseteq {"read", "write", "call", "delete", "destroy", "issue"}
    /\ NoRequest \notin Requests
    /\ {RequestLimit, WriteQuota, TokenLifetime, MaxConfirmations, MaxTime} \subseteq Nat
    /\ {RequestWindow, QuotaWindow} \cup BatchSizes \subseteq Nat \ {0}

Destructive == {"delete", "destroy"}   \* DELETE /v1/memories/{id}; an MCP call
Principals == [account : Accounts, role : Roles]
Asked == {request \in [kind : Kinds, principal : Principals, target : Targets,
                       token : Requests \cup {NoRequest}, units : BatchSizes \cup {1}] :
             /\ request.kind # "call" => request.units = 1
             /\ request.kind \notin Destructive => request.token = NoRequest}

VARIABLES
    now,
    limits,          \* per account: both windows and what they have counted
    confirmations,   \* pending tokens
    phase,           \* where each request's handler is
    asked,           \* what each request asks for
    counted,         \* every request and write unit that was let through, with its time
    issued,          \* every token issued: to whom, for what, until when
    spent            \* the request that consumed each token, and when

limitVars == <<limits, counted>>
tokenVars == <<confirmations, issued, spent>>
vars == <<now, limitVars, tokenVars, phase, asked>>

TypeOK ==
    /\ now \in 0..MaxTime
    /\ DOMAIN limits \subseteq Accounts
    /\ \A a \in DOMAIN limits :
           limits[a] \in [windowStarted : 0..now, quotaStarted : 0..now,
                          requests : 0..RequestLimit, writes : 0..WriteQuota]
    /\ phase \in [Requests -> {"new", "admitted", "charged", "passed", "refused"}]
    /\ DOMAIN asked \subseteq Requests
    /\ \A r \in DOMAIN asked : asked[r] \in Asked
    /\ confirmations \subseteq DOMAIN issued
    /\ DOMAIN issued \cup DOMAIN spent \subseteq Requests

Init ==
    /\ now = 0
    /\ limits = [a \in {} |-> NoRequest]
    /\ confirmations = {}
    /\ phase = [r \in Requests |-> "new"]
    /\ asked = [r \in {} |-> NoRequest]
    /\ counted = {}
    /\ issued = [r \in {} |-> NoRequest]
    /\ spent = [r \in {} |-> NoRequest]

With(map, key, value) ==
    [k \in DOMAIN map \cup {key} |-> IF k = key THEN value ELSE map[k]]
Goes(r, next) == phase' = [phase EXCEPT ![r] = next]
Account(r) == asked[r].principal.account

Tick ==
    /\ now < MaxTime
    /\ now' = now + 1
    /\ UNCHANGED <<limitVars, tokenVars, phase, asked>>

-----------------------------------------------------------------------------
\* Limits.

\* The account's entry, made on its first request.
Entry(account) ==
    IF account \in DOMAIN limits THEN limits[account]
    ELSE [windowStarted |-> now, quotaStarted |-> now, requests |-> 0, writes |-> 0]

\* Mutant: the counter starts again but the window does not move.
RenewWindowLate(entry) ==
    IF now - entry.windowStarted >= RequestWindow THEN [entry EXCEPT !.requests = 0] ELSE entry

\* A window that has run out starts again.
RenewWindow(entry) ==
    IF now - entry.windowStarted >= RequestWindow
      THEN [entry EXCEPT !.windowStarted = now, !.requests = 0] ELSE entry
RenewQuota(entry) ==
    IF now - entry.quotaStarted >= QuotaWindow
      THEN [entry EXCEPT !.quotaStarted = now, !.writes = 0] ELSE entry

\* That many units of a request are counted, of its window or of its quota.
Units(r, of, number) == {[request |-> r, of |-> of, unit |-> u, at |-> now] : u \in 1..number}

\* consume_limit() on arrival: both windows are renewed, the request and, for a
\* REST write, one write unit are counted if both have room.
Arrive(r, request) ==
    LET account == request.principal.account
        entry == RenewQuota(RenewWindow(Entry(account)))
        write == IF request.kind \in {"write", "delete"} THEN 1 ELSE 0
        room == entry.requests < RequestLimit /\ (write = 1 => entry.writes < WriteQuota) IN
    /\ phase[r] = "new"
    /\ asked' = With(asked, r, request)
    /\ limits' = With(limits, account,
           IF room THEN [entry EXCEPT !.requests = @ + 1, !.writes = @ + write] ELSE entry)
    /\ counted' = counted \cup
           IF room THEN Units(r, "request", 1) \cup Units(r, "write", write) ELSE {}
    /\ Goes(r, IF ~room THEN "refused"
               ELSE IF request.kind \in {"read", "write"} THEN "passed" ELSE "admitted")
    /\ UNCHANGED <<now, tokenVars>>

\* consume_write_quota() of an MCP call, once its body has been read: all its
\* units or none.
Charge(r) ==
    LET entry == RenewQuota(Entry(Account(r)))
        units == asked[r].units IN
    /\ phase[r] = "admitted"
    /\ asked[r].kind \in {"call", "destroy"}
    /\ IF entry.writes + units <= WriteQuota
         THEN /\ limits' = With(limits, Account(r), [entry EXCEPT !.writes = @ + units])
              /\ counted' = counted \cup Units(r, "write", units)
              /\ Goes(r, IF asked[r].kind = "call" THEN "passed" ELSE "charged")
         ELSE /\ limits' = With(limits, Account(r), entry)
              /\ Goes(r, "refused")
              /\ UNCHANGED counted
    /\ UNCHANGED <<now, asked, tokenVars>>

-----------------------------------------------------------------------------
\* Confirmations.

\* Mutant: only tokens that were used are cleared away.
UnexpiredAndExpired == confirmations

\* The pending tokens that an issue keeps.
Unexpired == {t \in confirmations : issued[t].expires >= now}

\* issue_confirmation(): expired tokens are cleared away, and a new one is
\* issued if there is room.
Issue(r) ==
    /\ phase[r] = "admitted"
    /\ asked[r].kind = "issue"
    /\ IF Cardinality(Unexpired) < MaxConfirmations
         THEN /\ confirmations' = Unexpired \cup {r}
              /\ issued' = With(issued, r, [principal |-> asked[r].principal,
                                            target |-> asked[r].target,
                                            expires |-> now + TokenLifetime])
              /\ Goes(r, "passed")
         ELSE /\ confirmations' = Unexpired
              /\ Goes(r, "refused")
              /\ UNCHANGED issued
    /\ UNCHANGED <<now, asked, limitVars, spent>>

\* The token is pending, not expired, and this principal's for this target.
Confirmed(r) ==
    LET token == asked[r].token IN
    /\ token \in confirmations
    /\ issued[token].expires >= now
    /\ issued[token].principal = asked[r].principal
    /\ issued[token].target = asked[r].target

\* Mutant: the token stays.
ConfirmKeeping(r) ==
    /\ \/ phase[r] = "admitted" /\ asked[r].kind = "delete"
       \/ phase[r] = "charged"
    /\ IF Confirmed(r)
         THEN /\ spent' = With(spent, r, [token |-> asked[r].token, at |-> now])
              /\ Goes(r, "passed")
         ELSE Goes(r, "refused") /\ UNCHANGED spent
    /\ UNCHANGED <<now, asked, limitVars, confirmations, issued>>

\* consume_confirmation() before a destructive operation is dispatched; what
\* the limits have counted stays counted.
Confirm(r) ==
    /\ \/ phase[r] = "admitted" /\ asked[r].kind = "delete"
       \/ phase[r] = "charged"
    /\ IF Confirmed(r)
         THEN /\ confirmations' = confirmations \ {asked[r].token}
              /\ spent' = With(spent, r, [token |-> asked[r].token, at |-> now])
              /\ Goes(r, "passed")
         ELSE Goes(r, "refused") /\ UNCHANGED <<confirmations, spent>>
    /\ UNCHANGED <<now, asked, limitVars, issued>>

Next ==
    \/ Tick
    \/ \E r \in Requests :
           \/ \E request \in Asked :
                  /\ request.token \in DOMAIN issued \cup {NoRequest}
                  /\ Arrive(r, request)
           \/ Charge(r)
           \/ Issue(r)
           \/ Confirm(r)

Spec == Init /\ [][Next]_vars

-----------------------------------------------------------------------------
\* What was counted for an account in the given stretch of time up to t.
CountedIn(account, of, t, length) ==
    {c \in counted :
        c.of = of /\ Account(c.request) = account /\ c.at <= t /\ t < c.at + length}

\* However requests fall across the ends of windows, no stretch of one window's
\* length lets more than two windows' worth of requests or of write units
\* through, those that REST counts on arrival and those that MCP counts once the
\* body is read (consume_limit, consume_write_quota).
ThroughputIsLimited ==
    \A a \in Accounts, t \in 0..now :
        /\ Cardinality(CountedIn(a, "request", t, RequestWindow)) <= 2 * RequestLimit
        /\ Cardinality(CountedIn(a, "write", t, QuotaWindow)) <= 2 * WriteQuota

\* A destructive operation goes through only with a token of its own that was
\* issued to the same principal for the same target at most five minutes ago
\* (docs/EXECUTION.md: "one-use, expiring, bound tokens").
DestructionIsConfirmedOnce ==
    /\ \A r \in Requests : phase[r] = "passed" /\ asked[r].kind \in Destructive =>
           /\ r \in DOMAIN spent
           /\ issued[spent[r].token].principal = asked[r].principal
           /\ issued[spent[r].token].target = asked[r].target
           /\ spent[r].at <= issued[spent[r].token].expires
    /\ \A r, other \in DOMAIN spent : spent[r].token = spent[other].token => r = other

\* Only tokens that can still be used stand in the way of a new one: consumed
\* and expired ones make room (issue_confirmation).
RefusedOnlyWhenFull ==
    [][\A r \in DOMAIN asked :
          asked[r].kind = "issue" /\ phase[r] = "admitted" /\ phase'[r] = "refused" =>
              Cardinality({t \in DOMAIN issued :
                  issued[t].expires >= now /\ \A d \in DOMAIN spent : spent[d].token # t})
                >= MaxConfirmations]_vars
=============================================================================
