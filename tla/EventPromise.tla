---------------------------- MODULE EventPromise ----------------------------
(***************************************************************************)
(* What ingestion promises of a source event, however often it is sent and *)
(* whatever is interrupted: it is accounted for with the content it first  *)
(* came with, becomes at most one memory of that content, which once       *)
(* deleted does not come back, and is settled once.                        *)
(***************************************************************************)
EXTENDS Functions

CONSTANTS Events, Contents

VARIABLES
    accounted,    \* events and their content
    remembered,   \* the memories they became
    known,        \* events that have become a memory at some time
    settled       \* events with a final status

promiseVars == <<accounted, remembered, known, settled>>

PromiseInit ==
    /\ accounted = [e \in {} |-> e]
    /\ remembered = [e \in {} |-> e]
    /\ known = {}
    /\ settled = [e \in {} |-> e]

Extended(map, more) == [k \in DOMAIN map \cup DOMAIN more |->
                           IF k \in DOMAIN map THEN map[k] ELSE more[k]]

Account ==
    /\ \E new \in SUBSET Events : \E content \in [new -> Contents] :
           accounted' = Extended(accounted, content)
    /\ UNCHANGED <<remembered, known, settled>>

Become(e) ==
    /\ e \in DOMAIN accounted \ known
    /\ known' = known \cup {e}
    /\ remembered' = Extended(remembered, [x \in {e} |-> accounted[e]])
    /\ UNCHANGED <<accounted, settled>>

Forget(e) ==
    /\ e \in DOMAIN remembered
    /\ remembered' = Restrict(remembered, DOMAIN remembered \ {e})
    /\ UNCHANGED <<accounted, known, settled>>

\* An event is materialized only as a memory, and rejected only if it never was one.
Settle(e) ==
    /\ e \in DOMAIN accounted \ DOMAIN settled
    /\ \E status \in {"materialized", "rejected"} :
           /\ (status = "materialized") <=> (e \in known)
           /\ settled' = Extended(settled, [x \in {e} |-> status])
    /\ UNCHANGED <<accounted, remembered, known>>

PromiseNext ==
    \/ Account
    \/ \E e \in Events : Become(e) \/ Forget(e) \/ Settle(e)

Promise == PromiseInit /\ [][PromiseNext]_promiseVars
=============================================================================
