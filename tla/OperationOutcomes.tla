-------------------------- MODULE OperationOutcomes --------------------------
(***************************************************************************)
(* What the control plane promises to the clients of one tenant, without   *)
(* journal, retries, replays or crashes: an accepted operation is decided  *)
(* at most once, and every answer a client gets for it is that decision.   *)
(***************************************************************************)
CONSTANTS Operations, Receipts, NoReceipt

VARIABLES
    accepted,   \* operations the control plane has taken responsibility for
    outcome,    \* the decision on each operation, NoReceipt while undecided
    answers     \* the receipts clients have been sent for each operation

outcomeVars == <<accepted, outcome, answers>>

Init ==
    /\ accepted = {}
    /\ outcome = [op \in Operations |-> NoReceipt]
    /\ answers = [op \in Operations |-> {}]

Accept(op) ==
    /\ op \notin accepted
    /\ accepted' = accepted \cup {op}
    /\ UNCHANGED <<outcome, answers>>

Decide(op, receipt) ==
    /\ op \in accepted
    /\ outcome[op] = NoReceipt
    /\ outcome' = [outcome EXCEPT ![op] = receipt]
    /\ UNCHANGED <<accepted, answers>>

Answer(op) ==
    /\ outcome[op] # NoReceipt
    /\ answers' = [answers EXCEPT ![op] = @ \cup {outcome[op]}]
    /\ UNCHANGED <<accepted, outcome>>

Next ==
    \E op \in Operations :
        \/ Accept(op)
        \/ \E receipt \in Receipts : Decide(op, receipt)
        \/ Answer(op)

Spec == Init /\ [][Next]_outcomeVars
=============================================================================
