-------------------------- MODULE MCEventIngestion --------------------------
(***************************************************************************)
(* Instances of EventIngestion: batches of up to two of the events.        *)
(***************************************************************************)
EXTENDS EventIngestion

CONSTANTS e1, e2, plain, blocked, hidden, fit, other

Sent(event, content, vector) == [event |-> event, content |-> content, vector |-> vector]

\* A batch without embeddings and the same again with some; and one that has an event
\* twice with two contents, of which the policy rejects the first.
MCSubmissions ==
    {<<Sent(e1, plain, None), Sent(e2, hidden, None)>>,
     <<Sent(e1, plain, fit), Sent(e2, hidden, None)>>,
     <<Sent(e2, hidden, fit), Sent(e1, plain, fit)>>,
     <<Sent(e2, blocked, None), Sent(e2, hidden, None)>>,
     <<Sent(e2, blocked, fit), Sent(e2, hidden, None)>>}

\* One event with two contents and their embeddings.
MCTwoContents == {<<Sent(e1, plain, fit), Sent(e1, hidden, fit)>>}

\* What a client remembers under a key of its own is never hidden; the events'
\* contents are.  For one of the events there are two embeddings that fit.  A
\* client's own key is used where no batches are.
MCNext ==
    /\ Next
    /\ call'.subject \notin Events => call'.content # hidden
    /\ DOMAIN batches' # {} \/ job'.batch # None =>
           DOMAIN ledger' \cup {call'.subject} \subseteq Events \cup {None}
    /\ call'.vector = other => call'.subject = e1
    /\ \A i \in DOMAIN job'.requests :
           job'.requests[i].vector = other => job'.requests[i].event = e1

MCSpec == Init /\ [][MCNext]_vars /\ Fairness
=============================================================================
