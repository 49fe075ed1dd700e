-------------------------- MODULE MCRequestAdmission --------------------------
(***************************************************************************)
(* Model-checking instances of RequestAdmission.  A behaviour is about     *)
(* tokens, with roles, targets and room for every request, or about the    *)
(* windows, with one principal and little room.                            *)
(***************************************************************************)
EXTENDS RequestAdmission, TLC

VARIABLE about

\* The account has limits of its own and is none of Accounts, whose limits
\* ThroughputIsLimited is about.
Tokens == INSTANCE RequestAdmission WITH
    Accounts <- {"unhurried"}, RequestLimit <- 4, RequestWindow <- 9,
    WriteQuota <- 4, QuotaWindow <- 9, MaxTime <- 2

Windows == INSTANCE RequestAdmission WITH
    Kinds <- {"write", "call"}, Roles <- {"owner"}, Targets <- {"memory"}, BatchSizes <- {1, 2}

MCInit == Init /\ about \in {"tokens", "windows"}

MCNext ==
    /\ UNCHANGED about
    /\ \/ /\ about = "tokens"
          /\ Tokens!Next
          /\ Cardinality({r \in Requests : phase'[r] # "new"}) <= 3
       \/ /\ about = "windows"
          /\ Windows!Next

MCSpec == MCInit /\ [][MCNext]_<<vars, about>>

Symmetry == Permutations(Requests) \cup Permutations(Accounts)
                \cup Permutations(Roles) \cup Permutations(Targets)
=============================================================================
