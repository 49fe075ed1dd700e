\* Two deletes compete for tokens of two roles and two targets while time passes;
\* five requests of one account, REST and MCP, over two of its windows.
CONSTANTS
    Requests = {q1, q2, q3, q4, q5}
    NoRequest = NoRequest
    Kinds = {"issue", "delete", "destroy"}
    Accounts = {a1}
    Roles = {owner, maintainer}
    Targets = {m1, m2}
    BatchSizes = {1}
    RequestLimit = 1
    RequestWindow = 2
    WriteQuota = 2
    QuotaWindow = 3
    TokenLifetime = 1
    MaxConfirmations = 1
    MaxTime = 4
SPECIFICATION MCSpec
SYMMETRY Symmetry
INVARIANTS
    ThroughputIsLimited
    DestructionIsConfirmedOnce
PROPERTIES
    RefusedOnlyWhenFull
CHECK_DEADLOCK FALSE
