\* The instance of Recall.cfg.
CONSTANTS
    None = None
    p1 = p1
    s1 = s1
    s2 = s2
    e1 = e1
    e2 = e2
    t1 = t1
    red = red
    blue = blue
    Scopes <- MCScopes
    Events = {e1, e2}
    Source <- MCSource
    Turns = {t1}
    Candidates <- MCCandidates
    Periods = {}
    MaxTime = 1
    MaxLinks = 1
    MaxDerived = 0
    MaxFaults = 0
    Entities <- MCEntities
    Labels = {}
    Definitions = {}
    Validities = {}
    Requests = {}
    MaxGraph = 2
    Memories = {1, 2, 3, 4}
    Content <- MCContent
    Patches <- MCPatches
    Archive = 1
    TopImportance = 2
    MaxRevision = 2
    RecallRequests <- MCRecallRequests
    Disclosure <- MCDisclosure
    Cost <- MCCost
    Threshold = 3
    MaxResults = 2
    PageSize = 1
    MaxSubscriptions = 1
    ConfirmationLifetime = 0
    MaxTickets = 2
    Expressions <- MCExpressions
    Documents <- MCDocuments
    MaxNodes = 5
    MaxDepth = 3
    MaxValues = 2
    NotStorable = NotStorable
    Null = None
SPECIFICATION MCSpec
INVARIANTS
    RetiredIsNotRecalled
CHECK_DEADLOCK FALSE
