\* The instance of Knowledge.cfg.
CONSTANTS
    None = None
    p1 = p1
    s1 = s1
    s2 = s2
    e1 = e1
    e2 = e2
    e3 = e3
    t1 = t1
    t2 = t2
    red = red
    blue = blue
    Scopes <- MCScopes
    Events = {e1, e2, e3}
    Source <- MCSource
    Turns = {t1, t2}
    Candidates <- MCCandidates
    Periods <- MCPeriods
    MaxTime = 1
    MaxLinks = 2
    MaxDerived = 4
    MaxFaults = 1
    Entities <- MCEntities
    Labels = {"Ann"}
    Definitions <- MCDefinitions
    Validities <- MCValidities
    Requests <- MCRequests
    MaxGraph = 3
    Agents = {"a", "b"}
    Texts = {"text"}
    LastMinute = 1
    MaxRecords = 3
    MaxRemarks = 2
    ClockStepsBack = FALSE
SPECIFICATION MCSpec
INVARIANTS
    ForgottenIsInactive
CHECK_DEADLOCK FALSE
