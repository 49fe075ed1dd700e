\* One event, and two embeddings of it that fit; one interruption.
CONSTANTS
    None = None
    e1 = e1
    e2 = e2
    plain = plain
    blocked = blocked
    hidden = hidden
    fit = fit
    other = other
    Subjects = {e1}
    Events = {e1}
    Contents = {plain}
    Blocked = {}
    Quarantined = {}
    Vectors = {fit, other}
    Own = fit
    Unfit = {}
    MaxFaults = 1
    Batches = {}
    Submissions = {}
SPECIFICATION FairSpec
PROPERTIES
    EventsResume
CHECK_DEADLOCK FALSE
