\* Two events, one with two embeddings that fit, and a client's own key; contents that
\* are stored, hidden and rejected; one interruption.
CONSTANTS
    None = None
    e1 = e1
    e2 = e2
    plain = plain
    blocked = blocked
    hidden = hidden
    fit = fit
    other = other
    Subjects = {e1, e2, k1}
    Events = {e1, e2}
    Contents = {plain, blocked, hidden}
    Blocked = {blocked}
    Quarantined = {hidden}
    Vectors = {fit, other, unfit}
    Own = fit
    Unfit = {unfit}
    MaxFaults = 1
    Batches = {b1}
    Submissions <- MCSubmissions
SPECIFICATION MCSpec
INVARIANTS
    NoOrphans
    AnsweredIsSearchable
    QuarantinedIsHidden
    BatchesAreTrue
PROPERTIES
    KeepsPromise
    EventsSettle
CHECK_DEADLOCK FALSE
