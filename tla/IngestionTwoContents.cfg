\* One event that a batch has twice, with two contents and embeddings.
CONSTANTS
    None = None
    e1 = e1
    e2 = e2
    plain = plain
    blocked = blocked
    hidden = hidden
    fit = fit
    other = other
    Subjects = {e1}
    Events = {e1}
    Contents = {plain, hidden}
    Blocked = {}
    Quarantined = {}
    Vectors = {fit}
    Own = fit
    Unfit = {}
    MaxFaults = 0
    Batches = {b1}
    Submissions <- MCTwoContents
SPECIFICATION MCSpec
INVARIANTS
    PayloadsAreOwn
CHECK_DEADLOCK FALSE
