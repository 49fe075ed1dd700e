\* Two operations, replays from the alarm and from the queue racing client requests;
\* five exports with crashes between any two writes, each retried before the next
\* one is begun.
CONSTANTS
    o1 = o1
    o2 = o2
    text = text
    call = call
    import = import
    export = export
    done1 = done1
    done2 = done2
    refused = refused
    busy = busy
    gone = gone
    Operations = {o1, o2}
    Contents = {text, import, export}
    ImportContents = {import}
    ExportContents = {export}
    SessionContents = {}
    Receipts <- MCReceipts
    Successful <- MCSuccessful
    Unavailable = busy
    NoSession = gone
    NoReceipt = NoReceipt
    NoOperation = NoOperation
    Replayers = {"alarm", "queue"}
    GatedReplayers = {}
    MaxInterruptions = 2
    MaxExports = 5
    Retention = 3
    LateRetries = FALSE
SPECIFICATION MCSpec
SYMMETRY Symmetry
INVARIANTS
    AnswersAreDurable
    HighWaterExact
    ReferencedAreKept
PROPERTIES
    KeepsContract
    BodyKeptUntilSettled
    ReplayInOrder
    OutlivedBeforeDeleted
