\* The alarm resolves what clients abandon: imports, exports and MCP calls.
CONSTANTS
    o1 = o1
    o2 = o2
    text = text
    call = call
    import = import
    export = export
    done1 = done1
    done2 = done2
    refused = refused
    busy = busy
    gone = gone
    Operations = {o1, o2}
    Contents = {import, export, call}
    ImportContents = {import}
    ExportContents = {export}
    SessionContents = {call}
    Receipts <- MCReceipts
    Successful <- MCSuccessful
    Unavailable = busy
    NoSession = gone
    NoReceipt = NoReceipt
    NoOperation = NoOperation
    Replayers = {"alarm"}
    GatedReplayers = {}
    MaxInterruptions = 2
SPECIFICATION FairSpec
PROPERTIES
    PendingIsResolved
