\* Acknowledged writes after the Container is destroyed.
CONSTANTS
    o1 = o1
    o2 = o2
    text = text
    call = call
    import = import
    export = export
    done1 = done1
    done2 = done2
    refused = refused
    busy = busy
    gone = gone
    Operations = {o1, o2}
    Contents = {text}
    ImportContents = {}
    ExportContents = {}
    SessionContents = {}
    Receipts <- MCReceipts
    Successful <- MCSuccessful
    Unavailable = busy
    NoSession = gone
    NoReceipt = NoReceipt
    NoOperation = NoOperation
    Replayers = {"alarm"}
    GatedReplayers = {}
    MaxInterruptions = 1
SPECIFICATION FairSpec
PROPERTIES
    AcknowledgedWriteReturns
