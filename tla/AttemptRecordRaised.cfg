SPECIFICATION RecordSpec
CONSTANTS
    Receipts <- MCReceipts
    OtherReceipts <- MCOtherReceipts
    Calls <- MCCalls
    Roots <- MCRoots
    Policy <- MCPolicy
    Handover <- MCHandover
    ReceiptCapacity = 2
    ClosureCapacity = 1
    Horizon = 6
    NoDigest = NoDigest
INVARIANT
    AlwaysAVerdict
CHECK_DEADLOCK FALSE
