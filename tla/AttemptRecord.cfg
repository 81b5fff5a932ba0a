SPECIFICATION RecordSpec
CONSTANTS
    Receipts <- MCReceipts
    OtherReceipts <- MCOtherReceipts
    Calls <- MCCalls
    Roots <- MCRoots
    Policy <- MCPolicy
    Handover <- MCHandover
    ReceiptCapacity = 2
    ClosureCapacity = 4
    Horizon = 6
    NoDigest = NoDigest
INVARIANTS
    OneAccountPerAttempt
    ExecutedUnderReservation
    ObservedIndependently
    ChainIsLinked
    OneOutcomePerKey
    VerdictSaysWhatHappened
    SuccessNeverPassedOver
    ToldByOutsiders
CHECK_DEADLOCK FALSE
