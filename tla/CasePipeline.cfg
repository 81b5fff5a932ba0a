SPECIFICATION Spec
CONSTANTS
    Cases <- MCCases
    Extractable <- MCExtractable
    StoreCapacity = 6
    MaxAmount = 5000000
INVARIANTS ExactlyWholeCasesReachTheGate GateShowsEverything TraceIsTheExpectedOne AuditFindsNothingNew SheetFollowsStatute
CHECK_DEADLOCK FALSE
