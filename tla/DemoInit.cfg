SPECIFICATION Spec
CONSTANTS
    Procs = {p1}
    Nobody = nobody
    Children <- MCChildren
    Bundle <- MCBundle
    Output = "out"
    MaxMoves = 2
    MaxFaults = 2
INVARIANT
    FailureLeavesNothing
PROPERTIES
    SuccessIsWhole
    NothingForeignHarmed
CHECK_DEADLOCK FALSE
