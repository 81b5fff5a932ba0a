SPECIFICATION Spec
CONSTANTS
    Clients = {c1, c2, c3}
    Requests <- MCRequests
    MaxConcurrent = 2
    Capacity = 3
    ReadTicks = 1
    MaxTime = 1
INVARIANTS
    SlotsConserved
    RegisteredWhole
    CalculatedFromRegistered
PROPERTY
    AnyConnectionEnds
