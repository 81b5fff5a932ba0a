SPECIFICATION ServerSpec
CONSTANTS
    Actors = {t1, t2}
    Original = original
    Edits = {edited}
    ArtifactFiles = 1
    TTL = 2
    MaxTime = 2
    MaxCrashes = 1
    Requests <- MCRequests
    NoOne = nobody
    MaxResets = 1
INVARIANT
    CallKeepsItsWorkspace
PROPERTIES
    AnswersAreCoherent
    DemoImplementsHumanGate
    LockComesBack
CHECK_DEADLOCK FALSE
