SPECIFICATION Spec
CONSTANTS
    Actors = {a1, a2}
    Original = original
    Edits = {edited}
    ArtifactFiles = 2
    TTL = 1
    MaxTime = 2
    MaxCrashes = 1
INVARIANTS
    PackageHasLiveApproval
    StateNamesOnlyWrittenFiles
    RunVerifies
PROPERTIES
    NothingIsTakenBack
    RunImplementsHumanGate
CHECK_DEADLOCK FALSE
