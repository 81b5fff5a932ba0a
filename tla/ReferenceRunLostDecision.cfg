SPECIFICATION Spec
CONSTANTS
    Actors = {a1, a2}
    Original = original
    Edits = {}
    ArtifactFiles = 2
    TTL = 1
    MaxTime = 1
    MaxCrashes = 0
INVARIANT AtMostOneDecision
CHECK_DEADLOCK FALSE
