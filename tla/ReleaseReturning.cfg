SPECIFICATION Spec
CONSTANTS
    Collectors = {c1}
    Builders = {b1}
    Releasing = {b1}
    Commits <- MCCommits
    Version <- MCVersion
    Budgets <- MCOneRelease
INVARIANTS
    ReleaseIsAttested
CHECK_DEADLOCK FALSE
