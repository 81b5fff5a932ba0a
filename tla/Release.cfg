SPECIFICATION Spec
CONSTANTS
    Collectors = {c1, c2, c3}
    Builders = {b1, b2}
    Releasing = {b1}
    Commits <- MCCommits
    Version <- MCVersion
    Budgets <- MCBudgets
INVARIANTS
    NewestEvidenceSurvives
    EvidenceIsBackAtRest
    ManifestNamesItsOwnFiles
    SteadyReleaseIsAttested
SYMMETRY AnyCollector
CHECK_DEADLOCK FALSE
