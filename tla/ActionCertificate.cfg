SPECIFICATION Spec
CONSTANTS
    Verifiers = {v1, v2}
    Certificates <- MCCertificates
    Strangers <- MCStrangers
    Roots <- MCRoots
    Policy <- MCPolicy
    Approvals = {"p1"}
    Capacity = 2
    SnapshotLife = 1
    MaxTime = 2
INVARIANTS
    AuthorisedAtMostOnce
    LedgerHoldsExactlyTheAccepted
    RevocationTakesEffect
    ApprovedByEnoughOthers
SYMMETRY VerifierSymmetry
