SPECIFICATION Spec
CONSTANTS
    Contexts <- MCContexts
    MaxVersion = 15
INVARIANTS
    NoDeliveryWithoutSignOff
PROPERTY ImplementsHumanGate
CHECK_DEADLOCK FALSE
