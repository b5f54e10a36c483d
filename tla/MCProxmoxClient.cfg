CONSTANTS
    portal1 = portal1
    portal2 = portal2
    sync = sync
    Callers <- MCCallers
    Timeout <- MCTimeout
    LongestTimeout = 9
    CIRCUIT_FAILURE_THRESHOLD = 3
    CIRCUIT_COOLDOWN = 4
    MaxFailures = 4
SPECIFICATION FairSpec
INVARIANTS
    TypeOK
    OpenOnlyAfterFailures
    StragglersPredateTheTrip
    OutageIsBounded
PROPERTIES
    Recovery
    ImplementsThreeStateBreaker
