CONSTANTS
    s1 = s1
    s2 = s2
    Slots = {s1, s2}
    MAX_RETRIES = 3
    SYNC_TIMEOUT = 9
    Backoff <- MCBackoff
    CronPeriod = 24
    MaxStreak = 2
    CIRCUIT_FAILURE_THRESHOLD = 3
    CIRCUIT_COOLDOWN = 4
    MaxFailures = 3
SPECIFICATION FairSpec
INVARIANTS
    TypeOK
    GuardMeansOneRun
    AtMostOneTickSkipped
PROPERTIES
    SyncKeepsTrying
